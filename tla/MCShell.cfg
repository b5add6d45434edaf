CONSTANTS
    NENV = 5  MaxIds = 7  MaxLines = 1  MaxPipes = 3  NFD = 6  PIPEBUFSIZ = 1  MAXARGS = 3
    Lines <- SomeLines  Programs <- OneCharWords  Texts <- TextFiles
    OutLen = 2  MaxFaults = 1  None = None
SPECIFICATION LiveSpec
INVARIANTS RunsWhatTheLineSays NothingLeftBehind
PROPERTY LineEnds
CHECK_DEADLOCK FALSE
