\* One processor: the writer finishes between the two tests of the reader.
CONSTANTS
    p = p  c = c  d = d  None = None
    Envs = {p, c}  Parent = p  Reader = c  Writers = {p}  Mortal = {}
    NFD = 2  BufSize = 1  NBytes = 2  MaxRead = 2
    Ops = {"close", "dup", "fork", "test", "read", "write"}  OneCpu = TRUE
SPECIFICATION Spec
PROPERTY EofMeansDrained
CHECK_DEADLOCK FALSE
