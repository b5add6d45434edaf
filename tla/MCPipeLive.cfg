\* One processor: reads and writes end once the other end is closed.
CONSTANTS
    p = p  c = c  d = d  None = None
    Envs = {p, c}  Parent = p  Reader = c  Writers = {p}  Mortal = {c}
    NFD = 2  BufSize = 1  NBytes = 2  MaxRead = 2
    Ops = {"close", "fork", "read", "write"}  OneCpu = TRUE
SPECIFICATION LiveSpec
PROPERTY BlockedCallsEnd
CHECK_DEADLOCK FALSE
