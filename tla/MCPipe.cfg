\* One processor: the parent forks one child, then both use the pipe.
CONSTANTS
    p = p  c = c  d = d  None = None
    Envs = {p, c}  Parent = p  Reader = c  Writers = {p}  Mortal = {c}
    NFD = 2  BufSize = 1  NBytes = 2  MaxRead = 2
    Ops = {"close", "dup", "fork", "test", "read", "write"}  OneCpu = TRUE
SPECIFICATION Spec
INVARIANTS ClosedIsTrue BytesInOrder
CHECK_DEADLOCK FALSE
