CONSTANTS
    CONSBUFSIZE = 3  BUFLEN = 3  CRT_COLS = 2  CRT_SIZE = 4
    Keys <- SomeKeys  SerialChars <- SomeSerial  MaxKeys = 4  MaxSerial = 2  MaxEvents = 5  None = None
SPECIFICATION Spec
INVARIANTS KeysDecoded RingIsNewest LineOnScreen
CHECK_DEADLOCK FALSE
VIEW Seen
