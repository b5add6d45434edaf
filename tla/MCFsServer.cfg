SPECIFICATION LiveSpec
CONSTANTS
  Clients = {a, b}
  First = a
  Slots <- TwoSlots
  MAXOPEN = 2
  Files = {f}
  Missing = missing
  Buffers <- OneWord
  CHUNK = 1
  MaxCalls = 3
  Mortal = {b}
  RacySeek = FALSE
  None = None
CHECK_DEADLOCK FALSE
INVARIANTS
  OpenStaysOpen
  PanicsExplained
PROPERTIES
  ImplementsOpenFiles
  Answered
