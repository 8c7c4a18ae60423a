SPECIFICATION Spec
CONSTANTS
  Bufs = {b1, b2, b3}
  Null = Null
  Slots = 2
  Offset = 5
  MaxLines = 3
  MaxClock = 2
  MaxDumps = 2
  MaxFails = 1
INVARIANTS
  NoLongerNeeded
CHECK_DEADLOCK FALSE
