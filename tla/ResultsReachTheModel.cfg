SPECIFICATION Spec
CONSTANTS
  Calls = {c1, c2}
  NoCall = nocall
  MaxCycles = 1
  MaxEntries = 4
  MaxPayload = 6
  SoftFloor = 2
  HardFloor = 1
  Rests = {0, 2, 9}
  MaxMessages = 6
SYMMETRY Symmetry
CHECK_DEADLOCK FALSE
INVARIANTS ResultsReachTheModel
