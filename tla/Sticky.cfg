SPECIFICATION Spec
CONSTANTS
  Accounts = {a1, a2, a3}
  Models = {m1}
  ProModels = {}
  AllModels = all
  MaxLevel = 1
  Base = 1
  Cap = 1
  ShortCooldown = 1
  LongCooldown = 1
  StickyLimit = 2
  MaxTime = 6
SYMMETRY Symmetry
CHECK_DEADLOCK FALSE
INVARIANTS LimitHoldsBetweenTies NobodyPassedOver
