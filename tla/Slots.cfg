SPECIFICATION FairSpec
CONSTANTS
  Requests = {r1,r2,r3}
  InitialSize = 2
  Sizes <- AnySizes
  InitialCooldown = 1
  Cooldowns = {1, 2}
  BadBodies = TRUE
  EarlyDisconnects = TRUE
  Start = 2
  MaxTime = 3
  MaxSlots = 4
CHECK_DEADLOCK FALSE
INVARIANTS TypeOK InFlightExact
PROPERTIES LeastBusyWhenCounted SlotsComeBack
