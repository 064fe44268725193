SPECIFICATION Spec
CONSTANTS
  Accounts = {a1,a2}
  Models = {m1}
  ProModels = {}
  AllModels = all
  MaxLevel = 2
  Base = 1
  Cap = 2
  ShortCooldown = 1
  LongCooldown = 2
  Second = 1
  StickyLimit = 2
  Requests = {r1,r2}
  Tasks = {t1}
  InitialAccounts = {a1,a2}
  NoAccount = none
  PriorLocks = {0}
  NoModel = nomodel
  MaxRetries = 1
  MaxTime = 2
  MaxEvents = 3
SYMMETRY Symmetry
CHECK_DEADLOCK FALSE
INVARIANTS AttemptAccounting RefreshLocks NoSecondRefresh
PROPERTIES StaleOnlyAfterFailure GoneStaysGone
