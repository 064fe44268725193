SPECIFICATION FairSpec
CONSTANTS
  Accounts = {a1,a2,a3}
  Models = {m1,mpro}
  ProModels = {mpro}
  AllModels = all
  MaxLevel = 3
  Base = 2
  Cap = 5
  ShortCooldown = 3
  LongCooldown = 5
  Second = 2
  StickyLimit = 2
  Requests = {r1}
  Tasks = {t1}
  InitialAccounts = {a1}
  PriorLocks = {0,3,6}
  NoAccount = none
  NoModel = nomodel
  MaxRetries = 1
  MaxTime = 3
  MaxEvents = 3
CHECK_DEADLOCK FALSE
INVARIANTS TypeOK LockBound
PROPERTIES GivesUpOnlyWhenExhausted LocksHold RetryAfterIsNeverLate RequestsEnd TasksReturn
