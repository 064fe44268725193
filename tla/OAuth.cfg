SPECIFICATION Spec
CONSTANTS
  Sessions = {s1, s2}
  Requests = {r1}
  NoSession = nosession
  MaxCodes = 2
  MaxCrashes = 1
CHECK_DEADLOCK FALSE
INVARIANTS StatusTellsTheAccount
PROPERTIES SuccessIsItsOwn CompletionsSettle
