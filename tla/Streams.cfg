SPECIFICATION Spec
CONSTANTS
  Names = {"f", "g"}
  MaxCalls = 3
  MaxParts = 2
  MaxBlocks = 3
CHECK_DEADLOCK FALSE
INVARIANTS TypeOK DeliveredFaithfully AllCallsDelivered CallsNumbered
PROPERTIES FollowsProtocol NothingAfterFinish
