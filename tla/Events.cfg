SPECIFICATION ParserSpec
CONSTANTS
  Sizes = {5}
  BadSizes = {0, 9}
  MaxSize = 8
  MaxSaid = 3
CHECK_DEADLOCK FALSE
INVARIANTS RelaysWhatArrived EndReleases
PROPERTY FeedReturns
