CONSTANTS
  Requests <- AllRequests
  Lengths <- SomeLengths
  MAXLEN = 3
  BUFLEN = 2
  MaxFile = 5
SPECIFICATION HttpSpec
INVARIANTS
  PostIsWhole
  LengthIsRight
  ItemsAreFreed
CHECK_DEADLOCK FALSE
