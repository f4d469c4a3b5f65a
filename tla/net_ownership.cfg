SPECIFICATION FairSpec
CONSTANTS
  c1 = c1
  c2 = c2
  c3 = c3
  h1 = h1
  h2 = h2
  w1 = w1
  w2 = w2
  NoConn = NoConn
  NoSock = NoSock
  Conns <- TwoConns
  Handles <- TwoHandles
  Workers <- TwoWorkers
  MaxSession = 3
  MaxValid = 3
  MaxChunks = 1
  MaxFaults = 1
INVARIANTS
  SingleOwner
  OwnSocket
  RightOp
  LeaksBounded
PROPERTIES
  EventuallyClosed
  EventuallyEchoed
CHECK_DEADLOCK FALSE
