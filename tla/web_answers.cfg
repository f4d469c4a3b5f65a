SPECIFICATION WebFairSpec
CONSTANTS
  c1 = c1
  c2 = c2
  c3 = c3
  h1 = h1
  h2 = h2
  w1 = w1
  w2 = w2
  NoConn = NoConn
  NoSock = NoSock
  Conns <- TwoConns
  Handles <- TwoHandles
  Workers <- TwoWorkers
  MaxSession = 2
  MaxValid = 2
  MaxChunks = 2
  MaxFaults = 0
  MaxPieces = 2
  MayReset = {}
  Requests <- Pages
INVARIANTS
  AnswersInOrder
PROPERTIES
  EventuallyClosed
  EventuallyAnswered
CHECK_DEADLOCK FALSE
