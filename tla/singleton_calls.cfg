CONSTANTS
  u1 = u1
  u2 = u2
  x1 = x1
  x2 = x2
  o1 = o1
  o2 = o2
  NULL = NULL
  NoThread = NoThread
  Objects <- TwoObjects
  Users <- TwoUsers
  Closers <- TwoClosers
SPECIFICATION FairSpec
INVARIANTS
  OneInstance
  PointerTrue
  UsesLiveObject
PROPERTIES
  InstanceReturns
