CONSTANTS
  t1 = t1
  t2 = t2
  k1 = k1
  k2 = k2
  v1 = v1
  v2 = v2
  d1 = d1
  d2 = d2
  d3 = d3
  d4 = d4
  NULL = NULL
  NoThread = NoThread
  Threads <- TwoThreads
  Keys <- TwoKeys
  Values <- TwoValues
  Cells <- FourCells
SPECIFICATION Spec
SYMMETRY Symmetry
INVARIANTS
  NoUseAfterDelete
  OneOwner
  LockIsReleased
PROPERTIES
  ImplementsStore
