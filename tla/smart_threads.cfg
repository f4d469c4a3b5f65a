CONSTANTS
  t1 = t1
  t2 = t2
  s1 = s1
  s2 = s2
  s3 = s3
  o1 = o1
  o2 = o2
  o3 = o3
  shared = o1
  NULL = NULL
  Threads <- TwoThreads
  Slots <- ThreeSlots
  Objects <- ThreeObjects
SPECIFICATION Spec
SYMMETRY Symmetry
INVARIANTS
  CountExact
  NoDangling
  DeletedWithLast
CHECK_DEADLOCK FALSE
