SPECIFICATION Spec
CONSTANTS
  g1 = g1
  g2 = g2
  g3 = g3
  Getters <- ThreeGetters
  MaxValid = 4
  MaxHeld <- LargestFitting
SYMMETRY GettersSymmetry
INVARIANTS
  IdsConserved
  IncrementSafe
PROPERTIES
  ImplementsIdPool
