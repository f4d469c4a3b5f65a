CONSTANTS
  T <- TwoElements
  Strings <- ShortStrings
  NUL = NUL
  Unwritten = Unwritten
  MaxLen = 4
SPECIFICATION Spec
INVARIANTS
  HoldsAppended
  ReadsInOrder
