------------------------------- MODULE MCNetServer -------------------------------
(***************************************************************************)
(* NetServer for TLC: connections, handles and workers are model values.    *)
(***************************************************************************)
EXTENDS NetServer, TLC

CONSTANTS c1, c2, c3, h1, h2, w1, w2

TwoConns == {c1, c2}
ThreeConns == {c1, c2, c3}
TwoHandles == {h1, h2}
TwoWorkers == {w1, w2}

OwnershipSymmetry ==
  Permutations(ThreeConns) \cup Permutations(TwoHandles) \cup Permutations(TwoWorkers)
================================================================================
