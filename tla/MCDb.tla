---------------------------------- MODULE MCDb ----------------------------------
(* Db for TLC: threads, keys, values and cells are model values. *)
EXTENDS Db, TLC

CONSTANTS t1, t2, k1, k2, v1, v2, d1, d2, d3, d4

TwoThreads == {t1, t2}
TwoKeys == {k1, k2}
TwoValues == {v1, v2}
FourCells == {d1, d2, d3, d4}
Symmetry == Permutations(TwoThreads) \cup Permutations(TwoKeys) \cup Permutations(TwoValues)
            \cup Permutations(FourCells)
================================================================================
