------------------------------- MODULE MCSmartPtr -------------------------------
(***************************************************************************)
(* SmartPtr for TLC: threads, pointers and objects are model values.        *)
(***************************************************************************)
EXTENDS SmartPtr, TLC

CONSTANTS t1, t2, s1, s2, s3, o1, o2, o3

TwoThreads == {t1, t2}
ThreeSlots == {s1, s2, s3}
ThreeObjects == {o1, o2, o3}
Symmetry == Permutations(TwoThreads)
================================================================================
