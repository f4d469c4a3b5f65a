------------------------------- MODULE MCIdManager -------------------------------
(***************************************************************************)
(* IdManager for TLC: two threads are in GetFreeId with two ids left, three *)
(* with three left, and one goes on alone until all ids are out and beyond. *)
(***************************************************************************)
EXTENDS IdManager, TLC

CONSTANTS g1, g2, g3

ThreeGetters == {g1, g2, g3}
GettersSymmetry == Permutations(ThreeGetters)

(* With four ids: the largest bounds under which Fits holds. *)
LargestFitting == <<5, 3, 2>>

ASSUME MCAssumption == Fits
================================================================================
