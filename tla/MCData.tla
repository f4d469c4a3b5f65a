--------------------------------- MODULE MCData ---------------------------------
(* Data for TLC: strings of up to two elements. *)
EXTENDS Data

TwoElements == {"a", "b"}
ShortStrings == UNION {[1 .. n -> T] : n \in 0 .. 2}
================================================================================
