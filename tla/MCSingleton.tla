------------------------------- MODULE MCSingleton -------------------------------
(* Singleton for TLC: two threads of each kind, as model values. *)
EXTENDS Singleton

CONSTANTS u1, u2, x1, x2, o1, o2

TwoUsers == {u1, u2}
TwoClosers == {x1, x2}
TwoObjects == {o1, o2}
================================================================================
