---------------------------------- MODULE IdPool ----------------------------------
(***************************************************************************)
(* What the id manager of uniondb promises its callers, without the queue   *)
(* and the counter it is made of: an id is lent to at most one holder at a  *)
(* time, and a caller is refused only if, at some moment during its call,   *)
(* every id was lent out.                                                   *)
(***************************************************************************)
CONSTANTS Ids,      \* the ids that can be lent
          Getters   \* the threads that ask for ids

VARIABLES allocated,  \* the ids lent out
          request     \* what each thread is doing: "idle", "waiting", "refused"

vars == <<allocated, request>>

TypeOK ==
  /\ allocated \subseteq Ids
  /\ request \in [Getters -> {"idle", "waiting", "refused"}]

Init ==
  /\ allocated = {}
  /\ request = [g \in Getters |-> "idle"]

(* A thread asks for an id. *)
Call(g) ==
  /\ request[g] = "idle"
  /\ request' = [request EXCEPT ![g] = "waiting"]
  /\ UNCHANGED allocated

(* It is lent one that nobody holds. *)
Grant(g, id) ==
  /\ request[g] = "waiting"
  /\ id \notin allocated
  /\ allocated' = allocated \cup {id}
  /\ request' = [request EXCEPT ![g] = "idle"]

(* The pool notices that it is empty, and decides to refuse ... *)
Exhaust(g) ==
  /\ request[g] = "waiting"
  /\ allocated = Ids
  /\ request' = [request EXCEPT ![g] = "refused"]
  /\ UNCHANGED allocated

(* ... and the caller learns of it, maybe after ids were given back. *)
Refuse(g) ==
  /\ request[g] = "refused"
  /\ request' = [request EXCEPT ![g] = "idle"]
  /\ UNCHANGED allocated

(* A holder gives its id back. *)
Free(id) ==
  /\ id \in allocated
  /\ allocated' = allocated \ {id}
  /\ UNCHANGED request

Next ==
  \/ \E g \in Getters : Call(g) \/ Exhaust(g) \/ Refuse(g)
  \/ \E g \in Getters, id \in Ids : Grant(g, id)
  \/ \E id \in Ids : Free(id)

Spec == Init /\ [][Next]_vars
================================================================================
