------------------------------ MODULE KeyValueStore ------------------------------
(***************************************************************************)
(* What LeelooDb::Db promises its callers: each Get, Set and Del takes      *)
(* effect at one moment between its call and its return, on a store that    *)
(* maps keys to values.  The value of a Get is the caller's own copy.       *)
(***************************************************************************)
CONSTANTS Threads, Keys, Values, None

VARIABLES store, \* the value of each key, or None
          call   \* of each thread, what it asked for and, once done, the result

vars == <<store, call>>

Idle == [op |-> "none"]
Requests == [op : {"Get", "Del"}, key : Keys \cup {None}, val : {None}]
       \cup [op : {"Set"}, key : Keys \cup {None}, val : Values \cup {None}]
Asked(request) == [op |-> request.op, request |-> request, ret |-> "none", got |-> None]
Done(request, ret, got) == [op |-> request.op, request |-> request, ret |-> ret, got |-> got]

Init == store = [k \in Keys |-> None] /\ call = [t \in Threads |-> Idle]

Call(t, request) ==
  /\ call[t] = Idle
  /\ call' = [call EXCEPT ![t] = Asked(request)]
  /\ UNCHANGED store

Valid(request) == request.key # None /\ (request.op = "Set" => request.val # None)

Answer(t, r) ==
  \/ /\ ~Valid(r)
     /\ call' = [call EXCEPT ![t] = Done(r, "PARAINVALID_ERRORCODE", None)]
     /\ UNCHANGED store
  \/ /\ Valid(r) /\ r.op = "Set"
     /\ store' = [store EXCEPT ![r.key] = r.val]
     /\ call' = [call EXCEPT ![t] = Done(r, "SUCCESS", None)]
  \/ /\ Valid(r) /\ r.op # "Set" /\ store[r.key] = None
     /\ call' = [call EXCEPT ![t] = Done(r, "FAIL", None)]
     /\ UNCHANGED store
  \/ /\ Valid(r) /\ r.op = "Get" /\ store[r.key] # None
     /\ call' = [call EXCEPT ![t] = Done(r, "SUCCESS", store[r.key])]
     /\ UNCHANGED store
  \/ /\ Valid(r) /\ r.op = "Del" /\ store[r.key] # None
     /\ store' = [store EXCEPT ![r.key] = None]
     /\ call' = [call EXCEPT ![t] = Done(r, "SUCCESS", None)]

Do(t) == call[t] # Idle /\ call[t].ret = "none" /\ Answer(t, call[t].request)

Return(t) ==
  /\ call[t] # Idle /\ call[t].ret # "none"
  /\ call' = [call EXCEPT ![t] = Idle]
  /\ UNCHANGED store

(* The store is deleted, and perhaps made anew, between calls. *)
Delete ==
  /\ \A t \in Threads : call[t] = Idle
  /\ store' = [k \in Keys |-> None]
  /\ UNCHANGED call

Next ==
  \/ \E t \in Threads : (\E request \in Requests : Call(t, request)) \/ Do(t) \/ Return(t)
  \/ Delete

Spec == Init /\ [][Next]_vars
================================================================================
