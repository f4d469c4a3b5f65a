----------------------------------- MODULE Db -----------------------------------
(***************************************************************************)
(* LeelooDb::Db (db.h): a map from keys to Data objects under one lock,     *)
(* called by any number of threads.  The map owns its Data and deletes them *)
(* when they are replaced or removed; Get gives the caller a copy, made     *)
(* before the lock is released.                                             *)
(*                                                                          *)
(* A Data object is a cell of the heap that holds one value.  The steps     *)
(* under the lock are separate so that each use of a cell can be looked at. *)
(***************************************************************************)
EXTENDS FiniteSets

CONSTANTS Threads, Keys, Values,
          Cells,    \* Data objects
          NoThread, \* the holder of a free lock
          NULL      \* no key, no cell, no value

ASSUME DbAssumption ==
  /\ NoThread \notin Threads
  /\ NULL \notin Keys \cup Cells \cup Values

VARIABLES
  m_map,   \* the cell of each key
  m_mtx_,  \* the thread that holds the lock
  heap,    \* the value in each cell, NULL if there is no such object
  call     \* of each thread: where it is, the function and parameters, the value
           \*   its Set came with, what find has found, and the result

vars == <<m_map, m_mtx_, heap, call>>

NoCall == [pc |-> "idle", op |-> "none", key |-> NULL, valSmart |-> NULL, val |-> NULL,
           iter |-> NULL, ret |-> "none"]

Init ==
  /\ m_map = [k \in Keys |-> NULL]
  /\ m_mtx_ = NoThread
  /\ heap = [c \in Cells |-> NULL]
  /\ call = [t \in Threads |-> NoCall]

At(t, place) == call[t].pc = place
Go(t, place) == call' = [call EXCEPT ![t].pc = place]
Finish(t, ret) == call' = [call EXCEPT ![t].pc = "leave", ![t].ret = ret]
Free(c) == heap' = [heap EXCEPT ![c] = NULL]
FreeCells == {c \in Cells : heap[c] = NULL}

--------------------------------------------------------------------------------
(* A caller of Get or Del has a key or NULL, one of Set a value as well, in *)
(* any cell that is free (a bound: none may be left).                       *)
Call(t, op, k, v) ==
  /\ At(t, "idle")
  /\ v # NULL => op = "Set"
  /\ \E c \in IF v = NULL THEN {NULL} ELSE FreeCells :
       /\ call' = [call EXCEPT ![t] = [NoCall EXCEPT !.pc = "enter", !.op = op, !.key = k,
                                                    !.val = v, !.valSmart = c]]
       /\ heap' = IF v = NULL THEN heap ELSE [heap EXCEPT ![c] = v]
  /\ UNCHANGED <<m_map, m_mtx_>>

Invalid(t) == call[t].key = NULL \/ (call[t].op = "Set" /\ call[t].valSmart = NULL)

ParamInvalid(t) ==
  /\ At(t, "enter") /\ Invalid(t)
  /\ Finish(t, "PARAINVALID_ERRORCODE")
  /\ UNCHANGED <<m_map, m_mtx_, heap>>

Enter(t) ==
  /\ At(t, "enter") /\ ~Invalid(t)
  /\ m_mtx_ = NoThread
  /\ m_mtx_' = t
  /\ Go(t, "find")
  /\ UNCHANGED <<m_map, heap>>

(* Mutation: what a key had is not deleted when it is set again. *)
Found_SetForgets(op) == CASE op = "Get" -> "copy" [] op = "Set" -> "erase" [] op = "Del" -> "delete"
Found(op) == IF op = "Get" THEN "copy" ELSE "delete"

Find(t) ==
  /\ At(t, "find") /\ m_map[call[t].key] # NULL
  /\ call' = [call EXCEPT ![t].iter = m_map[call[t].key],
                          ![t].pc = Found(call[t].op)]
  /\ UNCHANGED <<m_map, m_mtx_, heap>>

FindEnd(t) ==
  /\ At(t, "find") /\ m_map[call[t].key] = NULL
  /\ IF call[t].op = "Set" THEN Go(t, "insert") ELSE Finish(t, "FAIL")
  /\ UNCHANGED <<m_map, m_mtx_, heap>>

(* Mutation: Get gives the caller the Data in the map. *)
Copy_Shares(t) ==
  /\ At(t, "copy")
  /\ call' = [call EXCEPT ![t].pc = "leave", ![t].ret = "SUCCESS", ![t].valSmart = call[t].iter]
  /\ UNCHANGED <<m_map, m_mtx_, heap>>

(* Get: a new Data with the same content. *)
Copy(t) ==
  /\ At(t, "copy")
  /\ \E c \in FreeCells :
       /\ heap' = [heap EXCEPT ![c] = heap[call[t].iter]]
       /\ call' = [call EXCEPT ![t].pc = "leave", ![t].ret = "SUCCESS", ![t].valSmart = c]
  /\ UNCHANGED <<m_map, m_mtx_>>

Delete(t) ==
  /\ At(t, "delete")
  /\ Free(call[t].iter)
  /\ Go(t, "erase")
  /\ UNCHANGED <<m_map, m_mtx_>>

Erase(t) ==
  /\ At(t, "erase")
  /\ m_map' = [m_map EXCEPT ![call[t].key] = NULL]
  /\ IF call[t].op = "Set" THEN Go(t, "insert") ELSE Finish(t, "SUCCESS")
  /\ UNCHANGED <<m_mtx_, heap>>

Insert(t) ==
  /\ At(t, "insert")
  /\ m_map' = [m_map EXCEPT ![call[t].key] = call[t].valSmart]
  /\ call' = [call EXCEPT ![t].pc = "leave", ![t].ret = "SUCCESS", ![t].valSmart = NULL]
  /\ UNCHANGED <<m_mtx_, heap>>

(* Mutation: a call that fails returns with the lock. *)
Leave_FailKeepsLock(t) ==
  /\ At(t, "leave")
  /\ m_mtx_' = IF m_mtx_ = t /\ call[t].ret # "FAIL" THEN NoThread ELSE m_mtx_
  /\ Go(t, "return")
  /\ UNCHANGED <<m_map, heap>>

(* The guard unlocks, and what is left in the caller's auto_ptr is deleted  *)
(* when the caller is done with it.                                         *)
Leave(t) ==
  /\ At(t, "leave")
  /\ m_mtx_' = IF m_mtx_ = t THEN NoThread ELSE m_mtx_
  /\ Go(t, "return")
  /\ UNCHANGED <<m_map, heap>>

Return(t) ==
  /\ At(t, "return")
  /\ IF call[t].valSmart = NULL THEN UNCHANGED heap ELSE Free(call[t].valSmart)
  /\ call' = [call EXCEPT ![t] = NoCall]
  /\ UNCHANGED <<m_map, m_mtx_>>

(* ~Db deletes what the map still has; nobody may be calling. *)
Destroy ==
  /\ \A t \in Threads : At(t, "idle")
  /\ heap' = [c \in Cells |-> IF \E k \in Keys : m_map[k] = c THEN NULL ELSE heap[c]]
  /\ m_map' = [k \in Keys |-> NULL]
  /\ UNCHANGED <<m_mtx_, call>>

Step(t) ==
  \/ ParamInvalid(t) \/ Enter(t) \/ Find(t) \/ FindEnd(t) \/ Copy(t)
  \/ Delete(t) \/ Erase(t) \/ Insert(t) \/ Leave(t) \/ Return(t)

Next ==
  \/ \E t \in Threads :
       \/ \E op \in {"Get", "Set", "Del"}, k \in Keys \cup {NULL}, v \in Values \cup {NULL} :
            Call(t, op, k, v)
       \/ Step(t)
  \/ Destroy

Spec == Init /\ [][Next]_vars

--------------------------------------------------------------------------------
(* No Data is read or deleted that has been deleted: a thread that reads    *)
(* what find has found, and the map whenever nobody is inside the lock,     *)
(* refer to Data that are there, whatever the other threads delete in       *)
(* between (db.h:36-41, 52, 66).                                            *)
NoUseAfterDelete ==
  /\ \A t \in Threads : call[t].pc \in {"copy", "delete"} => heap[call[t].iter] # NULL
  /\ \A t \in Threads : call[t].valSmart # NULL => heap[call[t].valSmart] # NULL
  /\ m_mtx_ = NoThread => \A k \in Keys : m_map[k] # NULL => heap[m_map[k]] # NULL

(* Every Data has one owner, a key of the map or one caller's auto_ptr, so  *)
(* that it is deleted once and not forgotten; but for the moment in which   *)
(* one has been deleted and the map not yet changed (db.h:22, 40, 52-55).   *)
Stale(k) == \E t \in Threads : At(t, "erase") /\ call[t].key = k
Owners(c) == {k \in Keys : m_map[k] = c /\ ~Stale(k)} \cup {t \in Threads : call[t].valSmart = c}
OneOwner == \A c \in Cells : heap[c] # NULL => Cardinality(Owners(c)) = 1

(* Callers see a store in which every call takes effect at once: a Get      *)
(* never misses a key that is being set again, nor gets half of it          *)
(* (db.h:27-69).                                                            *)
Linearized(t) ==
  \/ call[t].pc \in {"leave", "return"}
  \/ call[t].op = "Set" /\ call[t].pc \in {"erase", "insert"}
  \/ call[t].op = "Del" /\ call[t].pc = "erase"
ValueOf(k) ==
  LET writers == {t \in Threads : call[t].pc \in {"erase", "insert"} /\ call[t].key = k}
  IN IF writers # {} THEN (CHOOSE v \in Values \cup {NULL} : \E t \in writers : v = call[t].val)
     ELSE IF m_map[k] = NULL THEN NULL ELSE heap[m_map[k]]
Request(t) == [op |-> call[t].op, key |-> call[t].key, val |-> call[t].val]
Shown(t) ==
  IF At(t, "idle") THEN [op |-> "none"]
  ELSE [op |-> call[t].op, request |-> Request(t),
        ret |-> IF ~Linearized(t) THEN "none"
                ELSE IF call[t].ret = "none" THEN "SUCCESS" ELSE call[t].ret,
        got |-> IF Linearized(t) /\ call[t].op = "Get" /\ call[t].valSmart # NULL
                THEN heap[call[t].valSmart] ELSE NULL]
Store == INSTANCE KeyValueStore WITH
  None <- NULL,
  store <- [k \in Keys |-> ValueOf(k)],
  call <- [t \in Threads |-> Shown(t)]
ImplementsStore == Store!Spec

(* Whatever a call finds, it has let go of the lock when it returns         *)
(* (db.h:32-42, 48-56, 62-68).                                              *)
LockIsReleased == \A t \in Threads : call[t].pc \in {"idle", "enter", "return"} => m_mtx_ # t
================================================================================
