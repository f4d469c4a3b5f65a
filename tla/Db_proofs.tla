--------------------------------- MODULE Db_proofs ---------------------------------
(***************************************************************************)
(* Proofs about Db, for any number of threads, keys, values and cells: the  *)
(* ownership of the Data, the lock, and that Db implements KeyValueStore.   *)
(***************************************************************************)
EXTENDS Db, FiniteSetTheorems, TLAPS

Inside == {"find", "copy", "delete", "erase", "insert"}
Places == {"idle", "enter", "leave", "return"} \cup Inside
Rets == {"none", "SUCCESS", "FAIL", "PARAINVALID_ERRORCODE"}
Calls == [pc : Places, op : {"none", "Get", "Set", "Del"}, key : Keys \cup {NULL},
          valSmart : Cells \cup {NULL}, val : Values \cup {NULL}, iter : Cells \cup {NULL}, ret : Rets]

Types ==
  /\ m_map \in [Keys -> Cells \cup {NULL}]
  /\ m_mtx_ \in Threads \cup {NoThread}
  /\ heap \in [Cells -> Values \cup {NULL}]
  /\ call \in [Threads -> Calls]

(* The thread that has the lock is inside, or about to give it back. *)
LockInv ==
  \A t \in Threads :
    /\ call[t].pc \in Inside => m_mtx_ = t
    /\ m_mtx_ = t => call[t].pc \in Inside \cup {"leave"}

(* What a call has and has found, by the place where it is. *)
CallInv ==
  \A t \in Threads :
    /\ call[t].pc = "idle" => call[t] = NoCall
    /\ call[t].pc # "idle" => call[t].op # "none"
    /\ call[t].ret # "none" <=> call[t].pc \in {"leave", "return"}
    /\ call[t].pc \in Inside => ~Invalid(t)
    /\ call[t].pc = "copy" => call[t].op = "Get"
    /\ call[t].pc \in {"delete", "erase"} => call[t].op \in {"Set", "Del"}
    /\ call[t].pc = "insert" => call[t].op = "Set" /\ m_map[call[t].key] = NULL
    /\ call[t].pc \in {"copy", "delete", "erase"} =>
         call[t].iter = m_map[call[t].key] /\ call[t].iter # NULL
    /\ call[t].op # "Set" => call[t].val = NULL
    /\ call[t].pc \in {"enter"} \cup Inside =>
         /\ call[t].valSmart = NULL <=> call[t].val = NULL
         /\ call[t].val # NULL => heap[call[t].valSmart] = call[t].val

(* A Data has an owner, and no two; and what is owned is a Data. *)
OwnerInv ==
  /\ \A k \in Keys : m_map[k] # NULL /\ ~Stale(k) => heap[m_map[k]] # NULL
  /\ \A t \in Threads : call[t].valSmart # NULL => heap[call[t].valSmart] # NULL
  /\ \A j, k \in Keys : m_map[j] = m_map[k] /\ m_map[k] # NULL /\ ~Stale(j) /\ ~Stale(k) => j = k
  /\ \A t, u \in Threads : call[t].valSmart = call[u].valSmart /\ call[t].valSmart # NULL => t = u
  /\ \A k \in Keys, t \in Threads :
       m_map[k] # NULL /\ ~Stale(k) => m_map[k] # call[t].valSmart
  /\ \A c \in Cells : heap[c] # NULL =>
       (\E k \in Keys : m_map[k] = c /\ ~Stale(k)) \/ (\E t \in Threads : call[t].valSmart = c)

IInv == Types /\ LockInv /\ CallInv /\ OwnerInv

LEMMA InitInv == Init => IInv
  BY DbAssumption
  DEF Init, IInv, Types, LockInv, CallInv, OwnerInv, Stale, At, NoCall, Calls, Places, Inside, Rets, Invalid

LEMMA InvKept ==
  ASSUME IInv, [Next]_vars
  PROVE  IInv'
<1> USE DbAssumption
    DEF IInv, Types, LockInv, CallInv, OwnerInv, Stale, At, NoCall, Calls, Places, Inside, Rets,
        Invalid, Go, Finish, Free, FreeCells
<1>1. ASSUME NEW t \in Threads, NEW op \in {"Get", "Set", "Del"}, NEW k \in Keys \cup {NULL},
             NEW v \in Values \cup {NULL}, Call(t, op, k, v)
      PROVE  IInv'
  <2>1. Types'
    <3>1. PICK c \in IF v = NULL THEN {NULL} ELSE FreeCells :
            /\ call' = [call EXCEPT ![t] = [NoCall EXCEPT !.pc = "enter", !.op = op, !.key = k,
                                                         !.val = v, !.valSmart = c]]
            /\ heap' = IF v = NULL THEN heap ELSE [heap EXCEPT ![c] = v]
      BY <1>1 DEF Call
    <3>2. call' \in [Threads -> Calls]
      BY <3>1
    <3>3. heap' \in [Cells -> Values \cup {NULL}]
      BY <3>1
    <3> QED
      BY <1>1, <3>2, <3>3 DEF Call
  <2>2. LockInv'
    BY <1>1 DEF Call
  <2>3. CallInv'
    BY <1>1 DEF Call
  <2>4. OwnerInv'
    BY <1>1 DEF Call
  <2> QED
    BY <2>1, <2>2, <2>3, <2>4
<1>2. ASSUME NEW t \in Threads, ParamInvalid(t)
      PROVE  IInv'
  BY <1>2 DEF ParamInvalid
<1>3. ASSUME NEW t \in Threads, Enter(t)
      PROVE  IInv'
  BY <1>3 DEF Enter
<1>4. ASSUME NEW t \in Threads, Find(t)
      PROVE  IInv'
  <2>1. Types'
    BY <1>4 DEF Find, Found
  <2>2. LockInv'
    BY <1>4 DEF Find, Found
  <2>3. CallInv'
    BY <1>4 DEF Find, Found
  <2>4. OwnerInv'
    BY <1>4 DEF Find, Found
  <2> QED
    BY <2>1, <2>2, <2>3, <2>4
<1>5. ASSUME NEW t \in Threads, FindEnd(t)
      PROVE  IInv'
  <2>1. Types'
    BY <1>5 DEF FindEnd
  <2>2. LockInv'
    BY <1>5 DEF FindEnd
  <2>3. CallInv'
    BY <1>5 DEF FindEnd
  <2>4. OwnerInv'
    <3>1. \A k \in Keys : Stale(k)' <=> Stale(k)
      BY <1>5 DEF FindEnd
    <3>2. \A u \in Threads : call'[u].valSmart = call[u].valSmart
      BY <1>5 DEF FindEnd
    <3> HIDE DEF Stale
    <3> QED
      BY <1>5, <3>1, <3>2 DEF FindEnd
  <2> QED
    BY <2>1, <2>2, <2>3, <2>4
<1>6. ASSUME NEW t \in Threads, Copy(t)
      PROVE  IInv'
  BY <1>6 DEF Copy
<1>7. ASSUME NEW t \in Threads, Delete(t)
      PROVE  IInv'
  BY <1>7 DEF Delete
<1>8. ASSUME NEW t \in Threads, Erase(t)
      PROVE  IInv'
  <2>1. Types'
    BY <1>8 DEF Erase
  <2>2. LockInv'
    BY <1>8 DEF Erase
  <2>3. CallInv'
    BY <1>8 DEF Erase
  <2>4. OwnerInv'
    <3>1. \A k \in Keys : ~Stale(k)' /\ (Stale(k) <=> k = call[t].key)
      BY <1>8 DEF Erase
    <3>2. \A u \in Threads : call'[u].valSmart = call[u].valSmart
      BY <1>8 DEF Erase
    <3>3. \A k \in Keys : m_map'[k] = IF k = call[t].key THEN NULL ELSE m_map[k]
      BY <1>8 DEF Erase
    <3>4. heap' = heap /\ OwnerInv
      BY <1>8 DEF Erase
    <3> HIDE DEF Stale
    <3> QED
      BY <3>1, <3>2, <3>3, <3>4
  <2> QED
    BY <2>1, <2>2, <2>3, <2>4
<1>9. ASSUME NEW t \in Threads, Insert(t)
      PROVE  IInv'
  BY <1>9 DEF Insert
<1>10. ASSUME NEW t \in Threads, Leave(t)
       PROVE  IInv'
  BY <1>10 DEF Leave
<1>11. ASSUME NEW t \in Threads, Return(t)
       PROVE  IInv'
  BY <1>11 DEF Return
<1>12. CASE Destroy
  BY <1>12 DEF Destroy
<1>13. CASE UNCHANGED vars
  BY <1>13 DEF vars
<1> HIDE DEF IInv
<1> QED
  BY <1>1, <1>2, <1>3, <1>4, <1>5, <1>6, <1>7, <1>8, <1>9, <1>10, <1>11, <1>12, <1>13 DEF Next, Step

(* Whatever the other threads delete, a Data that a call reads or deletes   *)
(* is there, and so is, when nobody is inside, all that the map refers to   *)
(* (db.h:36-41, 52, 66).                                                    *)
THEOREM UsesWhatIsThere == Spec => []NoUseAfterDelete
<1>1. IInv => NoUseAfterDelete
  <2> SUFFICES ASSUME IInv
               PROVE  NoUseAfterDelete
    OBVIOUS
  <2>1. ASSUME NEW t \in Threads, call[t].pc \in {"copy", "delete"}
        PROVE  heap[call[t].iter] # NULL
    <3>1. call[t].key \in Keys /\ ~Stale(call[t].key)
      BY <2>1 DEF IInv, Types, Calls, LockInv, CallInv, Inside, Invalid, Stale, At
    <3> QED
      BY <2>1, <3>1 DEF IInv, CallInv, OwnerInv
  <2>2. m_mtx_ = NoThread => \A k \in Keys : ~Stale(k)
    BY DbAssumption DEF IInv, LockInv, Inside, Stale, At
  <2> QED
    BY <2>1, <2>2 DEF IInv, OwnerInv, NoUseAfterDelete
<1> QED
  BY <1>1, InitInv, InvKept, PTL DEF Spec

(* Every Data is owned by one key or one call, so that it is deleted once   *)
(* and not forgotten (db.h:22, 40, 52-55).                                  *)
THEOREM EachDataHasOneOwner == Spec => []OneOwner
<1>1. IInv => OneOwner
  <2> SUFFICES ASSUME IInv, NEW c \in Cells, heap[c] # NULL
               PROVE  Cardinality(Owners(c)) = 1
    BY DEF OneOwner
  <2> c # NULL
    BY DbAssumption
  <2>1. \E x : Owners(c) = {x}
    <3>1. CASE \E k \in Keys : m_map[k] = c /\ ~Stale(k)
      <4>1. PICK k \in Keys : m_map[k] = c /\ ~Stale(k)
        BY <3>1
      <4>2. {j \in Keys : m_map[j] = c /\ ~Stale(j)} = {k}
        BY <4>1 DEF IInv, OwnerInv
      <4>3. {t \in Threads : call[t].valSmart = c} = {}
        BY <4>1 DEF IInv, OwnerInv
      <4> QED
        BY <4>2, <4>3 DEF Owners
    <3>2. CASE ~\E k \in Keys : m_map[k] = c /\ ~Stale(k)
      <4>1. PICK t \in Threads : call[t].valSmart = c
        BY <3>2 DEF IInv, OwnerInv
      <4>2. {u \in Threads : call[u].valSmart = c} = {t}
        BY <4>1 DEF IInv, OwnerInv
      <4> QED
        BY <3>2, <4>2 DEF Owners
    <3> QED
      BY <3>1, <3>2
  <2> QED
    BY <2>1, FS_Singleton
<1> QED
  BY <1>1, InitInv, InvKept, PTL DEF Spec

(* No call returns with the lock, whatever it has found (db.h:32-42, 48-56, *)
(* 62-68).                                                                  *)
THEOREM ReturnsWithoutLock == Spec => []LockIsReleased
<1>1. IInv => LockIsReleased
  BY DEF IInv, LockInv, Inside, LockIsReleased
<1> QED
  BY <1>1, InitInv, InvKept, PTL DEF Spec

--------------------------------------------------------------------------------
(* The value a key has for the callers: that of the call that is changing   *)
(* it, or that of the Data in the map.                                      *)
Writes(t, k) == call[t].pc \in {"erase", "insert"} /\ call[t].key = k
Stored ==
  \A k \in Keys :
    /\ \A t \in Threads : Writes(t, k) => ValueOf(k) = call[t].val
    /\ (\A t \in Threads : ~Writes(t, k)) =>
         ValueOf(k) = IF m_map[k] = NULL THEN NULL ELSE heap[m_map[k]]

LEMMA StoredValue == IInv => Stored
<1> SUFFICES ASSUME IInv, NEW k \in Keys
             PROVE  /\ \A t \in Threads : Writes(t, k) => ValueOf(k) = call[t].val
                    /\ (\A t \in Threads : ~Writes(t, k)) =>
                         ValueOf(k) = IF m_map[k] = NULL THEN NULL ELSE heap[m_map[k]]
  BY DEF Stored
<1> DEFINE writers == {t \in Threads : Writes(t, k)}
<1>1. ASSUME NEW t \in Threads, Writes(t, k)
      PROVE  ValueOf(k) = call[t].val
  <2>1. writers = {t}
    BY <1>1 DEF IInv, LockInv, Inside, Writes
  <2>2. call[t].val \in Values \cup {NULL}
    BY DEF IInv, Types, Calls
  <2>3. ValueOf(k) = CHOOSE v \in Values \cup {NULL} : \E u \in writers : v = call[u].val
    BY <2>1 DEF ValueOf, Writes
  <2> QED
    BY <2>1, <2>2, <2>3
<1>2. (\A t \in Threads : ~Writes(t, k)) =>
        ValueOf(k) = IF m_map[k] = NULL THEN NULL ELSE heap[m_map[k]]
  BY DEF ValueOf, Writes
<1> QED
  BY <1>1, <1>2

LEMMA StoredValues == IInv /\ IInv' => Stored /\ Stored'
  BY StoredValue, PTL

(* What a caller sees of a call changes only by a step of its own, or when  *)
(* its Data does.                                                           *)
LEMMA ShownKept ==
  ASSUME NEW t \in Threads, call'[t] = call[t],
         call[t].valSmart # NULL => heap'[call[t].valSmart] = heap[call[t].valSmart]
  PROVE  Shown(t)' = Shown(t)
  BY DEF Shown, Linearized, At, Request

(* A call that takes effect. *)
LEMMA Answers ==
  ASSUME NEW t \in Threads, NEW r, r.op # "none", Shown(t) = Store!Asked(r), Store!Answer(t, r)
  PROVE  Store!Do(t)
<1>1. Store!Asked(r) # Store!Idle /\ Store!Asked(r).ret = "none" /\ Store!Asked(r).request = r
  BY DEF Store!Asked, Store!Idle
<1> HIDE DEF Store!Asked, Store!Idle, Store!Answer
<1> QED
  BY <1>1 DEF Store!Do

LEMMA AnswerShown ==
  ASSUME NEW t \in Threads, NEW d, Shown(t)' = d, \A u \in Threads \ {t} : Shown(u)' = Shown(u)
  PROVE  [u \in Threads |-> Shown(u)]' = [[u \in Threads |-> Shown(u)] EXCEPT ![t] = d]
  OBVIOUS

LEMMA StepShows ==
  ASSUME IInv, IInv', [Next]_vars
  PROVE  [Store!Next]_(Store!vars)
<1> DEFINE map == [k \in Keys |-> ValueOf(k)]
           calls == [t \in Threads |-> Shown(t)]
<1>1. Stored /\ Stored'
  BY StoredValues
<1> USE DbAssumption
(* A step that no caller sees. *)
<1>2. ASSUME \A k \in Keys : ValueOf(k)' = ValueOf(k), \A t \in Threads : Shown(t)' = Shown(t)
      PROVE  UNCHANGED Store!vars
  BY <1>2 DEF Store!vars
<1>3. ASSUME NEW t \in Threads, NEW op \in {"Get", "Set", "Del"}, NEW k \in Keys \cup {NULL},
             NEW v \in Values \cup {NULL}, Call(t, op, k, v)
      PROVE  Store!Next
  <2>1. PICK c \in IF v = NULL THEN {NULL} ELSE FreeCells :
          /\ call' = [call EXCEPT ![t] = [NoCall EXCEPT !.pc = "enter", !.op = op, !.key = k,
                                                       !.val = v, !.valSmart = c]]
          /\ heap' = IF v = NULL THEN heap ELSE [heap EXCEPT ![c] = v]
    BY <1>3 DEF Call
  <2> DEFINE request == [op |-> op, key |-> k, val |-> v]
  <2>2. request \in Store!Requests
    BY <1>3 DEF Call, Store!Requests
  <2>3. Shown(t) = Store!Idle /\ Shown(t)' = Store!Asked(request)
    BY <1>3, <2>1 DEF Call, Shown, At, Linearized, Request, NoCall, IInv, Types, Store!Idle, Store!Asked
  <2>4. ASSUME NEW u \in Threads \ {t}
        PROVE  Shown(u)' = Shown(u)
    BY <2>1, ShownKept DEF IInv, Types, OwnerInv, Calls, FreeCells
  <2>5. \A j \in Keys : ValueOf(j)' = ValueOf(j)
    BY <1>1, <1>3, <2>1 DEF Call, Stored, Writes, IInv, Types, OwnerInv, Stale, At, NoCall, Calls, FreeCells
  <2>6. Store!Call(t, request)
    BY <2>3, <2>4, <2>5 DEF Store!Call
  <2> QED
    BY <2>2, <2>6 DEF Store!Next
<1>4. ASSUME NEW t \in Threads, ParamInvalid(t)
      PROVE  Store!Next
  <2>1. /\ ~Store!Valid(Request(t))
        /\ Shown(t) = Store!Asked(Request(t))
        /\ Shown(t)' = Store!Done(Request(t), "PARAINVALID_ERRORCODE", NULL)
    BY <1>4 DEF ParamInvalid, Invalid, Finish, IInv, Types, Calls, CallInv, Shown, Request, At, Linearized,
         Store!Valid, Store!Asked, Store!Done
  <2>2. ASSUME NEW u \in Threads \ {t}
        PROVE  Shown(u)' = Shown(u)
    BY <1>4, ShownKept DEF ParamInvalid, Finish, IInv, Types
  <2>3. \A k \in Keys : ValueOf(k)' = ValueOf(k)
    BY <1>1, <1>4 DEF ParamInvalid, Finish, Stored, Writes, At, IInv, Types
  <2>4. calls' = [calls EXCEPT ![t] = Store!Done(Request(t), "PARAINVALID_ERRORCODE", NULL)]
    BY <2>1, <2>2, AnswerShown
  <2>5. Store!Answer(t, Request(t))
    BY <2>1, <2>3, <2>4 DEF Store!Answer
  <2>6. Store!Do(t)
    BY <1>4, <2>1, <2>5, Answers DEF ParamInvalid, At, Request, IInv, CallInv
  <2> QED
    BY <2>6 DEF Store!Next
<1>5. ASSUME NEW t \in Threads, Enter(t) \/ Find(t) \/ Leave(t)
      PROVE  UNCHANGED Store!vars
  <2>1. Shown(t)' = Shown(t)
    BY <1>5 DEF Enter, Find, Found, Leave, Go, IInv, Types, Calls, CallInv, LockInv, Inside, Shown,
         Request, At, Linearized
  <2>2. ASSUME NEW u \in Threads \ {t}
        PROVE  Shown(u)' = Shown(u)
    BY <1>5, ShownKept DEF Enter, Find, Leave, Go, IInv, Types
  <2>3. ASSUME NEW k \in Keys
        PROVE  ValueOf(k)' = ValueOf(k)
    <3>1. \A u \in Threads : (Writes(u, k)' <=> Writes(u, k)) /\ call'[u].val = call[u].val
      BY <1>5 DEF Enter, Find, Found, Leave, Go, Writes, At, IInv, Types, Calls
    <3>2. m_map' = m_map /\ heap' = heap
      BY <1>5 DEF Enter, Find, Leave
    <3> QED
      BY <1>1, <3>1, <3>2 DEF Stored
  <2> QED
    BY <1>2, <2>1, <2>2, <2>3
<1>6. ASSUME NEW t \in Threads, FindEnd(t)
      PROVE  Store!Next
  <2>1. call[t].key \in Keys /\ (call[t].op = "Set" => call[t].val # NULL)
    BY <1>6 DEF FindEnd, At, Inside, Invalid, IInv, Types, Calls, CallInv
  <2>2. /\ Store!Valid(Request(t))
        /\ Shown(t) = Store!Asked(Request(t))
    BY <1>6, <2>1 DEF FindEnd, IInv, CallInv, Shown, Request, At, Linearized, Store!Valid, Store!Asked
  <2>3. Shown(t)' = Store!Done(Request(t), IF call[t].op = "Set" THEN "SUCCESS" ELSE "FAIL", NULL)
    BY <1>6 DEF FindEnd, Finish, Go, IInv, Types, Calls, CallInv, Inside, Shown, Request, At, Linearized,
         Store!Done
  <2>4. ASSUME NEW u \in Threads \ {t}
        PROVE  Shown(u)' = Shown(u)
    BY <1>6, ShownKept DEF FindEnd, Finish, Go, IInv, Types
  <2>5. \A u \in Threads, k \in Keys : ~Writes(u, k)
    BY <1>6 DEF FindEnd, Writes, At, IInv, LockInv, Inside
  <2>6. ValueOf(call[t].key) = NULL
    BY <1>1, <1>6, <2>1, <2>5 DEF FindEnd, Stored
  <2>7. ASSUME NEW k \in Keys
        PROVE  ValueOf(k)' = IF call[t].op = "Set" /\ k = call[t].key THEN call[t].val ELSE ValueOf(k)
    <3>1. \A u \in Threads : Writes(u, k)' <=> u = t /\ call[t].op = "Set" /\ k = call[t].key
      BY <1>6, <2>5 DEF FindEnd, Finish, Go, At, Writes, IInv, Types, Calls
    <3>2. m_map' = m_map /\ heap' = heap /\ call'[t].val = call[t].val
      BY <1>6 DEF FindEnd, Finish, Go, IInv, Types, Calls
    <3> QED
      BY <1>1, <2>5, <3>1, <3>2 DEF Stored
  <2>8. calls' = [calls EXCEPT ![t] = Store!Done(Request(t), IF call[t].op = "Set" THEN "SUCCESS"
                                                              ELSE "FAIL", NULL)]
    BY <2>3, <2>4, AnswerShown
  <2>9. Store!Answer(t, Request(t))
    <3>1. CASE call[t].op = "Set"
      BY <3>1, <2>1, <2>2, <2>7, <2>8 DEF Store!Answer, Request
    <3>2. CASE call[t].op # "Set"
      BY <3>2, <2>1, <2>2, <2>6, <2>7, <2>8 DEF Store!Answer, Request
    <3> QED
      BY <3>1, <3>2
  <2>10. Store!Do(t)
    BY <1>6, <2>2, <2>9, Answers DEF FindEnd, At, Request, IInv, CallInv
  <2> QED
    BY <2>10 DEF Store!Next
<1>7. ASSUME NEW t \in Threads, Copy(t)
      PROVE  Store!Next
  <2>1. PICK c \in FreeCells :
          /\ heap' = [heap EXCEPT ![c] = heap[call[t].iter]]
          /\ call' = [call EXCEPT ![t].pc = "leave", ![t].ret = "SUCCESS", ![t].valSmart = c]
    BY <1>7 DEF Copy
  <2>2. /\ call[t].key \in Keys /\ call[t].op = "Get" /\ ~Stale(call[t].key)
        /\ call[t].iter = m_map[call[t].key] /\ call[t].iter # NULL
    BY <1>7 DEF Copy, At, Inside, Invalid, Stale, IInv, Types, Calls, CallInv, LockInv
  <2>3. call[t].iter \in Cells /\ heap[call[t].iter] # NULL /\ c # NULL
    BY <2>2 DEF IInv, OwnerInv, Types, FreeCells
  <2>4. /\ Store!Valid(Request(t))
        /\ Shown(t) = Store!Asked(Request(t))
        /\ Shown(t)' = Store!Done(Request(t), "SUCCESS", heap[call[t].iter])
    BY <1>7, <2>1, <2>2, <2>3 DEF Copy, FreeCells, IInv, Types, Calls, CallInv, Shown, Request, At,
         Linearized, Store!Valid, Store!Asked, Store!Done
  <2>5. ASSUME NEW u \in Threads \ {t}
        PROVE  Shown(u)' = Shown(u)
    BY <2>1, ShownKept DEF IInv, Types, OwnerInv, Calls, FreeCells
  <2>6. \A u \in Threads, k \in Keys : ~Writes(u, k) /\ ~Writes(u, k)'
    BY <1>7, <2>1 DEF Copy, Writes, At, IInv, Types, LockInv, Inside
  <2>7. ASSUME NEW k \in Keys
        PROVE  /\ ValueOf(k)' = ValueOf(k)
               /\ ValueOf(k) = IF m_map[k] = NULL THEN NULL ELSE heap[m_map[k]]
    <3>1. ~Stale(k)
      BY <1>7 DEF Copy, Stale, At, IInv, LockInv, Inside
    <3> QED
      BY <1>1, <1>7, <2>1, <2>6, <3>1 DEF Copy, Stored, IInv, Types, OwnerInv, FreeCells
  <2>8. calls' = [calls EXCEPT ![t] = Store!Done(Request(t), "SUCCESS", heap[call[t].iter])]
    BY <2>4, <2>5, AnswerShown
  <2>9. Store!Answer(t, Request(t))
    BY <2>2, <2>3, <2>4, <2>7, <2>8 DEF Store!Answer, Request
  <2>10. Store!Do(t)
    BY <2>2, <2>4, <2>9, Answers DEF Request
  <2> QED
    BY <2>10 DEF Store!Next
<1>8. ASSUME NEW t \in Threads, Delete(t)
      PROVE  Store!Next
  <2>1. /\ call[t].key \in Keys /\ call[t].op \in {"Set", "Del"} /\ ~Stale(call[t].key)
        /\ call[t].iter = m_map[call[t].key] /\ call[t].iter # NULL
        /\ call[t].op = "Set" => call[t].val # NULL
        /\ call[t].op = "Del" => call[t].val = NULL
    BY <1>8 DEF Delete, At, Inside, Invalid, Stale, IInv, Types, Calls, CallInv, LockInv
  <2>2. heap[call[t].iter] # NULL
    BY <2>1 DEF IInv, OwnerInv, Types
  <2>3. /\ Store!Valid(Request(t))
        /\ Shown(t) = Store!Asked(Request(t))
        /\ Shown(t)' = Store!Done(Request(t), "SUCCESS", NULL)
    BY <1>8, <2>1 DEF Delete, Go, IInv, Types, Calls, CallInv, Shown, Request, At, Linearized, Store!Valid,
         Store!Asked, Store!Done
  <2>4. ASSUME NEW u \in Threads \ {t}
        PROVE  Shown(u)' = Shown(u)
    BY <1>8, <2>1, ShownKept DEF Delete, Free, Go, IInv, Types, Calls, OwnerInv
  <2>5. \A u \in Threads, k \in Keys :
          ~Writes(u, k) /\ (Writes(u, k)' <=> u = t /\ k = call[t].key)
    BY <1>8 DEF Delete, Go, Writes, At, IInv, Types, Calls, LockInv, Inside
  <2>6. ASSUME NEW k \in Keys
        PROVE  /\ ValueOf(k) = IF m_map[k] = NULL THEN NULL ELSE heap[m_map[k]]
               /\ ValueOf(k)' = IF k = call[t].key THEN call[t].val ELSE ValueOf(k)
    <3>1. ~Stale(k)
      BY <1>8 DEF Delete, Stale, At, IInv, LockInv, Inside
    <3>2. k # call[t].key => m_map[k] # call[t].iter \/ m_map[k] = NULL
      BY <2>1, <3>1 DEF IInv, OwnerInv
    <3>3. /\ m_map' = m_map /\ heap' = [heap EXCEPT ![call[t].iter] = NULL]
          /\ call'[t].val = call[t].val
      BY <1>8 DEF Delete, Free, Go, IInv, Types, Calls
    <3>4. ValueOf(k) = IF m_map[k] = NULL THEN NULL ELSE heap[m_map[k]]
      BY <1>1, <2>5 DEF Stored
    <3>5. CASE k = call[t].key
      BY <1>1, <2>5, <3>3, <3>4, <3>5 DEF Stored
    <3>6. CASE k # call[t].key
      <4>1. ValueOf(k)' = IF m_map'[k] = NULL THEN NULL ELSE heap'[m_map'[k]]
        BY <1>1, <2>5, <3>6 DEF Stored
      <4> QED
        BY <3>2, <3>3, <3>4, <3>6, <4>1 DEF IInv, Types
    <3> QED
      BY <3>5, <3>6, <3>4
  <2>7. calls' = [calls EXCEPT ![t] = Store!Done(Request(t), "SUCCESS", NULL)]
    BY <2>3, <2>4, AnswerShown
  <2>8. Store!Answer(t, Request(t))
    BY <2>1, <2>2, <2>3, <2>6, <2>7 DEF Store!Answer, Request
  <2>9. Store!Do(t)
    BY <2>1, <2>3, <2>8, Answers DEF Request
  <2> QED
    BY <2>9 DEF Store!Next
<1>9. ASSUME NEW t \in Threads, Erase(t)
      PROVE  UNCHANGED Store!vars
  <2>1. /\ call[t].key \in Keys /\ call[t].op \in {"Set", "Del"}
        /\ call[t].op = "Del" => call[t].val = NULL
    BY <1>9 DEF Erase, At, Inside, Invalid, IInv, Types, Calls, CallInv
  <2>2. Shown(t)' = Shown(t)
    BY <1>9 DEF Erase, Go, Finish, IInv, Types, Calls, CallInv, Shown, Request, At, Linearized
  <2>3. ASSUME NEW u \in Threads \ {t}
        PROVE  Shown(u)' = Shown(u)
    BY <1>9, ShownKept DEF Erase, Go, Finish, IInv, Types
  <2>4. ASSUME NEW k \in Keys
        PROVE  ValueOf(k)' = ValueOf(k)
    <3>1. \A u \in Threads :
            /\ Writes(u, k) <=> u = t /\ k = call[t].key
            /\ Writes(u, k)' <=> u = t /\ k = call[t].key /\ call[t].op = "Set"
      BY <1>9 DEF Erase, Go, Finish, Writes, At, IInv, Types, Calls, LockInv, Inside
    <3>2. /\ m_map'[k] = IF k = call[t].key THEN NULL ELSE m_map[k]
          /\ heap' = heap /\ call'[t].val = call[t].val
      BY <1>9 DEF Erase, Go, Finish, IInv, Types, Calls
    <3> QED
      BY <1>1, <2>1, <3>1, <3>2 DEF Stored
  <2> QED
    BY <1>2, <2>2, <2>3, <2>4
<1>10. ASSUME NEW t \in Threads, Insert(t)
       PROVE  UNCHANGED Store!vars
  <2>1. /\ call[t].key \in Keys /\ call[t].op = "Set" /\ call[t].valSmart # NULL
        /\ heap[call[t].valSmart] = call[t].val
    BY <1>10 DEF Insert, At, Inside, Invalid, IInv, Types, Calls, CallInv
  <2>2. Shown(t)' = Shown(t)
    BY <1>10, <2>1 DEF Insert, IInv, Types, Calls, CallInv, Shown, Request, At, Linearized
  <2>3. ASSUME NEW u \in Threads \ {t}
        PROVE  Shown(u)' = Shown(u)
    BY <1>10, ShownKept DEF Insert, IInv, Types
  <2>4. ASSUME NEW k \in Keys
        PROVE  ValueOf(k)' = ValueOf(k)
    <3>1. \A u \in Threads : ~Writes(u, k)' /\ (Writes(u, k) <=> u = t /\ k = call[t].key)
      BY <1>10 DEF Insert, Writes, At, IInv, Types, Calls, LockInv, Inside
    <3>2. /\ m_map'[k] = IF k = call[t].key THEN call[t].valSmart ELSE m_map[k]
          /\ heap' = heap
      BY <1>10 DEF Insert, IInv, Types
    <3> QED
      BY <1>1, <2>1, <3>1, <3>2 DEF Stored
  <2> QED
    BY <1>2, <2>2, <2>3, <2>4
<1>11. ASSUME NEW t \in Threads, Return(t)
       PROVE  Store!Next
  <2>1. Shown(t) # Store!Idle /\ Shown(t).ret # "none" /\ Shown(t)' = Store!Idle
    BY <1>11 DEF Return, IInv, Types, Calls, CallInv, Shown, At, Linearized, NoCall, Store!Idle
  <2>2. /\ call' = [call EXCEPT ![t] = NoCall] /\ m_map' = m_map
        /\ heap' = IF call[t].valSmart = NULL THEN heap
                    ELSE [heap EXCEPT ![call[t].valSmart] = NULL]
    BY <1>11 DEF Return, Free
  <2>3. ASSUME NEW u \in Threads \ {t}
        PROVE  Shown(u)' = Shown(u)
    BY <2>2, ShownKept DEF IInv, Types, Calls, OwnerInv
  <2>4. ASSUME NEW k \in Keys
        PROVE  ValueOf(k)' = ValueOf(k)
    <3>1. \A u \in Threads : (Writes(u, k)' <=> Writes(u, k)) /\ (Writes(u, k) => call'[u] = call[u])
      BY <1>11, <2>2 DEF Return, Writes, At, NoCall, IInv, Types, Calls
    <3>2. Stale(k) => \E u \in Threads : Writes(u, k)
      BY DEF Stale, At, Writes
    <3>3. ~Stale(k) /\ m_map[k] # NULL => heap'[m_map[k]] = heap[m_map[k]]
      BY <2>2 DEF IInv, Types, Calls, OwnerInv
    <3> QED
      BY <1>1, <2>2, <3>1, <3>2, <3>3 DEF Stored
  <2>5. calls' = [calls EXCEPT ![t] = Store!Idle]
    BY <2>1, <2>3, AnswerShown
  <2>6. Store!Return(t)
    BY <2>1, <2>4, <2>5 DEF Store!Return
  <2> QED
    BY <2>6 DEF Store!Next
<1>12. CASE Destroy
  <2>1. \A t \in Threads : Shown(t) = Store!Idle /\ Shown(t)' = Store!Idle
    BY <1>12 DEF Destroy, Shown, At, Store!Idle
  <2>2. \A k \in Keys : ValueOf(k)' = NULL
    BY <1>1, <1>12 DEF Destroy, Stored, Writes, At
  <2> QED
    BY <2>1, <2>2 DEF Store!Next, Store!Delete
<1>13. CASE UNCHANGED vars
  <2>1. \A t \in Threads : Shown(t)' = Shown(t)
    BY <1>13 DEF vars, Shown, Linearized, At, Request
  <2>2. \A k \in Keys : ValueOf(k)' = ValueOf(k)
    BY <1>13 DEF vars, ValueOf
  <2> QED
    BY <1>2, <2>1, <2>2
<1> QED
  BY <1>3, <1>4, <1>5, <1>6, <1>7, <1>8, <1>9, <1>10, <1>11, <1>12, <1>13 DEF Next, Step

(* Callers see a store in which each call takes effect at one moment: a Get *)
(* never misses a key that is being set again, nor gets half of it          *)
(* (db.h:27-69).                                                            *)
THEOREM IsKeyValueStore == Spec => ImplementsStore
<1>1. Init => Store!Init
  BY DEF Init, Store!Init, Store!Idle, ValueOf, Shown, At, NoCall
<1> QED
  BY <1>1, InitInv, InvKept, StepShows, PTL DEF Spec, ImplementsStore, Store!Spec
================================================================================
