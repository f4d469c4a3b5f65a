----------------------------- MODULE IdManager_proofs -----------------------------
(***************************************************************************)
(* Proofs about IdManager for every MAX_VALID and every set of threads.     *)
(*                                                                          *)
(* One step preserves the types and the conservation of ids as long as no   *)
(* thread increments a counter that is used up (IdsStep).  That proviso is  *)
(* then discharged by counting, for any number of threads that keep to      *)
(* Fits, which asks nothing of callers of which only one is inside at a     *)
(* time, as in the server.                                                  *)
(***************************************************************************)
EXTENDS IdManager, QueueLemmas, FiniteSetTheorems

(* The state between two calls satisfies all of it. *)
LEMMA IdsInit ==
  ASSUME Init
  PROVE  TypeOK /\ IdsConserved /\ IncrementSafe
<1> USE ConstantsAssumption DEF Init
<1>1. TypeOK
  BY EmptySeq DEF TypeOK, ValidIds
<1>2. IdsConserved
  BY DEF IdsConserved, IsInjective, Range
<1>3. IncrementSafe
  BY DEF IncrementSafe
<1> QED
  BY <1>1, <1>2, <1>3

(* No step issues an id twice or loses one, if no increment overflows. *)
LEMMA IdsStep ==
  ASSUME TypeOK, IdsConserved, IncrementSafe, [Next]_vars
  PROVE  TypeOK' /\ IdsConserved'
<1> USE ConstantsAssumption
<1>1. ASSUME NEW g \in Getters, Call(g) \/ PopEmpty(g) \/ ReturnInvalid(g) \/ CheckTop(g)
      PROVE  TypeOK' /\ IdsConserved'
  BY <1>1 DEF TypeOK, IdsConserved, Call, PopEmpty, ReturnInvalid, CheckTop
<1>2. ASSUME NEW g \in Getters, PopReturns(g)
      PROVE  TypeOK' /\ IdsConserved'
  <2>1. /\ Head(m_freeIdQueue) \in ValidIds
        /\ Head(m_freeIdQueue) \in Range(m_freeIdQueue)
        /\ Tail(m_freeIdQueue) \in Seq(ValidIds)
        /\ IsInjective(Tail(m_freeIdQueue))
        /\ Range(Tail(m_freeIdQueue)) = Range(m_freeIdQueue) \ {Head(m_freeIdQueue)}
    BY <1>2, PopDistinct DEF TypeOK, IdsConserved, PopReturns
  <2>2. TypeOK'
    BY <1>2, <2>1 DEF TypeOK, PopReturns
  <2>3. IdsConserved'
    BY <1>2, <2>1 DEF IdsConserved, PopReturns
  <2> QED
    BY <2>2, <2>3
<1>3. ASSUME NEW g \in Getters, Increment(g)
      PROVE  TypeOK' /\ IdsConserved'
  <2>1. /\ m_topFreeId \in 0 .. MaxValid
        /\ m_topFreeId < MaxValid
        /\ Incremented(m_topFreeId) = m_topFreeId + 1
    BY <1>3 DEF TypeOK, IncrementSafe, Increment, Incremented
  <2>2. TypeOK'
    BY <1>3, <2>1 DEF TypeOK, Increment, ValidIds
  <2>3. m_topFreeId + 1 \notin 1 .. m_topFreeId
    BY <2>1
  <2>4. 1 .. (m_topFreeId + 1) = (1 .. m_topFreeId) \cup {m_topFreeId + 1}
    BY <2>1
  <2>5. IdsConserved'
    BY <1>3, <2>1, <2>3, <2>4 DEF IdsConserved, Increment
  <2> QED
    BY <2>2, <2>5
<1>4. ASSUME NEW id \in out, FreeFreeId(id)
      PROVE  TypeOK' /\ IdsConserved'
  <2>1. /\ id \in ValidIds
        /\ id \notin Range(m_freeIdQueue)
    BY <1>4 DEF TypeOK, IdsConserved
  <2>2. /\ Append(m_freeIdQueue, id) \in Seq(ValidIds)
        /\ IsInjective(Append(m_freeIdQueue, id))
        /\ Range(Append(m_freeIdQueue, id)) = Range(m_freeIdQueue) \cup {id}
    BY <2>1, PushDistinct DEF TypeOK, IdsConserved
  <2>3. TypeOK'
    BY <1>4, <2>2 DEF TypeOK, FreeFreeId
  <2>4. IdsConserved'
    BY <1>4, <2>2 DEF IdsConserved, FreeFreeId
  <2> QED
    BY <2>3, <2>4
<1>5. CASE UNCHANGED vars
  BY <1>5 DEF TypeOK, IdsConserved, vars
<1> QED
  BY <1>1, <1>2, <1>3, <1>4, <1>5 DEF Next, GetFreeId

--------------------------------------------------------------------------------
(***************************************************************************)
(* A thread that found the queue empty may increment much later, when the   *)
(* counter has moved on and ids were given back.  Counting those threads    *)
(* bounds how far the counter can go.                                       *)
(***************************************************************************)
Committed == {g \in Getters : pc[g] \in {"top", "increment"}}

(* Several threads inside have an id left for each. *)
Room == Cardinality(Inside) >= 2 => Cardinality(out) + Cardinality(Inside) <= MaxValid

(* So have those past Pop; or there is one, which will be refused. *)
Reach ==
  \/ m_topFreeId + Cardinality(Committed) <= MaxValid
  \/ /\ m_topFreeId = MaxValid /\ Cardinality(Committed) = 1
     /\ \A g \in Getters : pc[g] # "increment"

Counting == IsFiniteSet(Inside) /\ Room /\ Reach

(* The sets that are counted are finite. *)
LEMMA CountsAreFinite ==
  ASSUME IsFiniteSet(Inside), TypeOK
  PROVE  /\ IsFiniteSet(out) /\ Cardinality(out) \in Nat
         /\ Cardinality(Inside) \in Nat
         /\ IsFiniteSet(Committed) /\ Cardinality(Committed) \in Nat
         /\ Cardinality(Committed) <= Cardinality(Inside)
         /\ m_topFreeId \in Nat /\ MaxValid \in Nat
<1>1. IsFiniteSet(ValidIds)
  BY ConstantsAssumption, FS_Interval DEF ValidIds
<1>2. IsFiniteSet(out) /\ Cardinality(out) \in Nat
  BY <1>1, FS_Subset, FS_CardinalityType DEF TypeOK
<1>3. Committed \subseteq Inside
  BY DEF Committed, Inside
<1>4. /\ IsFiniteSet(Committed) /\ Cardinality(Committed) <= Cardinality(Inside)
      /\ Cardinality(Committed) \in Nat /\ Cardinality(Inside) \in Nat
  BY <1>3, FS_Subset, FS_CardinalityType
<1> QED
  BY <1>2, <1>4, ConstantsAssumption DEF TypeOK

(* When Pop finds nothing, every id issued so far is held. *)
LEMMA EmptyQueueMeansAllHeld ==
  ASSUME TypeOK, IdsConserved, m_freeIdQueue = <<>>
  PROVE  out = 1 .. m_topFreeId /\ Cardinality(out) = m_topFreeId
<1>1. Range(m_freeIdQueue) = {}
  BY DEF Range
<1>2. out = 1 .. m_topFreeId
  BY <1>1 DEF IdsConserved
<1> QED
  BY <1>2, FS_Interval DEF TypeOK

(* Who is about to increment may go on; if others are past Pop as well,     *)
(* the counter does not come to its end by that.                            *)
LEMMA CountingSafe ==
  ASSUME TypeOK, Counting, NEW g \in Getters, pc[g] = "increment"
  PROVE  /\ m_topFreeId < MaxValid
         /\ \A h \in Getters \ {g} : h \in Committed => m_topFreeId + 1 < MaxValid
<1>1. /\ g \in Committed /\ IsFiniteSet(Committed)
      /\ Cardinality(Committed) \in Nat /\ m_topFreeId \in Nat /\ MaxValid \in Nat
  BY CountsAreFinite DEF Counting, Committed
<1>2. m_topFreeId + Cardinality(Committed) <= MaxValid
  BY DEF Counting, Reach
<1>3. Cardinality(Committed \ {g}) = Cardinality(Committed) - 1 /\ IsFiniteSet(Committed \ {g})
  BY <1>1, FS_RemoveElement
<1>4. Cardinality(Committed \ {g}) \in Nat
  BY <1>3, FS_CardinalityType
<1>5. ASSUME NEW h \in Getters \ {g}, h \in Committed
      PROVE  m_topFreeId + 1 < MaxValid
  <2>1. Cardinality(Committed \ {g}) # 0
    BY <1>3, <1>5, FS_EmptySet
  <2> QED
    BY <1>1, <1>2, <1>3, <1>4, <2>1
<1> QED
  BY <1>1, <1>2, <1>3, <1>4, <1>5

(* Each step of a thread, and of a holder, keeps the counts. *)
LEMMA CountingStep ==
  ASSUME Fits, TypeOK, TypeOK', IdsConserved, Counting, [Next]_vars
  PROVE  Counting'
<1> USE ConstantsAssumption
<1>0. /\ IsFiniteSet(out) /\ Cardinality(out) \in Nat
      /\ IsFiniteSet(Inside) /\ Cardinality(Inside) \in Nat
      /\ IsFiniteSet(Committed) /\ Cardinality(Committed) \in Nat
      /\ m_topFreeId \in Nat /\ MaxValid \in Nat
  BY CountsAreFinite DEF Counting
<1>1. ASSUME NEW g \in Getters, Call(g)
      PROVE  Counting'
  <2>1. /\ Inside' = Inside \cup {g} /\ g \notin Inside
        /\ Committed' = Committed /\ UNCHANGED <<m_topFreeId, out>>
        /\ \A h \in Getters : pc'[h] = "increment" => pc[h] = "increment"
    BY <1>1 DEF TypeOK, Call, Inside, Committed
  <2>2. IsFiniteSet(Inside') /\ Cardinality(Inside') = Cardinality(Inside) + 1
    BY <1>0, <2>1, FS_AddElement
  <2>3. Room'
    <3> DEFINE n == Cardinality(Inside) + 1
    <3>1. /\ n \in 1 .. Len(MaxHeld) /\ Len(MaxHeld) \in Nat /\ MaxHeld[n] \in Nat
          /\ Cardinality(out) < MaxHeld[n]
      BY <1>0, <1>1 DEF Call
    <3>2. n >= 2 => MaxHeld[n] + n - 1 <= MaxValid
      BY <3>1 DEF Fits
    <3>3. Cardinality(Inside)' = n /\ Cardinality(out)' = Cardinality(out)
      BY <2>1, <2>2
    <3>4. /\ n \in Nat /\ MaxHeld[n] \in Nat
          /\ Cardinality(out) \in Nat /\ MaxValid \in Nat
      BY <1>0, <3>1
    <3> HIDE DEF n
    <3>5. ASSUME n >= 2 PROVE Cardinality(out) + 1 <= MaxHeld[n] /\ MaxHeld[n] + n - 1 <= MaxValid
      BY <3>1, <3>2, <3>4, <3>5
    <3>6. n >= 2 => Cardinality(out) + n <= MaxValid
      <4> HAVE n >= 2
      <4> QED
        BY <3>4, <3>5
    <3> QED
      BY <3>3, <3>6 DEF Room
  <2>4. Reach'
    BY <2>1 DEF Counting, Reach
  <2> QED
    BY <2>2, <2>3, <2>4 DEF Counting
<1>2. ASSUME NEW g \in Getters, PopReturns(g)
      PROVE  Counting'
  <2>1. /\ g \in Inside /\ Inside' = Inside \ {g}
        /\ Committed' = Committed /\ UNCHANGED m_topFreeId
        /\ \A h \in Getters : pc'[h] = "increment" => pc[h] = "increment"
        /\ out' = out \cup {Head(m_freeIdQueue)}
    BY <1>2 DEF TypeOK, PopReturns, Inside, Committed
  <2>2. /\ IsFiniteSet(Inside') /\ Cardinality(Inside') = Cardinality(Inside) - 1
        /\ Cardinality(out') \in {Cardinality(out), Cardinality(out) + 1}
    BY <1>0, <2>1, FS_RemoveElement, FS_AddElement
  <2> QED
    BY <1>0, <2>1, <2>2 DEF Counting, Room, Reach
<1>3. ASSUME NEW g \in Getters, PopEmpty(g)
      PROVE  Counting'
  <2>1. /\ g \in Inside /\ Inside' = Inside /\ UNCHANGED <<m_topFreeId, out>>
        /\ Committed' = Committed \cup {g} /\ Committed' \subseteq Inside
        /\ \A h \in Getters : pc'[h] = "increment" => pc[h] = "increment" /\ h # g
    BY <1>3 DEF TypeOK, PopEmpty, Inside, Committed
  <2>2. Cardinality(out) = m_topFreeId
    BY <1>3, EmptyQueueMeansAllHeld DEF PopEmpty
  <2>3. /\ Cardinality(Committed') \in Nat
        /\ Cardinality(Committed') <= Cardinality(Inside)
    BY <1>0, <2>1, FS_Subset, FS_CardinalityType
  <2>4. CASE Cardinality(Inside) >= 2
    BY <1>0, <2>1, <2>2, <2>3, <2>4 DEF Counting, Room, Reach
  <2>5. CASE Cardinality(Inside) < 2
    <3>1. Cardinality(Inside \ {g}) = Cardinality(Inside) - 1 /\ IsFiniteSet(Inside \ {g})
      BY <1>0, <2>1, FS_RemoveElement
    <3>2. Inside = {g}
      <4>1. Cardinality(Inside \ {g}) \in Nat
        BY <3>1, FS_CardinalityType
      <4>2. Cardinality(Inside \ {g}) = 0
        BY <1>0, <2>5, <3>1, <4>1
      <4>3. Inside \ {g} = {}
        BY <3>1, <4>2, FS_EmptySet
      <4> QED
        BY <2>1, <4>3
    <3>3. Committed' = {g} /\ \A h \in Getters : pc'[h] # "increment"
      BY <2>1, <3>2 DEF Inside
    <3>4. Cardinality(Committed') = 1
      BY <3>3, FS_Singleton
    <3>5. m_topFreeId <= MaxValid
      BY DEF TypeOK
    <3> QED
      BY <1>0, <2>1, <2>5, <3>3, <3>4, <3>5 DEF Counting, Room, Reach
  <2> QED
    BY <1>0, <2>4, <2>5
<1>4. ASSUME NEW g \in Getters, ReturnInvalid(g)
      PROVE  Counting'
  <2>1. /\ g \in Inside /\ Inside' = Inside \ {g}
        /\ g \in Committed /\ Committed' = Committed \ {g}
        /\ UNCHANGED <<m_topFreeId, out>> /\ m_topFreeId = MaxValid
    BY <1>4 DEF TypeOK, ReturnInvalid, Inside, Committed
  <2>2. /\ IsFiniteSet(Inside') /\ Cardinality(Inside') = Cardinality(Inside) - 1
        /\ Cardinality(Committed') = Cardinality(Committed) - 1 /\ IsFiniteSet(Committed')
    BY <1>0, <2>1, FS_RemoveElement
  <2>3. Cardinality(Committed') \in Nat
    BY <2>2, FS_CardinalityType
  <2>4. Cardinality(Committed) = 1
    BY <1>0, <2>1, <2>2, <2>3 DEF Counting, Reach
  <2> QED
    BY <1>0, <2>1, <2>2, <2>4 DEF Counting, Room, Reach
<1>5. ASSUME NEW g \in Getters, CheckTop(g)
      PROVE  Counting'
  <2>1. /\ Inside' = Inside /\ Committed' = Committed
        /\ UNCHANGED <<m_topFreeId, out>> /\ m_topFreeId # MaxValid
    BY <1>5 DEF TypeOK, CheckTop, Inside, Committed
  <2> QED
    BY <2>1 DEF Counting, Room, Reach
<1>6. ASSUME NEW g \in Getters, Increment(g)
      PROVE  Counting'
  <2>1. /\ g \in Inside /\ Inside' = Inside \ {g}
        /\ g \in Committed /\ Committed' = Committed \ {g}
        /\ out' = out \cup {Incremented(m_topFreeId)}
        /\ pc[g] = "increment"
    BY <1>6 DEF TypeOK, Increment, Inside, Committed
  <2>2. m_topFreeId' = m_topFreeId + 1
    BY <1>6, <2>1, CountingSafe DEF Increment, Incremented
  <2>3. /\ IsFiniteSet(Inside') /\ Cardinality(Inside') = Cardinality(Inside) - 1
        /\ Cardinality(Committed') = Cardinality(Committed) - 1
        /\ Cardinality(out') \in {Cardinality(out), Cardinality(out) + 1}
    BY <1>0, <2>1, FS_RemoveElement, FS_AddElement
  <2>4. m_topFreeId + Cardinality(Committed) <= MaxValid
    BY <2>1 DEF Counting, Reach
  <2> QED
    BY <1>0, <2>2, <2>3, <2>4 DEF Counting, Room, Reach
<1>7. ASSUME NEW id \in out, FreeFreeId(id)
      PROVE  Counting'
  <2>1. /\ Inside' = Inside /\ Committed' = Committed /\ UNCHANGED <<m_topFreeId, pc>>
        /\ out' = out \ {id}
    BY <1>7 DEF FreeFreeId, Inside, Committed
  <2>2. Cardinality(out') = Cardinality(out) - 1
    BY <1>0, <1>7, <2>1, FS_RemoveElement
  <2> QED
    BY <1>0, <2>1, <2>2 DEF Counting, Room, Reach
<1>8. CASE UNCHANGED vars
  BY <1>8 DEF Counting, Room, Reach, Inside, Committed, vars
<1> QED
  BY <1>1, <1>2, <1>3, <1>4, <1>5, <1>6, <1>7, <1>8 DEF Next, GetFreeId

(* What is inductive together. *)
IdsInv == TypeOK /\ IdsConserved /\ Counting

LEMMA IdsInvKept ==
  ASSUME Fits
  PROVE  Spec => []IdsInv
<1>1. Init => IdsInv
  <2> SUFFICES ASSUME Init
               PROVE  Counting
    BY IdsInit DEF IdsInv
  <2>1. m_topFreeId = 0 /\ Inside = {} /\ Committed = {}
    BY DEF Init, Inside, Committed
  <2> QED
    BY <2>1, FS_EmptySet, ConstantsAssumption DEF Counting, Room, Reach
<1>2. IdsInv /\ [Next]_vars => IdsInv'
  <2> SUFFICES ASSUME IdsInv, [Next]_vars
               PROVE  IdsInv'
    OBVIOUS
  <2>1. IncrementSafe
    BY CountingSafe DEF IdsInv, IncrementSafe
  <2>2. TypeOK' /\ IdsConserved'
    BY <2>1, IdsStep DEF IdsInv
  <2>3. Counting'
    BY <2>2, CountingStep DEF IdsInv
  <2> QED
    BY <2>2, <2>3 DEF IdsInv
<1> QED
  BY <1>1, <1>2, PTL DEF Spec

(* Any number of threads may race in GetFreeId: as long as there is an id   *)
(* left for each of those that are inside together, the unsynchronised test *)
(* and increment never overflow, up to the last id, and no id is issued     *)
(* twice or lost (leeloo.cpp:152-175).  One thread alone, as the accept     *)
(* thread is (net.cpp:108), may go on when all ids are out.                 *)
THEOREM GettersConserve ==
  ASSUME Fits
  PROVE  Spec => [](TypeOK /\ IdsConserved /\ IncrementSafe)
<1>1. IdsInv => TypeOK /\ IdsConserved /\ IncrementSafe
  BY CountingSafe DEF IdsInv, IncrementSafe
<1> QED
  BY <1>1, IdsInvKept, PTL

--------------------------------------------------------------------------------
(* What each thread asks of the abstract pool. *)
Requests == [g \in Getters |-> RequestOf(g)]

(* Each step of the manager is a step of the abstract pool, or none. *)
LEMMA GettersSimulate ==
  ASSUME IdsInv, TypeOK', [Next]_vars
  PROVE  [Pool!Next]_(Pool!vars)
<1> USE ConstantsAssumption DEF IdsInv
<1>1. ASSUME NEW g \in Getters, Call(g)
      PROVE  Pool!Call(g)
  BY <1>1 DEF TypeOK, Call, Pool!Call, RequestOf
<1>2. ASSUME NEW g \in Getters, PopReturns(g)
      PROVE  Pool!Grant(g, Head(m_freeIdQueue)) /\ Head(m_freeIdQueue) \in ValidIds
  <2>1. /\ Head(m_freeIdQueue) \in ValidIds
        /\ Head(m_freeIdQueue) \in Range(m_freeIdQueue)
    BY <1>2, PopDistinct DEF TypeOK, IdsConserved, PopReturns
  <2>2. Head(m_freeIdQueue) \notin out
    BY <2>1 DEF IdsConserved
  <2> QED
    BY <1>2, <2>1, <2>2 DEF TypeOK, PopReturns, Pool!Grant, RequestOf
<1>3. ASSUME NEW g \in Getters, PopEmpty(g)
      PROVE  Pool!Exhaust(g) \/ UNCHANGED Pool!vars
  <2>2. m_topFreeId = MaxValid => out = ValidIds
    BY <1>3, EmptyQueueMeansAllHeld DEF PopEmpty, ValidIds
  <2>3. CASE m_topFreeId = MaxValid
    BY <1>3, <2>2, <2>3 DEF TypeOK, PopEmpty, Pool!Exhaust, RequestOf
  <2>4. CASE m_topFreeId # MaxValid
    BY <1>3, <2>4 DEF TypeOK, PopEmpty, Pool!vars, RequestOf
  <2> QED
    BY <2>3, <2>4
<1>4. ASSUME NEW g \in Getters, ReturnInvalid(g)
      PROVE  Pool!Refuse(g)
  BY <1>4 DEF TypeOK, ReturnInvalid, Pool!Refuse, RequestOf
<1>5. ASSUME NEW g \in Getters, CheckTop(g)
      PROVE  UNCHANGED Pool!vars
  BY <1>5 DEF TypeOK, CheckTop, Pool!vars, RequestOf
<1>6. ASSUME NEW g \in Getters, Increment(g)
      PROVE  Pool!Grant(g, m_topFreeId + 1) /\ m_topFreeId + 1 \in ValidIds
  <2>1. /\ Incremented(m_topFreeId) = m_topFreeId + 1
        /\ m_topFreeId + 1 \in ValidIds
        /\ m_topFreeId + 1 \notin 1 .. m_topFreeId
    BY <1>6, CountingSafe DEF TypeOK, Increment, Incremented, ValidIds
  <2>2. m_topFreeId + 1 \notin out
    BY <2>1 DEF IdsConserved
  <2>3. pc' = [pc EXCEPT ![g] = "idle"] /\ m_topFreeId' = m_topFreeId + 1
    BY <1>6, <2>1 DEF Increment
  <2>4. ASSUME NEW h \in Getters \ {g}
        PROVE  RequestOf(h)' = RequestOf(h)
    <3>1. pc[h] = "top" => m_topFreeId + 1 < MaxValid
      BY <1>6, CountingSafe DEF Increment, Committed
    <3> QED
      BY <2>1, <2>3, <3>1 DEF TypeOK, RequestOf
  <2>5. Requests[g] = "waiting" /\ Requests' = [Requests EXCEPT ![g] = "idle"]
    BY <1>6, <2>3, <2>4 DEF TypeOK, Increment, Requests, RequestOf
  <2> QED
    BY <1>6, <2>1, <2>2, <2>5 DEF Increment, Pool!Grant, Requests
<1>7. ASSUME NEW id \in out, FreeFreeId(id)
      PROVE  Pool!Free(id) /\ id \in ValidIds
  BY <1>7 DEF TypeOK, FreeFreeId, Pool!Free, RequestOf
<1>8. CASE UNCHANGED vars
  BY <1>8 DEF vars, Pool!vars, RequestOf
<1> QED
  BY <1>1, <1>2, <1>3, <1>4, <1>5, <1>6, <1>7, <1>8 DEF Next, GetFreeId, Pool!Next

(* For every MAX_VALID and any number of threads that keep to Fits, the     *)
(* manager keeps the promise of IdPool: a caller is refused only if all     *)
(* ids were lent during its call, and never gets an id somebody else holds  *)
(* (leeloo.cpp:152-175).                                                    *)
THEOREM GettersImplementIdPool ==
  ASSUME Fits
  PROVE  Spec => ImplementsIdPool
<1>1. Init => Pool!Init
  BY DEF Init, Pool!Init, RequestOf
<1>2. IdsInv /\ IdsInv' /\ [Next]_vars => [Pool!Next]_(Pool!vars)
  BY GettersSimulate DEF IdsInv
<1> QED
  BY <1>1, <1>2, IdsInvKept, PTL DEF Spec, ImplementsIdPool, Pool!Spec
================================================================================
