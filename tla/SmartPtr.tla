--------------------------------- MODULE SmartPtr ---------------------------------
(***************************************************************************)
(* Leeloo::SmartPtr over Leeloo::Base with its default policy (leeloo.h):   *)
(* pointers that count their references inside the object and delete it     *)
(* with the last one.                                                       *)
(*                                                                          *)
(* The count is changed by an interlocked operation, but Decrease and the   *)
(* GetCount that decides about the delete are two of them.  Each thread has *)
(* pointers of its own, and from the start one to an object all share; a    *)
(* pointer of another thread is never touched.                              *)
(***************************************************************************)
EXTENDS Integers, FiniteSets

CONSTANTS Threads, Slots, \* the pointers of a thread
          Objects, shared, \* objects, each made once; the one all threads share
          NULL

ASSUME SmartPtrAssumption ==
  /\ IsFiniteSet(Threads) /\ IsFiniteSet(Slots)
  /\ Threads # {} /\ Slots # {} /\ NULL \notin Slots
  /\ shared \in Objects /\ NULL \notin Objects

VARIABLES m_ptr,            \* what each pointer of each thread points to
          m_referenceCount, \* the count in each object
          made, deleted,    \* objects made, and how often each was deleted
          pc                \* of each thread: where it is in an assignment or destructor

vars == <<m_ptr, m_referenceCount, made, deleted, pc>>

Ptrs == Threads \X Slots
Idle == [at |-> "idle"]
First == CHOOSE s \in Slots : TRUE

Init ==
  /\ m_ptr = [p \in Ptrs |-> IF p[2] = First THEN shared ELSE NULL]
  /\ m_referenceCount = [o \in Objects |-> IF o = shared THEN Cardinality(Threads) ELSE 0]
  /\ made = {shared}
  /\ deleted = [o \in Objects |-> 0]
  /\ pc = [t \in Threads |-> Idle]

Alive(o) == o \in made /\ deleted[o] = 0
Increase(o) == m_referenceCount' = [m_referenceCount EXCEPT ![o] = @ + 1]
Decrease(o) == m_referenceCount' = [m_referenceCount EXCEPT ![o] = @ - 1]

--------------------------------------------------------------------------------
(* SmartPtr(T* ), SmartPtr(auto_ptr<T>): a new object, whose count Base has *)
(* set to zero.                                                             *)
Construct(t, p, o) ==
  /\ pc[t] = Idle /\ m_ptr[<<t, p>>] = NULL
  /\ o \notin made
  /\ made' = made \cup {o}
  /\ m_ptr' = [m_ptr EXCEPT ![<<t, p>>] = o]
  /\ Increase(o)
  /\ UNCHANGED <<deleted, pc>>

(* Mutation: the copy is not counted. *)
CopyConstruct_NotCounted(t, p, ref) ==
  /\ pc[t] = Idle /\ m_ptr[<<t, p>>] = NULL /\ m_ptr[<<t, ref>>] # NULL
  /\ m_ptr' = [m_ptr EXCEPT ![<<t, p>>] = m_ptr[<<t, ref>>]]
  /\ UNCHANGED <<m_referenceCount, made, deleted, pc>>

(* SmartPtr(SmartPtr& ) *)
CopyConstruct(t, p, ref) ==
  /\ pc[t] = Idle /\ m_ptr[<<t, p>>] = NULL /\ m_ptr[<<t, ref>>] # NULL
  /\ m_ptr' = [m_ptr EXCEPT ![<<t, p>>] = m_ptr[<<t, ref>>]]
  /\ Increase(m_ptr[<<t, ref>>])
  /\ UNCHANGED <<made, deleted, pc>>

(* operator= lets go of the old object first ... *)
Assign(t, p, ref) ==
  /\ pc[t] = Idle
  /\ m_ptr[<<t, p>>] # m_ptr[<<t, ref>>]
  /\ IF m_ptr[<<t, p>>] = NULL
     THEN /\ pc' = [pc EXCEPT ![t] = [at |-> "take", p |-> p, ref |-> ref]]
          /\ UNCHANGED m_referenceCount
     ELSE /\ Decrease(m_ptr[<<t, p>>])
          /\ pc' = [pc EXCEPT ![t] = [at |-> "test", p |-> p, ref |-> ref]]
  /\ UNCHANGED <<m_ptr, made, deleted>>

(* ... and takes the new one. *)
Take(t) ==
  /\ pc[t].at = "take"
  /\ LET new == m_ptr[<<t, pc[t].ref>>] IN
     /\ m_ptr' = [m_ptr EXCEPT ![<<t, pc[t].p>>] = new]
     /\ IF new = NULL THEN UNCHANGED m_referenceCount ELSE Increase(new)
  /\ pc' = [pc EXCEPT ![t] = Idle]
  /\ UNCHANGED <<made, deleted>>

(* ~SmartPtr *)
Destroy(t, p) ==
  /\ pc[t] = Idle /\ m_ptr[<<t, p>>] # NULL
  /\ Decrease(m_ptr[<<t, p>>])
  /\ pc' = [pc EXCEPT ![t] = [at |-> "test", p |-> p, ref |-> NULL]]
  /\ UNCHANGED <<m_ptr, made, deleted>>

(* Mutation: the object goes with the last but one. *)
IsLast_OneLeft(o) == m_referenceCount[o] <= 1
(* Mutation: the object goes when the count is below zero. *)
IsLast_Never(o) == m_referenceCount[o] < 0
IsLast(o) == m_referenceCount[o] = 0

(* GetCount, and delete when it is zero; m_ptr is not set to NULL, but is   *)
(* not used again either.  The count of an object that another thread has   *)
(* deleted may read as anything.                                            *)
Test(t) ==
  /\ pc[t].at = "test"
  /\ LET p == <<t, pc[t].p>>  o == m_ptr[p] IN
     /\ \E zero \in BOOLEAN :
          /\ Alive(o) => (zero <=> IsLast(o))
          /\ deleted' = IF zero THEN [deleted EXCEPT ![o] = @ + 1] ELSE deleted
     /\ m_ptr' = [m_ptr EXCEPT ![p] = NULL]
     /\ pc' = [pc EXCEPT ![t] = IF pc[t].ref = NULL THEN Idle ELSE [pc[t] EXCEPT !.at = "take"]]
  /\ UNCHANGED <<m_referenceCount, made>>

Next ==
  \E t \in Threads :
    \/ \E p \in Slots, o \in Objects : Construct(t, p, o)
    \/ \E p, ref \in Slots : CopyConstruct(t, p, ref) \/ Assign(t, p, ref)
    \/ \E p \in Slots : Destroy(t, p)
    \/ Test(t) \/ Take(t)

Spec == Init /\ [][Next]_vars

--------------------------------------------------------------------------------
(* The pointers that refer to an object, but for one that is letting go. *)
LettingGo(p) == pc[p[1]].at = "test" /\ pc[p[1]].p = p[2]
Referrers(o) == {p \in Ptrs : m_ptr[p] = o /\ ~LettingGo(p)}

(* The count in an object is the number of pointers to it, however threads  *)
(* copy, assign and destroy theirs at the same time (leeloo.h:325-326,      *)
(* 376-420).                                                                *)
CountExact == \A o \in Objects : m_referenceCount[o] = Cardinality(Referrers(o))

(* No pointer is left to an object that has been deleted, not even when it  *)
(* is assigned to itself or to another pointer to the same object           *)
(* (leeloo.h:398-409).                                                      *)
NoDangling == \A p \in Ptrs : m_ptr[p] # NULL /\ ~LettingGo(p) => Alive(m_ptr[p])

(* An object nobody points to any more, nor is about to test, is gone, and  *)
(* one that only one thread ever pointed to has been deleted exactly once.  *)
(* The object all threads share may be deleted twice: two of them may       *)
(* decrement its count before either reads it (leeloo.h:402-404, 416-418).  *)
DeletedWithLast ==
  \A o \in made : (\A p \in Ptrs : m_ptr[p] # o) =>
    IF o = shared THEN deleted[o] > 0 ELSE deleted[o] = 1
================================================================================
