----------------------------- MODULE Singleton_proofs -----------------------------
(***************************************************************************)
(* Proofs about Singleton, for any number of threads that ask for the       *)
(* object and delete it.                                                    *)
(***************************************************************************)
EXTENDS Singleton, FiniteSetTheorems, TLAPS

UserPlaces == {"idle", "test", "lock", "again", "new", "store", "unlock", "return", "use"}
CloserPlaces == {"idle", "test", "lock", "again", "clear", "unlock"}

Types ==
  /\ m_pInstance \in Objects \cup {NULL}
  /\ m_lockPolicy \in Threads \cup {NoThread}
  /\ alive \subseteq Objects
  /\ pc \in [Threads -> UserPlaces \cup CloserPlaces]
  /\ \A u \in Users : pc[u] \in UserPlaces
  /\ \A x \in Closers : pc[x] \in CloserPlaces
  /\ ref \in [Threads -> Objects \cup {NULL}]
  /\ disturbed \subseteq Users

(* The thread that has the lock is the one between taking it and giving it  *)
(* back.                                                                    *)
LockInv ==
  \A t \in Threads :
    pc[t] \in {"again", "new", "store", "clear", "unlock"} <=> m_lockPolicy = t

(* What the pointer and the object are while somebody has the lock: a user  *)
(* between making the object and storing it, a closer between deleting it   *)
(* and clearing the pointer, leave them apart.                              *)
Pointed == IF m_pInstance = NULL THEN {} ELSE {m_pInstance}
ObjectInv ==
  /\ \A t \in Threads :
       /\ pc[t] = "new" => m_pInstance = NULL
       /\ pc[t] = "store" => m_pInstance = NULL /\ ref[t] \in Objects /\ alive = {ref[t]}
       /\ pc[t] = "clear" => alive = {}
  /\ (\A t \in Threads : pc[t] \notin {"store", "clear"}) => alive = Pointed

(* While no closer has come near a call, what it has seen of the object     *)
(* stays.                                                                   *)
CallInv ==
  \A u \in Users \ disturbed : pc[u] # "idle" =>
    /\ \A x \in Closers : pc[x] = "idle"
    /\ pc[u] \in {"unlock", "return", "use"} => m_pInstance # NULL
    /\ pc[u] = "use" => ref[u] = m_pInstance

IInv == Types /\ LockInv /\ ObjectInv /\ CallInv

LEMMA InitInv == Init => IInv
  BY SingletonAssumption
  DEF Init, IInv, Types, LockInv, ObjectInv, Pointed, CallInv, Threads, UserPlaces, CloserPlaces

(* Each step of a thread keeps the four parts together. *)
LEMMA InvKept ==
  ASSUME IInv, [Next]_vars
  PROVE  IInv'
<1> USE SingletonAssumption
    DEF IInv, Types, LockInv, ObjectInv, Pointed, CallInv, Threads, UserPlaces, CloserPlaces, Go
<1>1. ASSUME NEW t \in Threads, Call(t)
      PROVE  IInv'
  BY <1>1 DEF Call
<1>2. ASSUME NEW t \in Threads, Test(t)
      PROVE  IInv'
  BY <1>2 DEF Test
<1>3. ASSUME NEW t \in Threads, Lock(t)
      PROVE  IInv'
  BY <1>3 DEF Lock
<1>4. ASSUME NEW t \in Threads, Again(t)
      PROVE  IInv'
  BY <1>4 DEF Again
<1>5. ASSUME NEW t \in Threads, NEW o \in Objects, New(t, o)
      PROVE  IInv'
  BY <1>5 DEF New
<1>6. ASSUME NEW t \in Threads, Store(t)
      PROVE  IInv'
  BY <1>6 DEF Store
<1>7. ASSUME NEW t \in Threads, Delete(t)
      PROVE  IInv'
  BY <1>7 DEF Delete
<1>8. ASSUME NEW t \in Threads, Clear(t)
      PROVE  IInv'
  BY <1>8 DEF Clear
<1>9. ASSUME NEW t \in Threads, Unlock(t)
      PROVE  IInv'
  BY <1>9 DEF Unlock
<1>10. ASSUME NEW t \in Threads, Return(t)
       PROVE  IInv'
  BY <1>10 DEF Return
<1>11. ASSUME NEW t \in Threads, Used(t)
       PROVE  IInv'
  BY <1>11 DEF Used
<1>12. CASE UNCHANGED vars
  BY <1>12 DEF vars
<1> QED
  BY <1>1, <1>2, <1>3, <1>4, <1>5, <1>6, <1>7, <1>8, <1>9, <1>10, <1>11, <1>12 DEF Next, Step

(* There are never two objects: neither do two threads that find no object  *)
(* both make one, nor does a thread make one while another is deleting      *)
(* (leeloo.h:162-184).                                                      *)
THEOREM NeverTwo == Spec => []OneInstance
<1>1. IInv => OneInstance
  <2> SUFFICES ASSUME IInv
               PROVE  OneInstance
    OBVIOUS
  <2>1. alive = {} \/ \E o \in Objects : alive = {o}
    BY DEF IInv, Types, ObjectInv, Pointed
  <2>2. Cardinality({}) = 0 /\ \A o \in Objects : Cardinality({o}) = 1
    BY FS_EmptySet, FS_Singleton
  <2> QED
    BY <2>1, <2>2 DEF OneInstance
<1> QED
  BY <1>1, InitInv, InvKept, PTL DEF Spec

(* Out of the lock the pointer leads to the object, and no object is        *)
(* forgotten (leeloo.h:168, 178-179).                                       *)
THEOREM PointerLeadsToObject == Spec => []PointerTrue
<1>1. IInv => PointerTrue
  BY SingletonAssumption DEF IInv, LockInv, ObjectInv, Pointed, PointerTrue, Threads
<1> QED
  BY <1>1, InitInv, InvKept, PTL DEF Spec

(* A user whose call no Deinstance overlaps has an object that lives, and   *)
(* keeps it (leeloo.h:162-171).                                             *)
THEOREM UndisturbedUseIsSafe == Spec => []UsesLiveObject
<1>1. IInv => UsesLiveObject
  <2> SUFFICES ASSUME IInv, NEW u \in Users \ disturbed, pc[u] = "use"
               PROVE  ref[u] \in alive
    BY DEF UsesLiveObject
  <2>1. /\ m_pInstance # NULL /\ ref[u] = m_pInstance
        /\ \A x \in Closers : pc[x] = "idle"
    BY DEF IInv, CallInv
  <2>2. \A t \in Threads : pc[t] \notin {"store", "clear"}
    BY <2>1 DEF IInv, Types, ObjectInv, Threads, UserPlaces
  <2> QED
    BY <2>1, <2>2 DEF IInv, ObjectInv, Pointed
<1> QED
  BY <1>1, InitInv, InvKept, PTL DEF Spec
================================================================================
