-------------------------------- MODULE Singleton --------------------------------
(***************************************************************************)
(* Leeloo::Singleton (leeloo.h): Instance makes the one object of a class   *)
(* when it is asked for first, Deinstance deletes it; both test the pointer *)
(* before they take the lock, and again inside it.  Instance reads the      *)
(* pointer once more to return it, with no lock.                            *)
(*                                                                          *)
(* The constructors of the classes it is used with may throw, so that the   *)
(* pointer is stored after the object has been made.                        *)
(***************************************************************************)
EXTENDS Naturals, FiniteSets

CONSTANTS Users, Closers, \* threads that call Instance, and Deinstance
          Objects,        \* where objects may be
          NULL, NoThread

ASSUME SingletonAssumption ==
  /\ Users \cap Closers = {} /\ NoThread \notin Users \cup Closers
  /\ NULL \notin Objects

VARIABLES m_pInstance, m_lockPolicy, \* the pointer, and the thread that holds the lock
          alive,                     \* objects that have been made and not deleted
          pc,                        \* where each thread is
          ref,                       \* what Instance has made, or returned
          disturbed                  \* users whose call, with the use of what it returned,
                                     \*   a call of Deinstance overlaps

Threads == Users \cup Closers
vars == <<m_pInstance, m_lockPolicy, alive, pc, ref, disturbed>>

Init ==
  /\ m_pInstance = NULL /\ m_lockPolicy = NoThread /\ alive = {}
  /\ pc = [t \in Threads |-> "idle"] /\ ref = [t \in Threads |-> NULL]
  /\ disturbed = {}

Go(t, from, to) == pc[t] = from /\ pc' = [pc EXCEPT ![t] = to]

Call(t) ==
  /\ Go(t, "idle", "test")
  /\ disturbed' = IF t \in Closers THEN disturbed \cup {u \in Users : pc[u] # "idle"}
                  ELSE IF \E x \in Closers : pc[x] # "idle" THEN disturbed \cup {t}
                  ELSE disturbed \ {t}
  /\ UNCHANGED <<m_pInstance, m_lockPolicy, alive, ref>>

(* The first test: Instance has nothing to do if there is an object,        *)
(* Deinstance if there is none.                                             *)
Test(t) ==
  /\ Go(t, "test", IF (m_pInstance = NULL) = (t \in Users) THEN "lock"
                   ELSE IF t \in Users THEN "return" ELSE "idle")
  /\ UNCHANGED <<m_pInstance, m_lockPolicy, alive, ref, disturbed>>

Lock(t) ==
  /\ m_lockPolicy = NoThread
  /\ Go(t, "lock", "again")
  /\ m_lockPolicy' = t
  /\ UNCHANGED <<m_pInstance, alive, ref, disturbed>>

(* Mutation: Instance does not test again inside the lock. *)
Again_Untested(t) ==
  /\ t \in Users
  /\ Go(t, "again", "new")
  /\ UNCHANGED <<m_pInstance, m_lockPolicy, alive, ref, disturbed>>

Again(t) ==
  /\ t \in Users
  /\ Go(t, "again", IF m_pInstance = NULL THEN "new" ELSE "unlock")
  /\ UNCHANGED <<m_pInstance, m_lockPolicy, alive, ref, disturbed>>

New(t, o) ==
  /\ o \notin alive
  /\ Go(t, "new", "store")
  /\ alive' = alive \cup {o}
  /\ ref' = [ref EXCEPT ![t] = o]
  /\ UNCHANGED <<m_pInstance, m_lockPolicy, disturbed>>

Store(t) ==
  /\ Go(t, "store", "unlock")
  /\ m_pInstance' = ref[t]
  /\ UNCHANGED <<m_lockPolicy, alive, ref, disturbed>>

(* Deinstance *)
Delete(t) ==
  /\ t \in Closers
  /\ Go(t, "again", "clear")
  /\ alive' = alive \ {m_pInstance}
  /\ UNCHANGED <<m_pInstance, m_lockPolicy, ref, disturbed>>

(* Mutation: the pointer is left as it was. *)
Clear_Keeps(t) ==
  /\ Go(t, "clear", "unlock")
  /\ UNCHANGED <<m_pInstance, m_lockPolicy, alive, ref, disturbed>>

Clear(t) ==
  /\ Go(t, "clear", "unlock")
  /\ m_pInstance' = NULL
  /\ UNCHANGED <<m_lockPolicy, alive, ref, disturbed>>

(* Mutation: the lock is kept. *)
Unlock_Keeps(t) ==
  /\ Go(t, "unlock", IF t \in Users THEN "return" ELSE "idle")
  /\ UNCHANGED <<m_pInstance, m_lockPolicy, alive, ref, disturbed>>

Unlock(t) ==
  /\ Go(t, "unlock", IF t \in Users THEN "return" ELSE "idle")
  /\ m_lockPolicy' = NoThread
  /\ UNCHANGED <<m_pInstance, alive, ref, disturbed>>

(* The pointer is read once more, whatever it is by now. *)
Return(t) ==
  /\ Go(t, "return", "use")
  /\ ref' = [ref EXCEPT ![t] = m_pInstance]
  /\ UNCHANGED <<m_pInstance, m_lockPolicy, alive, disturbed>>

Used(t) ==
  /\ Go(t, "use", "idle")
  /\ ref' = [ref EXCEPT ![t] = NULL]
  /\ UNCHANGED <<m_pInstance, m_lockPolicy, alive, disturbed>>

Step(t) ==
  \/ Test(t) \/ Lock(t) \/ Again(t) \/ (\E o \in Objects : New(t, o)) \/ Store(t)
  \/ Delete(t) \/ Clear(t) \/ Unlock(t) \/ Return(t) \/ Used(t)

Next == \E t \in Threads : Call(t) \/ Step(t)

Spec == Init /\ [][Next]_vars
FairSpec == Spec /\ \A t \in Threads : WF_vars(Step(t))

--------------------------------------------------------------------------------
(* There are never two objects, though the pointer is tested outside the    *)
(* lock, and Deinstance may come between (leeloo.h:164-168, 174-179).       *)
OneInstance == Cardinality(alive) <= 1

(* Whenever nobody is inside the lock the pointer tells the truth: it leads *)
(* to the object there is, and no object is left that it does not lead to   *)
(* (leeloo.h:168, 178-179).                                                 *)
PointerTrue ==
  m_lockPolicy = NoThread => alive = (IF m_pInstance = NULL THEN {} ELSE {m_pInstance})

(* What Instance returns may be used: it has been made completely and is    *)
(* not deleted meanwhile, if no call of Deinstance overlaps, as none does   *)
(* in main, whatever calls of it there were before (leeloo.h:170, 178;      *)
(* framework.cpp:36-37, net.cpp:27).                                        *)
UsesLiveObject == \A t \in Users \ disturbed : pc[t] = "use" => ref[t] \in alive

(* A call of Instance returns, whoever else asks for the object at the same *)
(* time and whatever calls of Deinstance overlap it, unless Deinstance is   *)
(* called again and again for ever: the lock is given back whatever is      *)
(* found inside it (leeloo.h:162-171, 172-181).                             *)
InstanceReturns ==
  <>[](\A x \in Closers : pc[x] = "idle") => \A t \in Users : pc[t] = "test" ~> pc[t] = "use"
================================================================================
