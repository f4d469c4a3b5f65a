-------------------------------- MODULE IdManager --------------------------------
(***************************************************************************)
(* Leeloo::IdManager (leeloo.h:620-642, leeloo.cpp:148-175): a counter of   *)
(* the ids ever issued and a locked FIFO of the ids given back.  The server *)
(* names its sessions with it.                                              *)
(*                                                                          *)
(* GetFreeId is not atomic: the locked Pop, the test of m_topFreeId and the *)
(* interlocked increment are three steps, and other threads call GetFreeId  *)
(* and FreeFreeId between them.  FreeFreeId is one locked Push.             *)
(***************************************************************************)
EXTENDS Integers, Sequences, Functions, FiniteSets

CONSTANTS Getters,   \* the threads that call GetFreeId
          MaxValid,  \* MAX_VALID, the largest value of an IdType
          MaxHeld    \* bound: a call that makes n threads be inside starts with fewer
                     \*   than MaxHeld[n] ids held, and no more than Len(MaxHeld) are

ASSUME ConstantsAssumption ==
  /\ MaxValid \in Nat \ {0}
  /\ MaxHeld \in Seq(Nat)

VARIABLES m_topFreeId,    \* the last id issued by the counter
          m_freeIdQueue,  \* the ids given back, oldest first
          pc,             \* where each thread is in GetFreeId
          out             \* the ids returned and not yet given back

vars == <<m_topFreeId, m_freeIdQueue, pc, out>>

MinValid == -MaxValid - 1
ValidIds == 1 .. MaxValid

(* InterlockedIncrement: two's complement, so it wraps at the top. *)
Incremented(top) == IF top = MaxValid THEN MinValid ELSE top + 1

TypeOK ==
  /\ m_topFreeId \in 0 .. MaxValid
  /\ m_freeIdQueue \in Seq(ValidIds)
  /\ pc \in [Getters -> {"idle", "pop", "top", "increment"}]
  /\ out \subseteq ValidIds

Init ==
  /\ m_topFreeId = 0
  /\ m_freeIdQueue = <<>>
  /\ pc = [g \in Getters |-> "idle"]
  /\ out = {}

(* The threads in GetFreeId. *)
Inside == {g \in Getters : pc[g] # "idle"}

(* A thread enters GetFreeId. *)
Call(g) ==
  /\ pc[g] = "idle"
  /\ Cardinality(Inside) < Len(MaxHeld)
  /\ Cardinality(out) < MaxHeld[Cardinality(Inside) + 1]
  /\ pc' = [pc EXCEPT ![g] = "pop"]
  /\ UNCHANGED <<m_topFreeId, m_freeIdQueue, out>>

(* Mutation: the front is returned and stays in the queue. *)
PopReturns_KeepsFront(g) ==
  /\ pc[g] = "pop"
  /\ m_freeIdQueue # <<>>
  /\ out' = out \cup {Head(m_freeIdQueue)}
  /\ pc' = [pc EXCEPT ![g] = "idle"]
  /\ UNCHANGED <<m_topFreeId, m_freeIdQueue>>

(* An id was given back: the oldest one is issued again. *)
PopReturns(g) ==
  /\ pc[g] = "pop"
  /\ m_freeIdQueue # <<>>
  /\ m_freeIdQueue' = Tail(m_freeIdQueue)
  /\ out' = out \cup {Head(m_freeIdQueue)}
  /\ pc' = [pc EXCEPT ![g] = "idle"]
  /\ UNCHANGED m_topFreeId

PopEmpty(g) ==
  /\ pc[g] = "pop"
  /\ m_freeIdQueue = <<>>
  /\ pc' = [pc EXCEPT ![g] = "top"]
  /\ UNCHANGED <<m_topFreeId, m_freeIdQueue, out>>

(* The counter is used up: GetFreeId returns INVALID_VALID. *)
ReturnInvalid(g) ==
  /\ pc[g] = "top"
  /\ m_topFreeId = MaxValid
  /\ pc' = [pc EXCEPT ![g] = "idle"]
  /\ UNCHANGED <<m_topFreeId, m_freeIdQueue, out>>

(* Mutation: the counter is not compared with MAX_VALID. *)
CheckTop_Unchecked(g) ==
  /\ pc[g] = "top"
  /\ pc' = [pc EXCEPT ![g] = "increment"]
  /\ UNCHANGED <<m_topFreeId, m_freeIdQueue, out>>

CheckTop(g) ==
  /\ pc[g] = "top"
  /\ m_topFreeId # MaxValid
  /\ pc' = [pc EXCEPT ![g] = "increment"]
  /\ UNCHANGED <<m_topFreeId, m_freeIdQueue, out>>

(* Mutation: the value before the increment is returned, as in the lines    *)
(* that leeloo.cpp:162-163 has commented out.                               *)
Increment_ReturnsOld(g) ==
  /\ pc[g] = "increment"
  /\ m_topFreeId' = Incremented(m_topFreeId)
  /\ out' = out \cup {m_topFreeId}
  /\ pc' = [pc EXCEPT ![g] = "idle"]
  /\ UNCHANGED m_freeIdQueue

Increment(g) ==
  /\ pc[g] = "increment"
  /\ m_topFreeId' = Incremented(m_topFreeId)
  /\ out' = out \cup {Incremented(m_topFreeId)}
  /\ pc' = [pc EXCEPT ![g] = "idle"]
  /\ UNCHANGED m_freeIdQueue

(* Any thread gives back an id it was lent; it goes to the end. *)
FreeFreeId(id) ==
  /\ id \in out
  /\ m_freeIdQueue' = Append(m_freeIdQueue, id)
  /\ out' = out \ {id}
  /\ UNCHANGED <<m_topFreeId, pc>>

GetFreeId(g) ==
  \/ Call(g)
  \/ PopReturns(g) \/ PopEmpty(g)
  \/ ReturnInvalid(g) \/ CheckTop(g)
  \/ Increment(g)

Next ==
  \/ \E g \in Getters : GetFreeId(g)
  \/ \E id \in out : FreeFreeId(id)

Spec == Init /\ [][Next]_vars

--------------------------------------------------------------------------------
(* Every id the counter has passed is either held or waiting in the queue,  *)
(* once: no id is lent twice and none is lost, whatever the interleaving of *)
(* the steps of GetFreeId (leeloo.cpp:152-166) with FreeFreeId (167-175).   *)
IdsConserved ==
  /\ IsInjective(m_freeIdQueue)
  /\ out \cap Range(m_freeIdQueue) = {}
  /\ out \cup Range(m_freeIdQueue) = 1 .. m_topFreeId

(* What callers have to see to: when several threads are in GetFreeId, there *)
(* is an id left for each of them.                                          *)
Fits == \A n \in 2 .. Len(MaxHeld) : MaxHeld[n] + n - 1 <= MaxValid

(* As long as there is an id left for each of the threads inside when       *)
(* several are (Fits), no thread increments a used up counter, although     *)
(* GetFreeId tests it in one step and increments it in another, when other  *)
(* threads may have moved it: up to MAX_VALID by several threads that have  *)
(* all passed the test, and beyond all ids by one alone                     *)
(* (leeloo.cpp:160-164).  With one id less the counter does wrap.           *)
IncrementSafe ==
  \A g \in Getters : pc[g] = "increment" => m_topFreeId < MaxValid

(* The decision to refuse is taken when Pop finds nothing while the counter *)
(* is used up: from then on the call can only return INVALID_VALID.         *)
RequestOf(g) ==
  CASE pc[g] = "idle" -> "idle"
    [] pc[g] = "top" /\ m_topFreeId = MaxValid -> "refused"
    [] OTHER -> "waiting"

Pool == INSTANCE IdPool WITH
          Ids <- ValidIds,
          allocated <- out,
          request <- [g \in Getters |-> RequestOf(g)]

(* The manager is an IdPool of the ids 1..MAX_VALID: an id is never lent    *)
(* twice, and a caller is refused only if all were lent out during its      *)
(* call; under Fits, as above (leeloo.cpp:152-175).                         *)
ImplementsIdPool == Pool!Spec
================================================================================
