----------------------------- MODULE SmartPtr_proofs -----------------------------
(***************************************************************************)
(* For every number of threads, of pointers of each and of objects, the     *)
(* counts of the smart pointers are exact, no pointer is left to a deleted  *)
(* object, and what nobody points to is deleted.                            *)
(*                                                                          *)
(* The counts alone would not be inductive: that a Test which finds zero    *)
(* deletes what no other pointer needs rests on the count being exact, and  *)
(* that it finds zero when it must, on the object not being deleted yet.    *)
(* An object that was not there from the start is only ever pointed to by   *)
(* the thread that made it, so that one Test alone decides about it; the    *)
(* shared one may be dead already when a second Test reads its count.       *)
(***************************************************************************)
EXTENDS SmartPtr, FiniteSetTheorems, FunctionTheorems, TLAPS

Steps == [at : {"test", "take"}, p : Slots, ref : Slots \cup {NULL}]

Types ==
  /\ m_ptr \in [Ptrs -> Objects \cup {NULL}]
  /\ m_referenceCount \in [Objects -> Int]
  /\ made \subseteq Objects
  /\ deleted \in [Objects -> Nat]
  /\ pc \in [Threads -> Steps \cup {Idle}]

(* Where threads are: what is let go of is an object, and the pointer to    *)
(* take over is another one.                                                *)
StepInv ==
  \A t \in Threads :
    /\ pc[t].at = "test" => m_ptr[<<t, pc[t].p>>] # NULL
    /\ pc[t].at = "take" => pc[t].ref \in Slots /\ m_ptr[<<t, pc[t].p>>] = NULL
    /\ pc[t].at # "idle" => pc[t].ref # pc[t].p

(* Which objects there are, and which of them are dead.                     *)
ObjectInv ==
  /\ \A p \in Ptrs : m_ptr[p] # NULL => m_ptr[p] \in made
  /\ \A o \in Objects \ made : deleted[o] = 0
  /\ shared \in made

(* An object a thread has made is its own, and lives while it is pointed to.*)
OwnObject ==
  \A p \in Ptrs : m_ptr[p] \notin {NULL, shared} =>
    /\ deleted[m_ptr[p]] = 0
    /\ \A q \in Ptrs : m_ptr[q] = m_ptr[p] => q[1] = p[1]

Inv == Types /\ StepInv /\ ObjectInv /\ OwnObject /\ CountExact /\ NoDangling /\ DeletedWithLast

--------------------------------------------------------------------------------
(* Counting. *)

LEMMA ReferrersFinite ==
  ASSUME NEW o
  PROVE  IsFiniteSet(Referrers(o)) /\ Cardinality(Referrers(o)) \in Nat
<1>1. IsFiniteSet(Ptrs)
  BY SmartPtrAssumption, FS_Product DEF Ptrs
<1>2. Referrers(o) \in SUBSET Ptrs
  BY DEF Referrers
<1> QED
  BY <1>1, <1>2, FS_Subset, FS_CardinalityType

(* One pointer more and a count more by one. *)
LEMMA GainOne ==
  ASSUME Types, CountExact, NEW o \in Objects, NEW p \in Ptrs, Increase(o), p \notin Referrers(o),
         Referrers(o)' = Referrers(o) \cup {p},
         \A q \in Objects \ {o} : Referrers(q)' = Referrers(q)
  PROVE  CountExact'
<1>1. Cardinality(Referrers(o)') = Cardinality(Referrers(o)) + 1
  BY ReferrersFinite, FS_AddElement
<1> QED
  BY <1>1 DEF Types, CountExact, Increase

(* One pointer less and a count less by one. *)
LEMMA LoseOne ==
  ASSUME Types, CountExact, NEW o \in Objects, NEW p \in Ptrs, Decrease(o), p \in Referrers(o),
         Referrers(o)' = Referrers(o) \ {p},
         \A q \in Objects \ {o} : Referrers(q)' = Referrers(q)
  PROVE  CountExact'
<1>1. Cardinality(Referrers(o)') = Cardinality(Referrers(o)) - 1
  BY ReferrersFinite, FS_RemoveElement
<1> QED
  BY <1>1 DEF Types, CountExact, Decrease

(* An object whose count is zero has no pointers but those letting go. *)
LEMMA ZeroIsNone ==
  ASSUME CountExact, NEW o \in Objects
  PROVE  m_referenceCount[o] = 0 <=> Referrers(o) = {}
BY ReferrersFinite, FS_EmptySet DEF CountExact

(* At the start there is one pointer of each thread to the shared object. *)
LEMMA InitCount == Init => CountExact
<1> SUFFICES ASSUME Init
             PROVE  CountExact
  OBVIOUS
<1>1. First \in Slots /\ shared # NULL /\ shared \in Objects
  BY SmartPtrAssumption DEF First
<1>2. \A p \in Ptrs : ~LettingGo(p)
  BY DEF Init, LettingGo, Idle, Ptrs
<1>3. Referrers(shared) = {p \in Ptrs : p[2] = First}
  BY <1>1, <1>2 DEF Init, Referrers
<1> DEFINE f == [t \in Threads |-> <<t, First>>]
           firsts == {p \in Ptrs : p[2] = First}
<1>4. f \in Bijection(Threads, firsts)
  <2>1. f \in [Threads -> firsts]
    BY <1>1 DEF Ptrs
  <2>2. \A t, u \in Threads : f[t] = f[u] => t = u
    OBVIOUS
  <2>3. \A p \in firsts : \E t \in Threads : f[t] = p
    BY DEF Ptrs
  <2> QED
    BY <2>1, <2>2, <2>3, Fun_IsBij
<1>5. Cardinality(firsts) = Cardinality(Threads)
  <2>1. ExistsBijection(Threads, firsts)
    BY <1>4 DEF ExistsBijection
  <2> QED
    BY <2>1, FS_Bijection, SmartPtrAssumption
<1>6. ASSUME NEW o \in Objects, o # shared
      PROVE  Referrers(o) = {}
  BY <1>6, SmartPtrAssumption DEF Init, Referrers
<1> QED
  BY <1>3, <1>5, <1>6, FS_EmptySet DEF Init, CountExact

LEMMA InitInv == Init => Inv
<1> SUFFICES ASSUME Init
             PROVE  Inv
  OBVIOUS
<1> USE SmartPtrAssumption DEF Init
<1>1. Types
  <2>1. Cardinality(Threads) \in Int
    BY FS_CardinalityType
  <2> QED
    BY <2>1 DEF Types
<1>2. StepInv
  BY DEF StepInv, Idle
<1>3. ObjectInv /\ OwnObject
  BY DEF ObjectInv, OwnObject
<1>4. NoDangling
  BY DEF NoDangling, Alive
<1>5. DeletedWithLast
  <2>1. PICK t \in Threads : TRUE
    OBVIOUS
  <2>2. <<t, First>> \in Ptrs /\ m_ptr[<<t, First>>] = shared
    BY DEF Ptrs, First
  <2> QED
    BY <2>2 DEF DeletedWithLast
<1> QED
  BY <1>1, <1>2, <1>3, <1>4, <1>5, InitCount DEF Inv

--------------------------------------------------------------------------------
(* The steps. *)

(* A pair of a thread and one of its pointers, and nothing else, is a       *)
(* pointer.                                                                 *)
LEMMA PtrIs ==
  /\ \A t \in Threads, s \in Slots :
       <<t, s>> \in Ptrs /\ <<t, s>>[1] = t /\ <<t, s>>[2] = s
  /\ \A p \in Ptrs : p[1] \in Threads /\ p[2] \in Slots /\ p = <<p[1], p[2]>>
BY DEF Ptrs

(* An idle thread lets go of nothing. *)
LEMMA IdleKeeps ==
  ASSUME NEW t \in Threads, pc[t] = Idle
  PROVE  \A s \in Slots : ~LettingGo(<<t, s>>)
BY PtrIs DEF LettingGo, Idle

LEMMA ConstructInv ==
  ASSUME Inv, NEW t \in Threads, NEW s \in Slots, NEW o \in Objects, Construct(t, s, o)
  PROVE  Inv'
<1> DEFINE p == <<t, s>>
<1> USE SmartPtrAssumption DEF Inv
<1>1. p \in Ptrs /\ ~LettingGo(p) /\ m_ptr[p] = NULL
  BY PtrIs, IdleKeeps DEF Construct
<1>2. /\ m_ptr' = [m_ptr EXCEPT ![p] = o] /\ made' = made \cup {o} /\ Increase(o)
      /\ o \notin made /\ o # shared /\ o # NULL /\ deleted[o] = 0
      /\ \A q \in Ptrs : m_ptr[q] # o
      /\ UNCHANGED <<deleted, pc>>
  BY DEF Construct, ObjectInv
<1> HIDE DEF p
<1>3. m_ptr' \in [Ptrs -> Objects \cup {NULL}]
      /\ \A q \in Ptrs : m_ptr'[q] = IF q = p THEN o ELSE m_ptr[q]
  BY <1>1, <1>2 DEF Types
<1>4. Types'
  BY <1>2, <1>3 DEF Types, Increase
<1>5. StepInv'
  <2>1. \A u \in Threads, r \in Slots : <<u, r>> \in Ptrs
    BY PtrIs
  <2>2. \A u \in Threads : pc[u].at \in {"test", "take"} => u # t /\ pc[u].p \in Slots
    BY DEF Types, Steps, Idle, Construct, CopyConstruct
  <2>3. \A u \in Threads \ {t}, x \in Slots : <<u, x>> # p
    BY DEF p
  <2> QED
    BY <1>2, <1>3, <2>1, <2>2, <2>3 DEF StepInv
<1>6. ObjectInv'
  BY <1>2, <1>3 DEF ObjectInv, Types
<1>7. OwnObject'
  BY <1>1, <1>2, <1>3 DEF OwnObject
<1>8. \A q : LettingGo(q)' <=> LettingGo(q)
  BY <1>2 DEF LettingGo
<1>9. CountExact'
  <2>1. Referrers(o)' = Referrers(o) \cup {p} /\ p \notin Referrers(o)
    BY <1>1, <1>2, <1>3, <1>8 DEF Referrers
  <2>2. \A q \in Objects \ {o} : Referrers(q)' = Referrers(q)
    BY <1>1, <1>3, <1>8 DEF Referrers
  <2> QED
    BY <1>1, <1>2, <2>1, <2>2, GainOne
<1>10. NoDangling'
  BY <1>1, <1>2, <1>3, <1>8 DEF NoDangling, Alive
<1>11. DeletedWithLast'
  <2>1. \A x \in made : (\A q \in Ptrs : m_ptr'[q] # x) => \A q \in Ptrs : m_ptr[q] # x
    BY <1>1, <1>3 DEF Types
  <2> QED
    BY <1>1, <1>2, <1>3, <2>1 DEF DeletedWithLast
<1> QED
  BY <1>4, <1>5, <1>6, <1>7, <1>9, <1>10, <1>11

LEMMA CopyInv ==
  ASSUME Inv, NEW t \in Threads, NEW s \in Slots, NEW ref \in Slots, CopyConstruct(t, s, ref)
  PROVE  Inv'
<1> DEFINE p == <<t, s>>
           r == <<t, ref>>
<1> USE SmartPtrAssumption DEF Inv
<1>1. p \in Ptrs /\ r \in Ptrs /\ p[1] = r[1] /\ ~LettingGo(p) /\ ~LettingGo(r) /\ m_ptr[p] = NULL
  BY PtrIs, IdleKeeps DEF CopyConstruct
<1> PICK o \in Objects : o = m_ptr[r]
  BY <1>1 DEF CopyConstruct, Types
<1>2. /\ m_ptr' = [m_ptr EXCEPT ![p] = o] /\ Increase(o)
      /\ o # NULL
      /\ UNCHANGED <<made, deleted, pc>>
  BY <1>1 DEF CopyConstruct, Types
<1> HIDE DEF p, r
<1>3. m_ptr' \in [Ptrs -> Objects \cup {NULL}]
      /\ \A q \in Ptrs : m_ptr'[q] = IF q = p THEN o ELSE m_ptr[q]
  BY <1>1, <1>2 DEF Types
<1>4. Types'
  BY <1>2, <1>3 DEF Types, Increase
<1>5. StepInv'
  <2>1. \A u \in Threads, x \in Slots : <<u, x>> \in Ptrs
    BY PtrIs
  <2>2. \A u \in Threads : pc[u].at \in {"test", "take"} => u # t /\ pc[u].p \in Slots
    BY DEF Types, Steps, Idle, Construct, CopyConstruct
  <2>3. \A u \in Threads \ {t}, x \in Slots : <<u, x>> # p
    BY DEF p
  <2> QED
    BY <1>2, <1>3, <2>1, <2>2, <2>3 DEF StepInv
<1>6. ObjectInv'
  BY <1>1, <1>2, <1>3 DEF ObjectInv
<1>7. OwnObject'
  BY <1>1, <1>2, <1>3 DEF OwnObject
<1>8. \A q : LettingGo(q)' <=> LettingGo(q)
  BY <1>2 DEF LettingGo
<1>9. CountExact'
  <2>1. Referrers(o)' = Referrers(o) \cup {p} /\ p \notin Referrers(o)
    BY <1>1, <1>2, <1>3, <1>8 DEF Referrers
  <2>2. \A q \in Objects \ {o} : Referrers(q)' = Referrers(q)
    BY <1>1, <1>3, <1>8 DEF Referrers
  <2> QED
    BY <1>1, <1>2, <2>1, <2>2, GainOne
<1>10. NoDangling'
  BY <1>1, <1>2, <1>3, <1>8 DEF NoDangling, Alive
<1>11. DeletedWithLast'
  <2>1. \A x \in made : (\A q \in Ptrs : m_ptr'[q] # x) => \A q \in Ptrs : m_ptr[q] # x
    BY <1>1, <1>3 DEF Types
  <2> QED
    BY <1>1, <1>2, <1>3, <2>1 DEF DeletedWithLast
<1> QED
  BY <1>4, <1>5, <1>6, <1>7, <1>9, <1>10, <1>11

(* Both ways to let go: the count goes down, and the pointer is no longer   *)
(* one that counts.                                                         *)
LEMMA LetGoInv ==
  ASSUME Inv, NEW t \in Threads, NEW s \in Slots, NEW ref \in Slots \cup {NULL},
         pc[t] = Idle, m_ptr[<<t, s>>] # NULL, ref # s,
         Decrease(m_ptr[<<t, s>>]),
         pc' = [pc EXCEPT ![t] = [at |-> "test", p |-> s, ref |-> ref]],
         UNCHANGED <<m_ptr, made, deleted>>
  PROVE  Inv'
<1> DEFINE p == <<t, s>>
           step == [at |-> "test", p |-> s, ref |-> ref]
<1> USE SmartPtrAssumption DEF Inv
<1>1. p \in Ptrs /\ ~LettingGo(p) /\ p[1] = t /\ p[2] = s
  BY PtrIs, IdleKeeps
<1>2. PICK o \in Objects : o = m_ptr[p]
  BY <1>1 DEF Types
<1>3. step \in Steps /\ step.at = "test" /\ step.p = s /\ step.ref = ref
  BY DEF Steps
<1>4. pc' = [pc EXCEPT ![t] = step] /\ m_ptr[p] = o /\ o # NULL /\ Decrease(o)
  BY <1>2
<1> HIDE DEF step, p
<1>5. pc' \in [Threads -> Steps \cup {Idle}]
      /\ \A u \in Threads : pc'[u] = IF u = t THEN step ELSE pc[u]
  BY <1>3, <1>4 DEF Types
<1>6. Types'
  BY <1>2, <1>4, <1>5 DEF Types, Decrease
<1>7. StepInv'
  <2>1. m_ptr[<<t, s>>] # NULL
    BY <1>4 DEF p
  <2> QED
    BY <1>3, <1>5, <2>1 DEF StepInv
<1>8. ObjectInv' /\ OwnObject'
  BY DEF ObjectInv, OwnObject
<1>9. /\ LettingGo(p)'
      /\ \A q \in Ptrs \ {p} : LettingGo(q)' <=> LettingGo(q)
  <2>1. LettingGo(p)'
    BY <1>1, <1>3, <1>5 DEF LettingGo
  <2>2. ASSUME NEW q \in Ptrs \ {p}
        PROVE  LettingGo(q)' <=> LettingGo(q)
    <3>1. CASE q[1] = t
      <4>1. q[2] # s
        BY <3>1, PtrIs DEF p
      <4>2. ~LettingGo(q)'
        BY <1>3, <1>5, <3>1, <4>1 DEF LettingGo
      <4>3. ~LettingGo(q)
        BY <3>1 DEF LettingGo, Idle
      <4> QED
        BY <4>2, <4>3
    <3>2. CASE q[1] # t
      BY <1>5, <3>2, PtrIs DEF LettingGo
    <3> QED
      BY <3>1, <3>2
  <2> QED
    BY <2>1, <2>2
<1>10. CountExact'
  <2>1. p \in Referrers(o) /\ Referrers(o)' = Referrers(o) \ {p}
    BY <1>1, <1>4, <1>9 DEF Referrers
  <2>2. \A q \in Objects \ {o} : Referrers(q)' = Referrers(q)
    BY <1>1, <1>4, <1>9 DEF Referrers
  <2> QED
    BY <1>1, <1>2, <1>4, <2>1, <2>2, LoseOne
<1>11. NoDangling' /\ DeletedWithLast'
  BY <1>9 DEF NoDangling, DeletedWithLast, Alive
<1> QED
  BY <1>6, <1>7, <1>8, <1>10, <1>11

(* An empty pointer that is assigned to lets go of nothing. *)
LEMMA AssignEmptyInv ==
  ASSUME Inv, NEW t \in Threads, NEW s \in Slots, NEW ref \in Slots,
         Assign(t, s, ref), m_ptr[<<t, s>>] = NULL
  PROVE  Inv'
<1> DEFINE step == [at |-> "take", p |-> s, ref |-> ref]
<1> USE DEF Inv
<1>1. /\ pc[t] = Idle /\ ref # s
      /\ pc' = [pc EXCEPT ![t] = step]
      /\ UNCHANGED <<m_ptr, m_referenceCount, made, deleted>>
  BY DEF Assign
<1>2. step \in Steps /\ step.at = "take" /\ step.p = s /\ step.ref = ref
  BY DEF Steps
<1> HIDE DEF step
<1>3. pc' \in [Threads -> Steps \cup {Idle}]
      /\ \A u \in Threads : pc'[u] = IF u = t THEN step ELSE pc[u]
  BY <1>1, <1>2 DEF Types
<1>4. Types'
  BY <1>1, <1>3 DEF Types
<1>5. StepInv'
  BY <1>1, <1>2, <1>3 DEF StepInv
<1>6. ObjectInv' /\ OwnObject'
  BY <1>1 DEF ObjectInv, OwnObject
<1>7. \A q \in Ptrs : LettingGo(q)' <=> LettingGo(q)
  BY <1>1, <1>2, <1>3, PtrIs DEF LettingGo, Idle
<1>8. CountExact'
  <2>1. \A o : Referrers(o)' = Referrers(o)
    BY <1>1, <1>7 DEF Referrers
  <2> QED
    BY <1>1, <2>1 DEF CountExact
<1>9. NoDangling' /\ DeletedWithLast'
  BY <1>1, <1>7 DEF NoDangling, DeletedWithLast, Alive
<1> QED
  BY <1>4, <1>5, <1>6, <1>8, <1>9

LEMMA TakeInv ==
  ASSUME Inv, NEW t \in Threads, Take(t)
  PROVE  Inv'
<1> DEFINE p == <<t, pc[t].p>>
           r == <<t, pc[t].ref>>
<1> USE SmartPtrAssumption DEF Inv
<1>1. pc[t].at = "take" /\ pc[t].p \in Slots /\ pc[t].ref \in Slots /\ m_ptr[p] = NULL
  BY DEF Take, StepInv, Types, Steps, Idle
<1>2. /\ p \in Ptrs /\ r \in Ptrs /\ p[1] = t /\ r[1] = t
      /\ \A q \in Ptrs : q[1] = t => ~LettingGo(q)
  BY <1>1, PtrIs DEF LettingGo
<1> PICK new \in Objects \cup {NULL} : new = m_ptr[r]
  BY <1>2 DEF Types
<1>3. /\ m_ptr' = [m_ptr EXCEPT ![p] = new]
      /\ IF new = NULL THEN UNCHANGED m_referenceCount ELSE Increase(new)
      /\ pc' = [pc EXCEPT ![t] = Idle]
      /\ UNCHANGED <<made, deleted>>
  BY DEF Take
<1>4. m_ptr[r] = new /\ \A u \in Threads \ {t}, x \in Slots : <<u, x>> # p
  OBVIOUS
<1> HIDE DEF p, r
<1>5. m_ptr' \in [Ptrs -> Objects \cup {NULL}]
      /\ \A q \in Ptrs : m_ptr'[q] = IF q = p THEN new ELSE m_ptr[q]
  BY <1>2, <1>3 DEF Types
<1>6. pc' \in [Threads -> Steps \cup {Idle}]
      /\ \A u \in Threads : pc'[u] = IF u = t THEN Idle ELSE pc[u]
  BY <1>3 DEF Types
<1>7. Types'
  BY <1>3, <1>5, <1>6 DEF Types, Increase
<1>8. StepInv'
  <2>1. \A u \in Threads, x \in Slots : <<u, x>> \in Ptrs
    BY PtrIs
  <2>2. \A u \in Threads : pc'[u].at \in {"test", "take"} => u # t /\ pc[u].p \in Slots
    BY <1>6 DEF Types, Steps, Idle
  <2>3. Idle.at = "idle"
    BY DEF Idle
  <2> QED
    BY <1>4, <1>5, <1>6, <2>1, <2>2, <2>3 DEF StepInv
<1>9. ObjectInv' /\ OwnObject'
  BY <1>2, <1>3, <1>4, <1>5 DEF ObjectInv, OwnObject
<1>10. \A q \in Ptrs : LettingGo(q)' <=> LettingGo(q)
  <2>1. \A q \in Ptrs : q[1] = t => ~LettingGo(q)'
    BY <1>6 DEF LettingGo, Idle
  <2> QED
    BY <1>2, <1>6, <2>1, PtrIs DEF LettingGo
<1>11. CountExact'
  <2>1. \A o \in Objects \ {new} : Referrers(o)' = Referrers(o)
    BY <1>1, <1>2, <1>5, <1>10 DEF Referrers, p
  <2>2. CASE new = NULL
    <3>1. \A o \in Objects : Referrers(o)' = Referrers(o)
      BY <2>1, <2>2
    <3> QED
      BY <1>3, <2>2, <3>1 DEF CountExact
  <2>3. CASE new # NULL
    <3>1. new \in Objects /\ m_ptr[p] = NULL
      BY <1>1, <2>3 DEF p
    <3>2. Referrers(new)' = Referrers(new) \cup {p} /\ p \notin Referrers(new)
      BY <1>2, <1>5, <1>10, <2>3, <3>1 DEF Referrers
    <3> QED
      BY <1>2, <1>3, <2>1, <2>3, <3>1, <3>2, GainOne
  <2> QED
    BY <2>2, <2>3
<1>12. NoDangling'
  BY <1>2, <1>3, <1>4, <1>5, <1>10 DEF NoDangling, Alive
<1>13. DeletedWithLast'
  <2>1. m_ptr[p] = NULL
    BY <1>1 DEF p
  <2>2. \A x \in made : (\A q \in Ptrs : m_ptr'[q] # x) => \A q \in Ptrs : m_ptr[q] # x
    BY <1>2, <1>5, <2>1 DEF Types
  <2> QED
    BY <1>3, <2>2 DEF DeletedWithLast
<1> QED
  BY <1>7, <1>8, <1>9, <1>11, <1>12, <1>13

LEMMA TestInv ==
  ASSUME Inv, NEW t \in Threads, Test(t)
  PROVE  Inv'
<1> DEFINE s == pc[t].p
           p == <<t, pc[t].p>>
           next == IF pc[t].ref = NULL THEN Idle ELSE [pc[t] EXCEPT !.at = "take"]
<1> USE SmartPtrAssumption DEF Inv
<1>1. pc[t] \in Steps /\ pc[t].at = "test" /\ s \in Slots /\ m_ptr[p] # NULL
      /\ pc[t].ref # s
  BY DEF Test, StepInv, Types, Steps, Idle
<1>2. /\ p \in Ptrs /\ p[1] = t /\ LettingGo(p)
      /\ \A q \in Ptrs : q[1] = t /\ LettingGo(q) => q = p
  BY <1>1, PtrIs DEF LettingGo
<1>3. PICK o \in Objects : o = m_ptr[p]
  BY <1>1, <1>2 DEF Types
<1>4. PICK zero \in BOOLEAN :
        /\ Alive(o) => (zero <=> IsLast(o))
        /\ deleted' = IF zero THEN [deleted EXCEPT ![o] = @ + 1] ELSE deleted
  BY <1>3 DEF Test
<1>5. /\ m_ptr' = [m_ptr EXCEPT ![p] = NULL]
      /\ pc' = [pc EXCEPT ![t] = next]
      /\ UNCHANGED <<m_referenceCount, made>>
  BY DEF Test
<1>6. /\ next \in Steps \cup {Idle}
      /\ next.at # "test"
      /\ next.at = "take" => next.ref \in Slots /\ next.p = s
      /\ next.at # "idle" => next.ref # next.p
  BY <1>1 DEF Steps, Idle
<1>7. m_ptr[p] = o /\ \A u \in Threads \ {t}, x \in Slots : <<u, x>> # p
  BY <1>3
<1>8. p = <<t, s>>
  OBVIOUS
<1> HIDE DEF s, p, next
<1>9. m_ptr' \in [Ptrs -> Objects \cup {NULL}]
      /\ \A q \in Ptrs : m_ptr'[q] = IF q = p THEN NULL ELSE m_ptr[q]
  BY <1>2, <1>5 DEF Types
<1>10. pc' \in [Threads -> Steps \cup {Idle}]
      /\ \A u \in Threads : pc'[u] = IF u = t THEN next ELSE pc[u]
  BY <1>5, <1>6 DEF Types
<1>11. /\ deleted' \in [Objects -> Nat]
       /\ \A x \in Objects \ {o} : deleted'[x] = deleted[x]
       /\ deleted'[o] = IF zero THEN deleted[o] + 1 ELSE deleted[o]
  BY <1>4 DEF Types
<1>12. Types'
  BY <1>5, <1>9, <1>10, <1>11 DEF Types
<1>13. StepInv'
  <2>1. \A u \in Threads, x \in Slots : <<u, x>> \in Ptrs
    BY PtrIs
  <2>2. \A u \in Threads : pc[u].at \in {"test", "take"} => pc[u].p \in Slots
    BY DEF Types, Steps, Idle
  <2>3. next.at = "take" => m_ptr'[<<t, next.p>>] = NULL
    BY <1>2, <1>6, <1>8, <1>9
  <2> QED
    BY <1>6, <1>7, <1>9, <1>10, <2>1, <2>2, <2>3 DEF StepInv
<1>14. \A q \in Ptrs \ {p} : LettingGo(q)' <=> LettingGo(q)
  <2>1. \A q \in Ptrs : q[1] = t => ~LettingGo(q)'
    BY <1>6, <1>10 DEF LettingGo
  <2> QED
    BY <1>2, <1>10, <2>1, PtrIs DEF LettingGo
(* Whoever still refers to the object keeps this thread from deleting it.   *)
<1>15. ASSUME NEW q \in Ptrs, q # p, m_ptr[q] = o, ~LettingGo(q)
       PROVE  Alive(o) /\ ~zero /\ deleted' = deleted
  <2>1. Alive(o)
    BY <1>1, <1>7, <1>15 DEF NoDangling
  <2>2. Referrers(o) # {}
    BY <1>15 DEF Referrers
  <2>3. ~IsLast(o)
    BY <2>2, ZeroIsNone DEF IsLast
  <2> QED
    BY <1>4, <2>1, <2>3
<1>16. ObjectInv'
  <2>1. o \in made
    BY <1>1, <1>2, <1>7 DEF ObjectInv
  <2> QED
    BY <1>5, <1>9, <1>11, <2>1 DEF ObjectInv
<1>17. OwnObject'
  <2>1. ASSUME NEW q \in Ptrs, m_ptr'[q] \notin {NULL, shared}
        PROVE  /\ deleted'[m_ptr'[q]] = 0
               /\ \A x \in Ptrs : m_ptr'[x] = m_ptr'[q] => x[1] = q[1]
    <3>1. q # p /\ m_ptr'[q] = m_ptr[q]
      BY <1>9, <2>1
    <3>2. \A x \in Ptrs : m_ptr[x] = m_ptr[q] => x[1] = q[1]
      BY <2>1, <3>1 DEF OwnObject
    <3>3. deleted[m_ptr[q]] = 0
      BY <2>1, <3>1 DEF OwnObject
    <3>4. CASE m_ptr[q] = o
      <4>1. q[1] = t /\ ~LettingGo(q)
        BY <1>2, <1>7, <3>1, <3>2, <3>4
      <4> QED
        BY <1>9, <1>15, <2>1, <3>1, <3>2, <3>3, <3>4, <4>1
    <3>5. CASE m_ptr[q] # o
      <4>1. m_ptr[q] \in Objects
        BY <2>1, <3>1 DEF Types
      <4> QED
        BY <1>9, <1>11, <2>1, <3>1, <3>2, <3>3, <3>5, <4>1
    <3> QED
      BY <3>4, <3>5
  <2> QED
    BY <2>1 DEF OwnObject
<1>18. CountExact'
  <2>1. \A x \in Objects : Referrers(x)' = Referrers(x)
    BY <1>2, <1>9, <1>14 DEF Referrers
  <2> QED
    BY <1>5, <2>1 DEF CountExact
<1>19. NoDangling'
  <2>1. ASSUME NEW q \in Ptrs, m_ptr'[q] # NULL, ~LettingGo(q)'
        PROVE  m_ptr'[q] \in made' /\ deleted'[m_ptr'[q]] = 0
    <3>1. q # p /\ m_ptr'[q] = m_ptr[q] /\ ~LettingGo(q)
      BY <1>9, <1>14, <2>1
    <3>2. Alive(m_ptr[q]) /\ m_ptr[q] \in Objects
      BY <2>1, <3>1 DEF NoDangling, Types
    <3>3. CASE m_ptr[q] = o
      BY <1>5, <1>15, <3>1, <3>2, <3>3 DEF Alive
    <3>4. CASE m_ptr[q] # o
      BY <1>5, <1>11, <3>1, <3>2, <3>4 DEF Alive
    <3> QED
      BY <3>3, <3>4
  <2> QED
    BY <2>1 DEF NoDangling, Alive
<1>20. DeletedWithLast'
  <2>1. ASSUME NEW x \in made, \A q \in Ptrs : m_ptr'[q] # x
        PROVE  IF x = shared THEN deleted'[x] > 0 ELSE deleted'[x] = 1
    <3>1. \A q \in Ptrs \ {p} : m_ptr[q] # x
      BY <1>9, <2>1
    <3>2. x \in Objects
      BY DEF Types
    <3>3. CASE x = o
      <4>1. Referrers(o) = {}
        BY <1>2, <3>1, <3>3 DEF Referrers
      <4>2. IsLast(o)
        BY <4>1, ZeroIsNone DEF IsLast
      <4>3. deleted[o] \in Nat
        BY DEF Types
      <4>4. o # shared => deleted[o] = 0
        BY <1>1, <1>2, <1>7 DEF OwnObject
      <4>5. deleted[o] = 0 => zero
        BY <1>4, <3>3, <4>2 DEF Alive
      <4> QED
        BY <1>11, <3>3, <4>3, <4>4, <4>5
    <3>4. CASE x # o
      BY <1>7, <1>11, <3>1, <3>2, <3>4 DEF DeletedWithLast
    <3> QED
      BY <3>3, <3>4
  <2> QED
    BY <1>5, <2>1 DEF DeletedWithLast
<1> QED
  BY <1>12, <1>13, <1>16, <1>17, <1>18, <1>19, <1>20

LEMMA InvKept == Inv /\ [Next]_vars => Inv'
<1> SUFFICES ASSUME Inv, [Next]_vars
             PROVE  Inv'
  OBVIOUS
<1>1. ASSUME NEW t \in Threads, NEW s \in Slots, NEW ref \in Slots, Assign(t, s, ref),
             m_ptr[<<t, s>>] # NULL
      PROVE  Inv'
  <2>1. /\ pc[t] = Idle /\ ref # s
        /\ Decrease(m_ptr[<<t, s>>])
        /\ pc' = [pc EXCEPT ![t] = [at |-> "test", p |-> s, ref |-> ref]]
        /\ UNCHANGED <<m_ptr, made, deleted>>
    BY <1>1 DEF Assign
  <2> QED
    BY <1>1, <2>1, LetGoInv
<1>2. ASSUME NEW t \in Threads, NEW s \in Slots, Destroy(t, s)
      PROVE  Inv'
  <2>1. NULL # s
    BY SmartPtrAssumption
  <2> QED
    BY <1>2, <2>1, LetGoInv DEF Destroy
<1>3. CASE UNCHANGED vars
  <2>1. \A q \in Ptrs : LettingGo(q)' <=> LettingGo(q)
    BY <1>3 DEF vars, LettingGo
  <2>2. \A o \in Objects : Referrers(o)' = Referrers(o)
    BY <1>3, <2>1 DEF vars, Referrers
  <2> QED
    BY <1>3, <2>1, <2>2 DEF vars, Inv, Types, StepInv, ObjectInv, OwnObject, CountExact, NoDangling,
                            DeletedWithLast, Alive
<1> QED
  BY <1>1, <1>2, <1>3, ConstructInv, CopyInv, AssignEmptyInv, TakeInv, TestInv DEF Next

(* However many threads copy, assign and destroy how many pointers, the     *)
(* count in an object is the number of those that refer to it               *)
(* (leeloo.h:376-420).                                                      *)
THEOREM CountsAreExact == Spec => []CountExact
<1>1. Inv => CountExact
  BY DEF Inv
<1> QED
  BY <1>1, InitInv, InvKept, PTL DEF Spec

(* A Test that finds zero only deletes what no pointer refers to, so that   *)
(* every other pointer can be followed (leeloo.h:398-420).                  *)
THEOREM PointersAreAlive == Spec => []NoDangling
<1>1. Inv => NoDangling
  BY DEF Inv
<1> QED
  BY <1>1, InitInv, InvKept, PTL DEF Spec

(* Nothing leaks: with its last pointer an object goes, and one that only   *)
(* one thread could reach is deleted once (leeloo.h:402-404, 416-418).      *)
THEOREM LastPointerDeletes == Spec => []DeletedWithLast
<1>1. Inv => DeletedWithLast
  BY DEF Inv
<1> QED
  BY <1>1, InitInv, InvKept, PTL DEF Spec
================================================================================
