------------------------------- MODULE QueueLemmas -------------------------------
(***************************************************************************)
(* What pushing to and popping from a queue of distinct elements does to    *)
(* the set of its elements.  Leeloo::Queue (leeloo.h:579-618) is used as a  *)
(* queue of distinct ids; the proofs about the id manager and the server    *)
(* cite these facts.                                                        *)
(***************************************************************************)
EXTENDS Integers, Sequences, Functions, SequenceTheorems, TLAPS

(* Popping the front leaves distinct elements, all but the popped one. *)
LEMMA PopDistinct ==
  ASSUME NEW S, NEW q \in Seq(S), q # <<>>, IsInjective(q)
  PROVE  /\ Head(q) \in S
         /\ Head(q) \in Range(q)
         /\ Tail(q) \in Seq(S)
         /\ IsInjective(Tail(q))
         /\ Range(Tail(q)) = Range(q) \ {Head(q)}
<1>1. /\ Head(q) \in S
      /\ Tail(q) \in Seq(S)
      /\ Len(Tail(q)) = Len(q) - 1
      /\ \A i \in 1 .. Len(Tail(q)) : Tail(q)[i] = q[i + 1]
  BY HeadTailProperties
<1>2. /\ DOMAIN q = 1 .. Len(q)
      /\ DOMAIN Tail(q) = 1 .. Len(Tail(q))
      /\ Len(q) \in Nat \ {0}
  BY <1>1, LenProperties, EmptySeq
<1>3. Head(q) = q[1]
  BY <1>2
<1>4. Head(q) \in Range(q)
  BY <1>2, <1>3 DEF Range
<1>5. IsInjective(Tail(q))
  <2>1. SUFFICES ASSUME NEW i \in 1 .. Len(Tail(q)), NEW j \in 1 .. Len(Tail(q)),
                        Tail(q)[i] = Tail(q)[j]
                 PROVE  i = j
    BY <1>2 DEF IsInjective
  <2>2. /\ i + 1 \in DOMAIN q
        /\ j + 1 \in DOMAIN q
        /\ q[i + 1] = q[j + 1]
    BY <1>1, <1>2, <2>1
  <2>3. i + 1 = j + 1
    BY <2>2 DEF IsInjective
  <2> QED
    BY <2>3
<1>6. ASSUME NEW x \in Range(Tail(q))
      PROVE  x \in Range(q) \ {Head(q)}
  <2>1. PICK i \in 1 .. Len(Tail(q)) : x = Tail(q)[i]
    BY <1>2, <1>6 DEF Range
  <2>2. /\ x = q[i + 1]
        /\ i + 1 \in DOMAIN q
        /\ i + 1 # 1
        /\ 1 \in DOMAIN q
    BY <1>1, <1>2, <2>1
  <2>3. x # q[1]
    BY <2>2 DEF IsInjective
  <2> QED
    BY <1>3, <2>2, <2>3 DEF Range
<1>7. ASSUME NEW x \in Range(q), x # Head(q)
      PROVE  x \in Range(Tail(q))
  <2>1. PICK i \in 1 .. Len(q) : x = q[i]
    BY <1>2, <1>7 DEF Range
  <2>2. i # 1
    BY <1>3, <1>7, <2>1
  <2>3. /\ i - 1 \in 1 .. Len(Tail(q))
        /\ (i - 1) + 1 = i
    BY <1>1, <1>2, <2>2
  <2>4. x = Tail(q)[i - 1]
    BY <1>1, <2>1, <2>3
  <2> QED
    BY <1>2, <2>3, <2>4 DEF Range
<1> QED
  BY <1>1, <1>4, <1>5, <1>6, <1>7

(* Pushing an element that is not there leaves distinct elements, one more. *)
LEMMA PushDistinct ==
  ASSUME NEW S, NEW q \in Seq(S), NEW e \in S, IsInjective(q), e \notin Range(q)
  PROVE  /\ Append(q, e) \in Seq(S)
         /\ IsInjective(Append(q, e))
         /\ Range(Append(q, e)) = Range(q) \cup {e}
<1>1. /\ Append(q, e) \in Seq(S)
      /\ Len(Append(q, e)) = Len(q) + 1
      /\ \A i \in 1 .. Len(q) : Append(q, e)[i] = q[i]
      /\ Append(q, e)[Len(q) + 1] = e
  BY AppendProperties
<1>2. /\ DOMAIN q = 1 .. Len(q)
      /\ DOMAIN Append(q, e) = 1 .. (Len(q) + 1)
      /\ Len(q) \in Nat
  BY <1>1, LenProperties
<1>3. \A i \in 1 .. Len(q) : q[i] # e
  BY <1>2 DEF Range
<1>4. IsInjective(Append(q, e))
  <2>1. SUFFICES ASSUME NEW i \in 1 .. (Len(q) + 1), NEW j \in 1 .. (Len(q) + 1),
                        Append(q, e)[i] = Append(q, e)[j]
                 PROVE  i = j
    BY <1>2 DEF IsInjective
  <2>2. CASE i \in 1 .. Len(q) /\ j \in 1 .. Len(q)
    BY <1>1, <1>2, <2>1, <2>2 DEF IsInjective
  <2>3. CASE i = Len(q) + 1 \/ j = Len(q) + 1
    BY <1>1, <1>2, <1>3, <2>1, <2>3
  <2> QED
    BY <1>2, <2>2, <2>3
<1>5. Range(Append(q, e)) \subseteq Range(q) \cup {e}
  BY <1>1, <1>2 DEF Range
<1>6. ASSUME NEW x \in Range(q)
      PROVE  x \in Range(Append(q, e))
  <2>1. PICK i \in 1 .. Len(q) : x = q[i]
    BY <1>2, <1>6 DEF Range
  <2>2. i \in 1 .. (Len(q) + 1) /\ Append(q, e)[i] = x
    BY <1>1, <1>2, <2>1
  <2> QED
    BY <1>2, <2>2 DEF Range
<1>7. e \in Range(Append(q, e))
  BY <1>1, <1>2 DEF Range
<1> QED
  BY <1>1, <1>4, <1>5, <1>6, <1>7
================================================================================
