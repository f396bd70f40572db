----------------------------- MODULE QueueLemmas -----------------------------
(***************************************************************************)
(* What the operations on the daemons' queues leave in them.               *)
(***************************************************************************)
EXTENDS Integers, SequencesExt, FiniteSetTheorems, SequenceTheorems, TLAPS

(* Functions on 1 .. n are sequences.                                       *)
LEMMA AsSequence ==
  ASSUME NEW S, NEW n \in Nat, NEW f \in [1 .. n -> S]
  PROVE  f \in Seq(S) /\ Len(f) = n
OBVIOUS

(* What a sequence holds is what it holds at its positions.                 *)
LEMMA Holdings ==
  ASSUME NEW S, NEW q \in Seq(S)
  PROVE  \A x : x \in Range(q) <=> \E i \in 1 .. Len(q) : q[i] = x
<1>1. DOMAIN q = 1 .. Len(q)
  BY LenProperties
<1> QED
  BY <1>1 DEF Range

(* An insertion yields a sequence with what was there and the new element.  *)
LEMMA Insertion ==
  ASSUME NEW S, NEW q \in Seq(S), NEW e \in S, NEW i \in 1 .. Len(q) + 1
  PROVE  /\ InsertAt(q, i, e) \in Seq(S)
         /\ InsertAt(q, i, e) # <<>>
         /\ Range(InsertAt(q, i, e)) \subseteq Range(q) \cup {e}
<1> DEFINE before == SubSeq(q, 1, i - 1)
           behind == SubSeq(q, i, Len(q))
           front  == before \o <<e>>
<1>0. Len(q) \in Nat /\ \A j \in 1 .. Len(q) : q[j] \in S
  BY LenProperties, ElementOfSeq
<1>1. /\ before \in Seq(S) /\ Len(before) = i - 1
      /\ \A j \in 1 .. i - 1 : before[j] = q[j]
  OBVIOUS
<1>2. /\ behind \in Seq(S) /\ Len(behind) = Len(q) - i + 1
      /\ \A j \in 1 .. Len(q) - i + 1 : behind[j] = q[i + j - 1]
  OBVIOUS
<1>3. InsertAt(q, i, e) = front \o behind
  BY DEF InsertAt
<1>4. <<e>> \in Seq(S) /\ Len(<<e>>) = 1 /\ <<e>>[1] = e
  OBVIOUS
<1> HIDE DEF before, behind
<1>5. /\ front \in Seq(S) /\ Len(front) = i
      /\ \A j \in 1 .. i : front[j] = IF j < i THEN before[j] ELSE e
  <2>1. front \in Seq(S) /\ Len(front) = i - 1 + 1
    BY <1>1, <1>4, ConcatProperties
  <2>2. \A j \in 1 .. (i - 1) + 1 :
          front[j] = IF j <= i - 1 THEN before[j] ELSE <<e>>[j - (i - 1)]
    BY <1>1, <1>4, ConcatProperties
  <2> QED
    BY <2>1, <2>2, <1>4
<1> HIDE DEF front
<1>6. /\ front \o behind \in Seq(S) /\ Len(front \o behind) = Len(q) + 1
      /\ \A j \in 1 .. Len(q) + 1 :
           (front \o behind)[j] = IF j <= i THEN front[j] ELSE behind[j - i]
  <2>1. /\ front \o behind \in Seq(S)
        /\ Len(front \o behind) = Len(front) + Len(behind)
        /\ \A j \in 1 .. Len(front) + Len(behind) :
             (front \o behind)[j] = IF j <= Len(front) THEN front[j] ELSE behind[j - Len(front)]
    BY <1>2, <1>5, ConcatProperties
  <2>2. Len(front) + Len(behind) = Len(q) + 1
    BY <1>0, <1>2, <1>5
  <2> QED
    BY <2>1, <2>2, <1>5
<1>7. \A k \in 1 .. Len(q) : q[k] \in Range(q)
  BY Holdings
<1>8. ASSUME NEW j \in 1 .. Len(q) + 1 PROVE (front \o behind)[j] \in Range(q) \cup {e}
  <2>1. CASE j < i
    <3>1. j \in 1 .. i - 1 /\ j \in 1 .. i /\ j \in 1 .. Len(q)
      BY <2>1, <1>0
    <3>2. (front \o behind)[j] = q[j]
      BY <2>1, <3>1, <1>1, <1>5, <1>6
    <3> QED
      BY <3>1, <3>2, <1>7
  <2>2. CASE j = i
    BY <2>2, <1>0, <1>5, <1>6
  <2>3. CASE j > i
    <3>1. /\ j - i \in 1 .. Len(q) - i + 1 /\ j - 1 \in 1 .. Len(q)
          /\ i + (j - i) - 1 = j - 1
      BY <2>3, <1>0
    <3>2. (front \o behind)[j] = q[j - 1]
      BY <2>3, <3>1, <1>2, <1>6
    <3> QED
      BY <3>1, <3>2, <1>7
  <2>4. j < i \/ j = i \/ j > i
    BY <1>0
  <2> QED
    BY <2>1, <2>2, <2>3, <2>4, Zenon
<1>9. Range(front \o behind) \subseteq Range(q) \cup {e}
  <2>1. \A x \in Range(front \o behind) : \E j \in 1 .. Len(q) + 1 : (front \o behind)[j] = x
    BY <1>6, Holdings
  <2> QED
    BY <2>1, <1>8
<1> QED
  BY <1>0, <1>3, <1>6, <1>9

(* What is left of a sequence holds nothing new.                            *)
LEMMA TailHoldsNothingNew ==
  ASSUME NEW S, NEW q \in Seq(S), q # <<>>
  PROVE  Tail(q) \in Seq(S) /\ Head(q) \in S /\ Range(Tail(q)) \subseteq Range(q)
<1>1. /\ Head(q) \in S /\ Tail(q) \in Seq(S) /\ Len(Tail(q)) = Len(q) - 1
      /\ \A i \in 1 .. Len(Tail(q)) : Tail(q)[i] = q[i + 1]
  BY HeadTailProperties
<1>2. Len(q) \in Nat
  OBVIOUS
<1>3. \A i \in 1 .. Len(Tail(q)) : Tail(q)[i] \in Range(q)
  BY <1>1, <1>2, Holdings
<1>4. \A x \in Range(Tail(q)) : \E i \in 1 .. Len(Tail(q)) : Tail(q)[i] = x
  BY <1>1, Holdings
<1>5. Range(Tail(q)) \subseteq Range(q)
  BY <1>3, <1>4
<1> QED
  BY <1>1, <1>5

(* The same, place by place; and what an append leaves where it was.        *)
LEMMA TailOf ==
  ASSUME NEW S, NEW q \in Seq(S), q # <<>>
  PROVE  /\ Tail(q) \in Seq(S) /\ Len(q) \in Nat \ {0} /\ Len(Tail(q)) = Len(q) - 1
         /\ Head(q) = q[1] /\ Head(q) \in S
         /\ \A i \in 1 .. Len(Tail(q)) : Tail(q)[i] = q[i + 1] /\ i + 1 \in 2 .. Len(q)
<1>1. /\ Head(q) \in S /\ Tail(q) \in Seq(S) /\ Len(Tail(q)) = Len(q) - 1
      /\ \A i \in 1 .. Len(Tail(q)) : Tail(q)[i] = q[i + 1]
      /\ Len(q) \in Nat \ {0}
  BY HeadTailProperties, EmptySeq
<1> QED
  BY <1>1

LEMMA AppendOf ==
  ASSUME NEW S, NEW q \in Seq(S), NEW e \in S
  PROVE  /\ Append(q, e) \in Seq(S) /\ Len(q) \in Nat /\ Len(Append(q, e)) = Len(q) + 1
         /\ \A i \in 1 .. Len(q) : Append(q, e)[i] = q[i]
         /\ Append(q, e)[Len(q) + 1] = e
         /\ \A i \in 1 .. Len(Append(q, e)) : i \in 1 .. Len(q) \/ i = Len(q) + 1
<1>1. /\ Append(q, e) \in Seq(S) /\ Len(q) \in Nat /\ Len(Append(q, e)) = Len(q) + 1
      /\ \A i \in 1 .. Len(q) : Append(q, e)[i] = q[i]
      /\ Append(q, e)[Len(q) + 1] = e
  BY AppendProperties, LenProperties
<1> QED
  BY <1>1

(* A removal closes the gap.                                                *)
LEMMA Removal ==
  ASSUME NEW S, NEW q \in Seq(S), NEW i \in 1 .. Len(q)
  PROVE  /\ RemoveAt(q, i) \in Seq(S) /\ Len(q) \in Nat /\ Len(RemoveAt(q, i)) = Len(q) - 1
         /\ \A j \in 1 .. Len(RemoveAt(q, i)) :
              /\ RemoveAt(q, i)[j] = q[IF j < i THEN j ELSE j + 1]
              /\ (IF j < i THEN j ELSE j + 1) \in 1 .. Len(q) \ {i}
<1> DEFINE before == SubSeq(q, 1, i - 1)
           behind == SubSeq(q, i + 1, Len(q))
<1>0. Len(q) \in Nat /\ \A j \in 1 .. Len(q) : q[j] \in S
  BY LenProperties, ElementOfSeq
<1>1. /\ before \in Seq(S) /\ Len(before) = i - 1
      /\ \A j \in 1 .. i - 1 : before[j] = q[j]
  OBVIOUS
<1>2. /\ behind \in Seq(S) /\ Len(behind) = Len(q) - i
      /\ \A j \in 1 .. Len(q) - i : behind[j] = q[i + j]
  OBVIOUS
<1>3. RemoveAt(q, i) = before \o behind
  BY DEF RemoveAt
<1> HIDE DEF before, behind
<1>4. /\ before \o behind \in Seq(S)
      /\ Len(before \o behind) = Len(before) + Len(behind)
      /\ \A j \in 1 .. Len(before) + Len(behind) :
           (before \o behind)[j] = IF j <= Len(before) THEN before[j] ELSE behind[j - Len(before)]
  BY <1>1, <1>2, ConcatProperties
<1>5. Len(before) + Len(behind) = Len(q) - 1
  BY <1>0, <1>1, <1>2
<1>6. ASSUME NEW j \in 1 .. Len(q) - 1
      PROVE  /\ (before \o behind)[j] = q[IF j < i THEN j ELSE j + 1]
             /\ (IF j < i THEN j ELSE j + 1) \in 1 .. Len(q) \ {i}
  <2>1. CASE j < i
    <3>1. j \in 1 .. i - 1 /\ j <= i - 1
      BY <1>0, <2>1
    <3> QED
      BY <1>0, <1>1, <1>4, <1>5, <2>1, <3>1
  <2>2. CASE ~(j < i)
    <3>1. /\ ~(j <= i - 1) /\ j - (i - 1) \in 1 .. Len(q) - i /\ i + (j - (i - 1)) = j + 1
          /\ j + 1 \in 1 .. Len(q) \ {i}
      BY <1>0, <2>2
    <3>2. (before \o behind)[j] = behind[j - (i - 1)]
      BY <1>0, <1>1, <1>4, <1>5, <3>1
    <3>3. behind[j - (i - 1)] = q[j + 1]
      BY <1>2, <3>1
    <3> QED
      BY <2>2, <3>1, <3>2, <3>3
  <2> QED
    BY <2>1, <2>2
<1> QED
  BY <1>0, <1>3, <1>4, <1>5, <1>6
=============================================================================
