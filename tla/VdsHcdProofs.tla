---------------------------- MODULE VdsHcdProofs ----------------------------
(***************************************************************************)
(* Theorems about VdsHcd, for every value of its constants.                *)
(***************************************************************************)
EXTENDS VdsHcd, FiniteSetTheorems, SequenceTheorems, WellFoundedInduction,
        TLAPS

-----------------------------------------------------------------------------
(* Lists of contexts.                                                       *)

(* A nonempty set of positions has a first one: the initial segments up to  *)
(* its members are finite sets, and strict inclusion is well-founded there. *)
LEMMA FirstPosition ==
  ASSUME NEW P, P \subseteq Nat, P # {}
  PROVE  \E i \in P : \A j \in P : i <= j
<1> DEFINE upto == {1 .. i : i \in P}
<1>1. upto # {}
  OBVIOUS
<1>2. upto \subseteq FiniteSubsetsOf(Nat)
  <2> SUFFICES ASSUME NEW i \in P PROVE 1 .. i \in FiniteSubsetsOf(Nat)
    OBVIOUS
  <2>1. i \in Nat /\ IsFiniteSet(1 .. i)
    BY FS_Interval
  <2> QED
    BY <2>1 DEF FiniteSubsetsOf
<1>3. PICK I \in upto : \A J \in upto : ~(<<J, I>> \in StrictSubsetOrdering(Nat))
  <2>1. IsWellFoundedOn(StrictSubsetOrdering(Nat), FiniteSubsetsOf(Nat))
    BY FS_StrictSubsetOrderingWellFounded
  <2> HIDE DEF upto
  <2> QED
    BY <1>1, <1>2, <2>1, WFMin
<1>4. PICK i \in P : I = 1 .. i
  OBVIOUS
<1>5. ASSUME NEW j \in P, j < i PROVE FALSE
  <2>1. 1 .. j \in upto
    OBVIOUS
  <2>2. 1 .. j \subseteq 1 .. i /\ i \in 1 .. i /\ i \notin 1 .. j
    BY <1>5
  <2>3. <<1 .. j, 1 .. i>> \in StrictSubsetOrdering(Nat)
    BY <2>2, <1>2, <2>1, <1>4 DEF StrictSubsetOrdering, FiniteSubsetsOf
  <2> QED
    BY <1>3, <1>4, <2>1, <2>3
<1>6. \A j \in P : i <= j
  BY <1>5
<1> QED
  BY <1>6

(* The giveback position lies in the queue or just behind it.               *)
LEMMA InsertIndexBounds ==
  ASSUME NEW q \in Seq(Urbs), NEW t
  PROVE  InsertIndex(q, t) \in 1 .. Len(q) + 1
<1> DEFINE behind == {i \in DOMAIN q : ready[q[i]] # 0 /\ (t = 0 \/ ready[q[i]] > t)}
<1>1. CASE behind = {}
  BY <1>1 DEF InsertIndex
<1>2. CASE behind # {}
  <2>1. behind \subseteq Nat
    OBVIOUS
  <2>2. \E i \in behind : \A j \in behind : i <= j
    BY <1>2, <2>1, FirstPosition
  <2>3. InsertIndex(q, t) \in behind
    BY <1>2, <2>2 DEF InsertIndex
  <2> QED
    BY <2>3
<1> QED
  BY <1>1, <1>2

LEMMA ToSetMembers ==
  ASSUME NEW l \in Seq(Urbs), NEW x
  PROVE  x \in ToSet(l) <=> \E i \in 1 .. Len(l) : l[i] = x
<1>1. DOMAIN l = 1 .. Len(l)
  OBVIOUS
<1> QED
  BY <1>1, Zenon DEF ToSet

LEMMA MembersOfList ==
  ASSUME NEW l \in Seq(Urbs)
  PROVE  ToSet(l) \subseteq Urbs
<1>1. \A i \in DOMAIN l : l[i] \in Urbs
  OBVIOUS
<1> QED
  BY <1>1, Zenon DEF ToSet

LEMMA InjectiveList ==
  ASSUME NEW l \in Seq(Urbs)
  PROVE  IsInjective(l) <=> \A i, j \in 1 .. Len(l) : l[i] = l[j] => i = j
<1>1. DOMAIN l = 1 .. Len(l)
  OBVIOUS
<1> QED
  BY <1>1, Zenon DEF IsInjective

(* What taking a context off a list leaves.                                 *)
LEMMA UnlistedProperties ==
  ASSUME NEW l \in Seq(Urbs), NEW u
  PROVE  /\ Unlisted(l, u) \in Seq(Urbs)
         /\ IsInjective(l) => /\ IsInjective(Unlisted(l, u))
                              /\ ToSet(Unlisted(l, u)) = ToSet(l) \ {u}
<1>1. CASE \E i \in DOMAIN l : l[i] = u
  <2> DEFINE k == CHOOSE i \in DOMAIN l : l[i] = u
             m == Unlisted(l, u)
  <2>1. k \in 1 .. Len(l) /\ l[k] = u
    BY <1>1
  <2>2. m = SubSeq(l, 1, k - 1) \o SubSeq(l, k + 1, Len(l))
    BY <1>1 DEF Unlisted, RemoveAt
  <2> HIDE DEF k, m
  <2>3. /\ m \in Seq(Urbs) /\ Len(m) = Len(l) - 1
        /\ \A i \in 1 .. Len(m) : m[i] = IF i < k THEN l[i] ELSE l[i + 1]
    <3> DEFINE a == SubSeq(l, 1, k - 1)  b == SubSeq(l, k + 1, Len(l))
    <3>1. /\ a \in Seq(Urbs) /\ Len(a) = k - 1
          /\ \A i \in 1 .. k - 1 : a[i] = l[i]
      BY <2>1
    <3>2. /\ b \in Seq(Urbs) /\ Len(b) = Len(l) - k
          /\ \A i \in 1 .. Len(l) - k : b[i] = l[k + i]
      BY <2>1
    <3> HIDE DEF a, b
    <3>3. m = a \o b
      BY <2>2 DEF a, b
    <3>4. /\ m \in Seq(Urbs) /\ Len(m) = Len(a) + Len(b)
          /\ \A i \in 1 .. Len(a) + Len(b) :
               m[i] = IF i <= Len(a) THEN a[i] ELSE b[i - Len(a)]
      BY <3>1, <3>2, <3>3, ConcatProperties
    <3>5. ASSUME NEW i \in 1 .. Len(m)
          PROVE  m[i] = IF i < k THEN l[i] ELSE l[i + 1]
      <4>1. CASE i < k
        BY <2>1, <3>1, <3>4, <4>1
      <4>2. CASE i >= k
        <5>1. i - Len(a) \in 1 .. Len(l) - k /\ k + (i - Len(a)) = i + 1
          BY <2>1, <3>1, <3>2, <3>4, <4>2
        <5>2. m[i] = b[i - Len(a)]
          BY <2>1, <3>1, <3>4, <4>2
        <5>3. b[i - Len(a)] = l[k + (i - Len(a))]
          BY <3>2, <5>1
        <5>4. m[i] = l[i + 1] /\ ~(i < k)
          BY <2>1, <4>2, <5>1, <5>2, <5>3
        <5> QED
          BY <5>4
      <4> QED
        BY <2>1, <4>1, <4>2
    <3> QED
      BY <2>1, <3>1, <3>2, <3>4, <3>5
  <2>4. ASSUME IsInjective(l) PROVE IsInjective(m)
    <3>1. \A i, j \in 1 .. Len(l) : l[i] = l[j] => i = j
      BY <2>4, InjectiveList
    <3>2. \A i, j \in 1 .. Len(m) : m[i] = m[j] => i = j
      BY <2>1, <2>3, <3>1
    <3> QED
      BY <2>3, <3>2, InjectiveList
  <2>5. ASSUME IsInjective(l), NEW x PROVE x \in ToSet(m) <=> x \in ToSet(l) \ {u}
    <3>1. \A i, j \in 1 .. Len(l) : l[i] = l[j] => i = j
      BY <2>5, InjectiveList
    <3>2. ASSUME NEW i \in 1 .. Len(m), m[i] = x
          PROVE  x # u /\ \E j \in 1 .. Len(l) : l[j] = x
      <4> DEFINE j == IF i < k THEN i ELSE i + 1
      <4>1. j \in 1 .. Len(l) /\ j # k /\ l[j] = x
        BY <2>1, <2>3, <3>2
      <4> HIDE DEF j
      <4> QED
        BY <2>1, <3>1, <4>1
    <3>3. ASSUME NEW i \in 1 .. Len(l), l[i] = x, x # u
          PROVE  \E j \in 1 .. Len(m) : m[j] = x
      <4>1. CASE i < k
        <5>1. i \in 1 .. Len(m) /\ m[i] = x
          BY <2>1, <2>3, <3>3, <4>1
        <5> QED
          BY <5>1
      <4>2. CASE i > k
        <5>1. i - 1 \in 1 .. Len(m) /\ m[i - 1] = x
          BY <2>1, <2>3, <3>3, <4>2
        <5> QED
          BY <5>1
      <4> QED
        BY <2>1, <3>3, <4>1, <4>2
    <3> QED
      BY <2>3, <3>2, <3>3, ToSetMembers
  <2> QED
    BY <2>3, <2>4, <2>5 DEF m
<1>2. CASE ~ \E i \in DOMAIN l : l[i] = u
  <2>1. Unlisted(l, u) = l
    BY <1>2 DEF Unlisted
  <2>2. u \notin ToSet(l)
    BY <1>2 DEF ToSet
  <2> QED
    BY <2>1, <2>2
<1> QED
  BY <1>1, <1>2

(* What a concatenation holds.                                              *)
LEMMA ConcatHolds ==
  ASSUME NEW l \in Seq(Urbs), NEW m \in Seq(Urbs)
  PROVE  /\ l \o m \in Seq(Urbs)
         /\ ToSet(l \o m) = ToSet(l) \cup ToSet(m)
         /\ IsInjective(l) /\ IsInjective(m) /\ ToSet(l) \cap ToSet(m) = {}
              => IsInjective(l \o m)
<1> DEFINE c == l \o m
<1>1. /\ Len(c) = Len(l) + Len(m) /\ c \in Seq(Urbs)
      /\ \A i \in 1 .. Len(l) + Len(m) :
           c[i] = IF i <= Len(l) THEN l[i] ELSE m[i - Len(l)]
  BY ConcatProperties
<1> HIDE DEF c
<1>2. \A i \in 1 .. Len(c) :
        \/ i \in 1 .. Len(l) /\ c[i] = l[i]
        \/ i - Len(l) \in 1 .. Len(m) /\ c[i] = m[i - Len(l)]
  BY <1>1
<1>3. \A i \in 1 .. Len(l) : i \in 1 .. Len(c) /\ c[i] = l[i]
  BY <1>1
<1>4. ASSUME NEW i \in 1 .. Len(m)
      PROVE  Len(l) + i \in 1 .. Len(c) /\ c[Len(l) + i] = m[i]
  <2>1. Len(l) + i \in 1 .. Len(c) /\ ~(Len(l) + i <= Len(l))
        /\ (Len(l) + i) - Len(l) = i
    BY <1>1
  <2> QED
    BY <1>1, <2>1
<1>5. ASSUME NEW x PROVE x \in ToSet(c) <=> x \in ToSet(l) \cup ToSet(m)
  <2>1. x \in ToSet(c) => x \in ToSet(l) \cup ToSet(m)
    <3> SUFFICES ASSUME x \in ToSet(c) PROVE x \in ToSet(l) \cup ToSet(m)
      OBVIOUS
    <3>1. PICK i \in 1 .. Len(c) : c[i] = x
      BY <1>1, ToSetMembers
    <3> QED
      BY <1>2, <3>1, ToSetMembers
  <2>2. x \in ToSet(l) => x \in ToSet(c)
    BY <1>1, <1>3, ToSetMembers
  <2>3. x \in ToSet(m) => x \in ToSet(c)
    <3> SUFFICES ASSUME x \in ToSet(m) PROVE x \in ToSet(c)
      OBVIOUS
    <3>1. PICK i \in 1 .. Len(m) : m[i] = x
      BY ToSetMembers
    <3>2. Len(l) + i \in 1 .. Len(c) /\ c[Len(l) + i] = x
      BY <1>4, <3>1
    <3> QED
      BY <1>1, <3>2, ToSetMembers
  <2> QED
    BY <2>1, <2>2, <2>3
<1>6. ASSUME IsInjective(l), IsInjective(m), ToSet(l) \cap ToSet(m) = {}
      PROVE  IsInjective(c)
  <2>1. /\ \A i, j \in 1 .. Len(l) : l[i] = l[j] => i = j
        /\ \A i, j \in 1 .. Len(m) : m[i] = m[j] => i = j
    BY <1>6, InjectiveList
  <2>2. \A i \in 1 .. Len(l), j \in 1 .. Len(m) : l[i] # m[j]
    BY <1>6, ToSetMembers
  <2>3. ASSUME NEW i \in 1 .. Len(c), NEW j \in 1 .. Len(c), c[i] = c[j]
        PROVE  i = j
    <3>1. Len(l) \in Nat
      OBVIOUS
    <3> QED
      BY <1>2, <2>1, <2>2, <2>3, <3>1
  <2> QED
    BY <1>1, <2>3, InjectiveList
<1> QED
  BY <1>1, <1>5, <1>6 DEF c

(* A list cut in two anywhere still holds the same contexts.                *)
LEMMA CutHolds ==
  ASSUME NEW q \in Seq(Urbs), NEW k \in 1 .. Len(q) + 1
  PROVE  /\ SubSeq(q, 1, k - 1) \in Seq(Urbs)
         /\ SubSeq(q, k, Len(q)) \in Seq(Urbs)
         /\ ToSet(q) = ToSet(SubSeq(q, 1, k - 1)) \cup ToSet(SubSeq(q, k, Len(q)))
         /\ IsInjective(q) =>
              /\ IsInjective(SubSeq(q, 1, k - 1))
              /\ IsInjective(SubSeq(q, k, Len(q)))
              /\ ToSet(SubSeq(q, 1, k - 1)) \cap ToSet(SubSeq(q, k, Len(q))) = {}
<1> DEFINE a == SubSeq(q, 1, k - 1)  b == SubSeq(q, k, Len(q))
<1>1. /\ a \in Seq(Urbs) /\ Len(a) = k - 1
      /\ \A i \in 1 .. Len(a) : i \in 1 .. Len(q) /\ a[i] = q[i]
  OBVIOUS
<1>2. /\ b \in Seq(Urbs) /\ Len(b) = Len(q) - k + 1
      /\ \A i \in 1 .. Len(b) :
           (k - 1) + i \in 1 .. Len(q) /\ b[i] = q[(k - 1) + i]
  OBVIOUS
<1> HIDE DEF a, b
<1>3. \A i \in 1 .. Len(q) :
        \/ i \in 1 .. Len(a) /\ a[i] = q[i]
        \/ i - (k - 1) \in 1 .. Len(b) /\ b[i - (k - 1)] = q[i]
  <2> TAKE i \in 1 .. Len(q)
  <2>1. CASE i < k
    BY <1>1, <2>1
  <2>2. CASE i >= k
    <3>1. i - (k - 1) \in 1 .. Len(b) /\ (k - 1) + (i - (k - 1)) = i
      BY <1>2, <2>2
    <3> QED
      BY <1>2, <3>1
  <2> QED
    BY <2>1, <2>2
<1>4. ASSUME NEW x PROVE x \in ToSet(q) <=> x \in ToSet(a) \cup ToSet(b)
  <2>1. ASSUME x \in ToSet(q) PROVE x \in ToSet(a) \cup ToSet(b)
    <3>1. PICK i \in 1 .. Len(q) : q[i] = x
      BY <2>1, ToSetMembers
    <3> QED
      BY <1>1, <1>2, <1>3, <3>1, ToSetMembers
  <2>2. ASSUME x \in ToSet(a) PROVE x \in ToSet(q)
    BY <1>1, <2>2, ToSetMembers
  <2>3. ASSUME x \in ToSet(b) PROVE x \in ToSet(q)
    <3>1. PICK i \in 1 .. Len(b) : b[i] = x
      BY <1>2, <2>3, ToSetMembers
    <3> QED
      BY <1>2, <3>1, ToSetMembers
  <2> QED
    BY <2>1, <2>2, <2>3
<1>5. ASSUME IsInjective(q)
      PROVE  IsInjective(a) /\ IsInjective(b) /\ ToSet(a) \cap ToSet(b) = {}
  <2>1. \A i, j \in 1 .. Len(q) : q[i] = q[j] => i = j
    BY <1>5, InjectiveList
  <2>2. \A i, j \in 1 .. Len(a) : a[i] = a[j] => i = j
    BY <1>1, <2>1
  <2>3. \A i, j \in 1 .. Len(b) : b[i] = b[j] => i = j
    <3> SUFFICES ASSUME NEW i \in 1 .. Len(b), NEW j \in 1 .. Len(b), b[i] = b[j]
                 PROVE  i = j
      OBVIOUS
    <3>1. (k - 1) + i = (k - 1) + j
      BY <1>2, <2>1
    <3> QED
      BY <1>2, <3>1
  <2>4. ASSUME NEW i \in 1 .. Len(a), NEW j \in 1 .. Len(b), a[i] = b[j]
        PROVE  FALSE
    <3>1. i = (k - 1) + j
      BY <1>1, <1>2, <2>1, <2>4
    <3> QED
      BY <1>1, <1>2, <3>1
  <2>5. ToSet(a) \cap ToSet(b) = {}
    <3> SUFFICES ASSUME NEW x \in ToSet(a), x \in ToSet(b) PROVE FALSE
      OBVIOUS
    <3>1. PICK i \in 1 .. Len(a) : a[i] = x
      BY <1>1, ToSetMembers
    <3>2. PICK j \in 1 .. Len(b) : b[j] = x
      BY <1>2, ToSetMembers
    <3> QED
      BY <2>4, <3>1, <3>2
  <2> QED
    BY <1>1, <1>2, <2>2, <2>3, <2>5, InjectiveList
<1> QED
  BY <1>1, <1>2, <1>4, <1>5 DEF a, b

(* The giveback queue after an insertion holds the old and the new contexts,*)
(* each once if they were apart.                                            *)
LEMMA InsertedProperties ==
  ASSUME NEW q \in Seq(Urbs), NEW l \in Seq(Urbs), NEW t
  PROVE  /\ Inserted(q, l, t) \in Seq(Urbs)
         /\ ToSet(Inserted(q, l, t)) = ToSet(q) \cup ToSet(l)
         /\ IsInjective(q) /\ IsInjective(l) /\ ToSet(q) \cap ToSet(l) = {}
              => IsInjective(Inserted(q, l, t))
<1> DEFINE k == InsertIndex(q, t)
           a == SubSeq(q, 1, k - 1)
           b == SubSeq(q, k, Len(q))
<1>1. k \in 1 .. Len(q) + 1
  BY InsertIndexBounds
<1> HIDE DEF k
<1>2. /\ a \in Seq(Urbs) /\ b \in Seq(Urbs) /\ ToSet(q) = ToSet(a) \cup ToSet(b)
      /\ IsInjective(q) =>
           IsInjective(a) /\ IsInjective(b) /\ ToSet(a) \cap ToSet(b) = {}
  BY <1>1, CutHolds
<1>3. Inserted(q, l, t) = (a \o l) \o b
  BY DEF Inserted, k
<1> HIDE DEF a, b
<1>4. /\ a \o l \in Seq(Urbs) /\ ToSet(a \o l) = ToSet(a) \cup ToSet(l)
      /\ IsInjective(a) /\ IsInjective(l) /\ ToSet(a) \cap ToSet(l) = {}
           => IsInjective(a \o l)
  BY <1>2, ConcatHolds
<1>5. /\ (a \o l) \o b \in Seq(Urbs)
      /\ ToSet((a \o l) \o b) = ToSet(a \o l) \cup ToSet(b)
      /\ IsInjective(a \o l) /\ IsInjective(b) /\ ToSet(a \o l) \cap ToSet(b) = {}
           => IsInjective((a \o l) \o b)
  BY <1>2, <1>4, ConcatHolds
<1> QED
  BY <1>2, <1>3, <1>4, <1>5, Zenon

LEMMA SingletonHolds ==
  ASSUME NEW u \in Urbs
  PROVE  <<u>> \in Seq(Urbs) /\ ToSet(<<u>>) = {u} /\ IsInjective(<<u>>)
<1>1. <<u>> \in Seq(Urbs) /\ Len(<<u>>) = 1 /\ <<u>>[1] = u
  OBVIOUS
<1> QED
  BY <1>1, ToSetMembers, InjectiveList

LEMMA AppendHolds ==
  ASSUME NEW l \in Seq(Urbs), NEW u \in Urbs
  PROVE  /\ Append(l, u) \in Seq(Urbs)
         /\ ToSet(Append(l, u)) = ToSet(l) \cup {u}
         /\ IsInjective(l) /\ u \notin ToSet(l) => IsInjective(Append(l, u))
<1>1. Append(l, u) = l \o <<u>>
  OBVIOUS
<1> DEFINE m == <<u>>
<1>2. m \in Seq(Urbs) /\ ToSet(m) = {u} /\ IsInjective(m)
  BY SingletonHolds
<1> HIDE DEF m
<1>3. /\ l \o m \in Seq(Urbs) /\ ToSet(l \o m) = ToSet(l) \cup ToSet(m)
      /\ IsInjective(l) /\ IsInjective(m) /\ ToSet(l) \cap ToSet(m) = {}
           => IsInjective(l \o m)
  BY <1>2, ConcatHolds
<1>4. Append(l, u) = l \o m
  BY <1>1 DEF m
<1> QED
  BY <1>2, <1>3, <1>4

LEMMA HeadTailHolds ==
  ASSUME NEW l \in Seq(Urbs), l # <<>>
  PROVE  /\ Head(l) \in ToSet(l) /\ Head(l) \in Urbs /\ Tail(l) \in Seq(Urbs)
         /\ IsInjective(l) => /\ IsInjective(Tail(l))
                              /\ ToSet(Tail(l)) = ToSet(l) \ {Head(l)}
<1>1. /\ Len(l) \in Nat \ {0} /\ Head(l) = l[1] /\ Tail(l) \in Seq(Urbs)
      /\ Head(l) \in Urbs
  OBVIOUS
<1>2. Tail(l) = SubSeq(l, 2, Len(l))
  BY <1>1, TailIsSubSeq
<1> DEFINE h == SubSeq(l, 1, 2 - 1)
<1>3. h \in Seq(Urbs) /\ Len(h) = 1 /\ h[1] = Head(l)
  BY <1>1
<1>4. 2 \in 1 .. Len(l) + 1
  BY <1>1
<1>5. /\ ToSet(l) = ToSet(h) \cup ToSet(SubSeq(l, 2, Len(l)))
      /\ IsInjective(l) => /\ IsInjective(SubSeq(l, 2, Len(l)))
                           /\ ToSet(h) \cap ToSet(SubSeq(l, 2, Len(l))) = {}
  BY <1>4, CutHolds
<1> HIDE DEF h
<1>6. ToSet(h) = {Head(l)}
  BY <1>3, ToSetMembers
<1> QED
  BY <1>1, <1>2, <1>5, <1>6

(* A list made of the members of a set, in whatever order.                  *)
LEMMA InOrderHolds ==
  ASSUME NEW S \in SUBSET Urbs, NEW l, NEW m \in InOrder(S, l)
  PROVE  m \in Seq(Urbs) /\ ToSet(m) = S /\ IsInjective(m)
<1> DEFINE n == Cardinality(S)
<1>1. IsFiniteSet(S) /\ n \in Nat
  BY HcdAssumption, FS_Subset, FS_CardinalityType
<1>2. m \in [1 .. n -> S] /\ \A i, j \in 1 .. n : i # j => m[i] # m[j]
  BY DEF InOrder, SetToSeqs
<1>3. IsFiniteSet(1 .. n) /\ Cardinality(1 .. n) = n
  BY <1>1, FS_Interval
<1>4. DOMAIN m = 1 .. n /\ IsInjective(m)
  BY <1>2 DEF IsInjective
<1>5. m \in Injection(1 .. n, S)
  BY <1>2, <1>4 DEF Injection
<1>6. m \in Surjection(1 .. n, S)
  BY <1>1, <1>3, <1>5, FS_Injection
<1>7. ToSet(m) = S
  BY <1>2, <1>4, <1>6 DEF ToSet, Surjection
<1>8. m \in Seq(Urbs)
  BY <1>1, <1>2
<1> QED
  BY <1>4, <1>7, <1>8

-----------------------------------------------------------------------------
(* Type correctness.                                                        *)

(* What queueing contexts for giveback does to the variables it changes.    *)
LEMMA QueueGivebackType ==
  ASSUME TypeOK, NEW l \in Seq(Urbs), NEW st \in Statuses, NEW t,
         QueueGiveback(l, st, t)
  PROVE  /\ completed_urbs' \in Seq(Urbs)
         /\ state' \in [Urbs -> CtxStates] /\ status' \in [Urbs -> Statuses]
<1>1. completed_urbs' \in Seq(Urbs)
  BY InsertedProperties DEF TypeOK, CtxType, ListType, QueueGiveback
<1>2. state' \in [Urbs -> CtxStates] /\ status' \in [Urbs -> Statuses]
  BY DEF TypeOK, CtxType, ListType, QueueGiveback, CtxStates
<1> QED
  BY <1>1, <1>2

LEMMA UnlistPendingType ==
  ASSUME TypeOK, NEW u, UnlistPending(u)
  PROVE  pending_hid_in' \in Seq(Urbs) /\ pending_feature_get' \in Seq(Urbs)
BY UnlistedProperties DEF TypeOK, ListType, UnlistPending

LEMMA CancelPendingType ==
  ASSUME TypeOK, CancelPending
  PROVE  /\ completed_urbs' \in Seq(Urbs)
         /\ state' \in [Urbs -> CtxStates] /\ status' \in [Urbs -> Statuses]
         /\ pending_hid_in' \in Seq(Urbs) /\ pending_feature_get' \in Seq(Urbs)
<1>1. pending_hid_in \o pending_feature_get \in Seq(Urbs)
  BY DEF TypeOK, ListType
<1>2. "SHUTDOWN" \in Statuses
  BY DEF Statuses
<1>3. QueueGiveback(pending_hid_in \o pending_feature_get, "SHUTDOWN", 0)
  BY DEF CancelPending
<1>4. /\ completed_urbs' \in Seq(Urbs)
      /\ state' \in [Urbs -> CtxStates] /\ status' \in [Urbs -> Statuses]
  BY <1>1, <1>2, <1>3, QueueGivebackType
<1> QED
  BY <1>4 DEF CancelPending

LEMMA FrameInFrames ==
  ASSUME NEW ty \in FrameTypes, NEW a \in Args, ty = "FEATURE_GET" => a \in Reports
  PROVE  Frame(ty, a) \in Frames
BY DEF Frame, Frames, FrameTypes

LEMMA ArgsOfType ==
  ASSUME NEW k, NEW a \in ArgsOf(k)
  PROVE  /\ a \in Args
         /\ k = "get_feature" => a \in Reports
         /\ k \in {"set_config", "set_interface"} => a \in BOOLEAN
BY Zenon DEF ArgsOf, Args

(* The steps of a submitting thread, and an unlink.                         *)
LEMMA SubmitStepType ==
  ASSUME TypeOK, NEW u \in Urbs, SubmitStep(u) \/ Dequeue(u)
  PROVE  TypeOK'
<1> USE HcdAssumption DEF TypeOK, ctxVars, submitVars, coreVars, listVars,
       nextVars, portVars, usbVars, gbVars, hubVars, userVars
<1>1. ASSUME AnswerControl(u) PROVE TypeOK'
  <2>1. (CtxType /\ CoreType /\ ListType /\ FrameType /\ TimeType /\ PortType /\
     UsbType /\ GbType /\ EnvType)'
    BY <1>1 DEF AnswerControl, CtxType, CoreType, ListType, FrameType, TimeType,
       PortType, UsbType, GbType, EnvType
  <2>2. SubmitType'
    BY <1>1 DEF AnswerControl, SubmitType, GoTo, Answer, FitsKind, SubmitPcs,
       Statuses
  <2> QED
    BY <2>1, <2>2
<1>2. ASSUME LookupFeature(u) PROVE TypeOK'
  <2>1. (CtxType /\ CoreType /\ ListType /\ FrameType /\ TimeType /\ PortType /\
     UsbType /\ GbType /\ EnvType)'
    BY <1>2 DEF LookupFeature, CtxType, CoreType, ListType, FrameType, TimeType,
       PortType, UsbType, GbType, EnvType
  <2>2. SubmitType'
    BY <1>2 DEF LookupFeature, SubmitType, GoTo, Answer, FitsKind, SubmitPcs,
       Statuses
  <2> QED
    BY <2>1, <2>2
<1>3. ASSUME DeferFeature(u) PROVE TypeOK'
  <2>1. (CoreType /\ FrameType /\ TimeType /\ PortType /\ UsbType /\ GbType /\
     EnvType)'
    <3>1. CoreType'
      BY <1>3 DEF DeferFeature, Waits, CoreType
    <3> QED
      BY <1>3, <3>1 DEF DeferFeature, FrameType, TimeType, PortType, UsbType,
         GbType, EnvType
  <2>2. CtxType'
    BY <1>3 DEF DeferFeature, Waits, CtxType, CtxStates
  <2>3. SubmitType'
    BY <1>3 DEF DeferFeature, SubmitType, GoTo, Answer, FitsKind, SubmitPcs,
       Statuses, At
  <2>4. ListType'
    <3>1. /\ UNCHANGED <<pending_hid_in, completed_urbs>>
          /\ pending_feature_get' \in {pending_feature_get, Append(pending_feature_get, u)}
      BY <1>3 DEF DeferFeature
    <3>2. Append(pending_feature_get, u) \in Seq(Urbs)
      BY AppendProperties DEF ListType
    <3> QED
      BY <3>1, <3>2 DEF ListType
  <2> QED
    BY <2>1, <2>2, <2>3, <2>4
<1>4. ASSUME RequestFeature(u) PROVE TypeOK'
  <2>1. (CtxType /\ CoreType /\ ListType /\ TimeType /\ PortType /\ UsbType /\
     GbType /\ EnvType)'
    BY <1>4 DEF RequestFeature, CtxType, CoreType, ListType, TimeType, PortType,
       UsbType, GbType, EnvType
  <2>2. SubmitType'
    BY <1>4 DEF RequestFeature, SubmitType, GoTo, Answer, FitsKind, SubmitPcs,
       Statuses, RequestFails
  <2>3. FrameType'
    <3>1. Frame("FEATURE_GET", arg[u]) \in Frames
      BY <1>4, FrameInFrames DEF SubmitType, FitsKind, RequestFeature, FrameTypes
    <3>2. Append(events, Frame("FEATURE_GET", arg[u])) \in Seq(Frames)
      BY <3>1, AppendProperties DEF FrameType
    <3>3. /\ events' \in {events, Append(events, Frame("FEATURE_GET", arg[u]))}
          /\ UNCHANGED input_packet
      BY <1>4 DEF RequestFeature
    <3> QED
      BY <3>2, <3>3 DEF FrameType
  <2> QED
    BY <2>1, <2>2, <2>3
<1>5. ASSUME SendOut(u) PROVE TypeOK'
  <2>1. (CtxType /\ CoreType /\ ListType /\ TimeType /\ PortType /\ UsbType /\
     GbType /\ EnvType)'
    BY <1>5 DEF SendOut, CtxType, CoreType, ListType, TimeType, PortType, UsbType,
       GbType, EnvType
  <2>2. SubmitType'
    BY <1>5 DEF SendOut, SubmitType, GoTo, Answer, FitsKind, SubmitPcs, Statuses
  <2>3. FrameType'
    <3>1. Frame("HID_OUT", NoArg) \in Frames /\ Frame("FEATURE_SET", NoArg) \in
       Frames
      BY <1>5, FrameInFrames DEF FrameTypes, Args
    <3> QED
      BY <1>5, <3>1 DEF SendOut, FrameType, EnqueueBestEffort
  <2> QED
    BY <2>1, <2>2, <2>3
<1>6. ASSUME SetConfiguration(u) PROVE TypeOK'
  <2>1. (CtxType /\ CoreType /\ ListType /\ FrameType /\ TimeType /\ PortType /\
     GbType /\ EnvType)'
    BY <1>6 DEF SetConfiguration, CtxType, CoreType, ListType, FrameType,
       TimeType, PortType, GbType, EnvType
  <2>2. SubmitType'
    BY <1>6 DEF SetConfiguration, SubmitType, GoTo, Answer, FitsKind, SubmitPcs,
       Statuses
  <2>3. UsbType'
    BY <1>6 DEF SetConfiguration, UsbType, SubmitType, FitsKind
  <2> QED
    BY <2>1, <2>2, <2>3
<1>7. ASSUME SetConfiguredStatus(u) PROVE TypeOK'
  <2>1. (CtxType /\ CoreType /\ ListType /\ FrameType /\ TimeType /\ UsbType /\
     GbType /\ EnvType)'
    BY <1>7 DEF SetConfiguredStatus, CtxType, CoreType, ListType, FrameType,
       TimeType, UsbType, GbType, EnvType
  <2>2. SubmitType'
    BY <1>7 DEF SetConfiguredStatus, SubmitType, GoTo, Answer, FitsKind,
       SubmitPcs, Statuses
  <2>3. PortType'
    BY <1>7 DEF SetConfiguredStatus, PortType, SetFlags, Flags
  <2> QED
    BY <2>1, <2>2, <2>3
<1>8. ASSUME SetInterface(u) PROVE TypeOK'
  <2>1. (CtxType /\ CoreType /\ ListType /\ FrameType /\ TimeType /\ PortType /\
     GbType /\ EnvType)'
    BY <1>8 DEF SetInterface, CtxType, CoreType, ListType, FrameType, TimeType,
       PortType, GbType, EnvType
  <2>2. SubmitType'
    BY <1>8 DEF SetInterface, SubmitType, GoTo, Answer, FitsKind, SubmitPcs,
       Statuses
  <2>3. UsbType'
    BY <1>8 DEF SetInterface, UsbType, SubmitType, FitsKind
  <2> QED
    BY <2>1, <2>2, <2>3
<1>9. ASSUME SetAudioStatus(u) PROVE TypeOK'
  <2>1. (CtxType /\ CoreType /\ ListType /\ FrameType /\ TimeType /\ UsbType /\
     GbType /\ EnvType)'
    BY <1>9 DEF SetAudioStatus, CtxType, CoreType, ListType, FrameType, TimeType,
       UsbType, GbType, EnvType
  <2>2. SubmitType'
    BY <1>9 DEF SetAudioStatus, SubmitType, GoTo, Answer, FitsKind, SubmitPcs,
       Statuses
  <2>3. PortType'
    BY <1>9 DEF SetAudioStatus, PortType, SetFlags, Flags
  <2> QED
    BY <2>1, <2>2, <2>3
<1>10. ASSUME SendInterfaceEvent(u) PROVE TypeOK'
  <2>1. (CtxType /\ CoreType /\ ListType /\ TimeType /\ PortType /\ UsbType /\
     GbType /\ EnvType)'
    BY <1>10 DEF SendInterfaceEvent, CtxType, CoreType, ListType, TimeType,
       PortType, UsbType, GbType, EnvType
  <2>2. SubmitType'
    BY <1>10 DEF SendInterfaceEvent, SubmitType, GoTo, Answer, FitsKind,
       SubmitPcs, Statuses
  <2>3. FrameType'
    <3>1. Frame("INTERFACE", arg[u]) \in Frames
      BY <1>10, FrameInFrames DEF SubmitType, FrameTypes
    <3> QED
      BY <1>10, <3>1 DEF SendInterfaceEvent, FrameType, EnqueueBestEffort
  <2> QED
    BY <2>1, <2>2, <2>3
<1>11. ASSUME TakeInput(u) PROVE TypeOK'
  <2>1. (PortType /\ UsbType /\ GbType /\ EnvType)'
    BY <1>11 DEF TakeInput, PortType, UsbType, GbType, EnvType
  <2>2. (CtxType /\ CoreType)'
    <3>1. relinked' \in BOOLEAN
      <4>1. relinked' = relinked \/ relinked' = (relinked \/ Queued(u))
        BY <1>11, Zenon DEF TakeInput, Waits
      <4> QED
        BY <4>1, Zenon DEF CoreType
    <3>2. UNCHANGED <<owned, unlinked, submits, status>>
      BY <1>11 DEF TakeInput
    <3>3. CoreType'
      BY <3>1, <3>2 DEF CoreType
    <3>4. /\ state' \in {state, [state EXCEPT ![u] = "PENDING_HID_IN"]}
          /\ \/ UNCHANGED ready
             \/ ready' = [ready EXCEPT ![u] = Laterof(next_hid_in_ready, now) + HidInterval]
      BY <1>11 DEF TakeInput, Waits
    <3> QED
      BY <3>2, <3>3, <3>4 DEF CtxType, CtxStates, TimeType, Laterof
  <2>3. SubmitType'
    BY <1>11 DEF TakeInput, SubmitType, GoTo, Answer, FitsKind, SubmitPcs, Statuses
  <2>4. ListType'
    <3>1. Append(pending_hid_in, u) \in Seq(Urbs)
      BY AppendHolds DEF ListType
    <3>2. \/ pending_hid_in' = pending_hid_in
          \/ pending_hid_in' = Append(pending_hid_in, u)
      BY <1>11 DEF TakeInput
    <3>3. UNCHANGED <<pending_feature_get, completed_urbs>>
      BY <1>11 DEF TakeInput
    <3> QED
      BY <3>1, <3>2, <3>3 DEF ListType
  <2>5. FrameType'
    BY <1>11 DEF TakeInput, FrameType, NoInput
  <2>6. TimeType'
    BY <1>11 DEF TakeInput, TimeType, Laterof
  <2> QED
    BY <2>1, <2>2, <2>3, <2>4, <2>5, <2>6
<1>12. ASSUME ScheduleIso(u) PROVE TypeOK'
  <2>1. (CoreType /\ ListType /\ FrameType /\ PortType /\ UsbType /\ GbType /\
     EnvType)'
    BY <1>12 DEF ScheduleIso, CoreType, ListType, FrameType, PortType, UsbType,
       GbType, EnvType
  <2>2. CtxType'
    BY <1>12 DEF ScheduleIso, CtxType, TimeType, Laterof
  <2>3. SubmitType'
    BY <1>12 DEF ScheduleIso, SubmitType, GoTo, Answer, FitsKind, SubmitPcs,
       Statuses
  <2>4. TimeType'
    BY <1>12 DEF ScheduleIso, TimeType, Laterof
  <2> QED
    BY <2>1, <2>2, <2>3, <2>4
<1>13. ASSUME QueueAnswer(u) PROVE TypeOK'
  <2>1. CtxType' /\ ListType'
    <3>1. CASE Queued(u)
      BY <1>13, <3>1 DEF QueueAnswer, CtxType, ListType
    <3>2. CASE ~Queued(u)
      <4>1. <<u>> \in Seq(Urbs) /\ ret[u] \in Statuses
        BY DEF SubmitType
      <4>2. QueueGiveback(<<u>>, ret[u], ready[u]) /\ UnlistPending(u) /\ ready' =
         ready
        BY <1>13, <3>2 DEF QueueAnswer
      <4>3. /\ completed_urbs' \in Seq(Urbs)
            /\ state' \in [Urbs -> CtxStates] /\ status' \in [Urbs -> Statuses]
        BY <4>1, <4>2, QueueGivebackType
      <4> QED
        BY <4>2, <4>3, UnlistPendingType DEF CtxType, ListType
    <3> QED
      BY <3>1, <3>2
  <2>2. SubmitType'
    BY <1>13 DEF QueueAnswer, SubmitType, GoTo, Answer, FitsKind, SubmitPcs,
       Statuses
  <2>3. (CoreType /\ FrameType /\ TimeType /\ PortType /\ UsbType /\ GbType /\
     EnvType)'
    <3>1. (CoreType /\ FrameType /\ TimeType)'
      BY <1>13 DEF QueueAnswer, CoreType, FrameType, TimeType
    <3>2. (PortType /\ UsbType /\ GbType /\ EnvType)'
      BY <1>13 DEF QueueAnswer, PortType, UsbType, GbType, EnvType
    <3> QED
      BY <3>1, <3>2
  <2> QED
    BY <2>1, <2>2, <2>3
<1>14. ASSUME Dequeue(u) PROVE TypeOK'
  <2>1. (SubmitType /\ CoreType /\ FrameType /\ TimeType /\ PortType /\ UsbType /\
     GbType
         /\ EnvType)'
    BY <1>14 DEF Dequeue, SubmitType, FitsKind, CoreType, FrameType, TimeType,
       PortType,
                UsbType, GbType, EnvType
  <2>2. CASE UnlinkQueued(u)
    <3>1. "UNLINKED" \in Statuses
      BY DEF Statuses
    <3>2. CtxType' /\ ListType'
      BY <2>2, <3>1 DEF UnlinkQueued, CtxType, ListType
    <3> QED
      BY <2>1, <3>2
  <2>3. CASE UnlinkWaiting(u)
    <3>1. <<u>> \in Seq(Urbs) /\ "UNLINKED" \in Statuses
      BY DEF Statuses
    <3>2. QueueGiveback(<<u>>, "UNLINKED", ready[u]) /\ UnlistPending(u) /\ ready'
       = ready
      BY <2>3 DEF UnlinkWaiting
    <3>3. /\ completed_urbs' \in Seq(Urbs)
          /\ state' \in [Urbs -> CtxStates] /\ status' \in [Urbs -> Statuses]
      BY <3>1, <3>2, QueueGivebackType
    <3>4. CtxType' /\ ListType'
      BY <3>2, <3>3, UnlistPendingType DEF CtxType, ListType
    <3> QED
      BY <2>1, <3>4
  <2> QED
    BY <1>14, <2>2, <2>3 DEF Dequeue
<1> QED
  BY <1>1, <1>2, <1>3, <1>4, <1>5, <1>6, <1>7, <1>8, <1>9, <1>10, <1>11, <1>12,
     <1>13, <1>14 DEF SubmitStep

(* The steps of the giveback thread.                                        *)
LEMMA GbStepType ==
  ASSUME TypeOK, GbStep
  PROVE  TypeOK'
<1> USE HcdAssumption DEF TypeOK, ctxVars, submitVars, coreVars, listVars,
       nextVars, portVars, usbVars, gbVars, hubVars, userVars
<1>1. ASSUME GbSleep PROVE TypeOK'
  <2>1. (CtxType /\ SubmitType /\ CoreType /\ ListType /\ FrameType /\ TimeType /\
     PortType /\ UsbType /\ EnvType)'
    BY <1>1 DEF GbSleep, CtxType, SubmitType, CoreType, ListType, FrameType,
       TimeType, PortType, UsbType, EnvType, FitsKind
  <2>2. GbType'
    BY <1>1, HeadTailHolds DEF GbSleep, GbType, CtxType, ListType
  <2> QED
    BY <2>1, <2>2
<1>2. ASSUME GbWake PROVE TypeOK'
  <2>1. (CtxType /\ SubmitType /\ CoreType /\ ListType /\ FrameType /\ TimeType /\
     PortType /\ UsbType /\ EnvType)'
    BY <1>2 DEF GbWake, CtxType, SubmitType, CoreType, ListType, FrameType,
       TimeType, PortType, UsbType, EnvType, FitsKind
  <2>2. GbType'
    BY <1>2 DEF GbWake, GbType
  <2> QED
    BY <2>1, <2>2
<1>3. ASSUME GbPop PROVE TypeOK'
  <2>1. (SubmitType /\ CoreType /\ FrameType /\ TimeType /\ PortType /\ UsbType /\
     EnvType)'
    BY <1>3 DEF GbPop, SubmitType, CoreType, FrameType, TimeType, PortType,
       UsbType, EnvType, FitsKind
  <2>2. CtxType'
    BY <1>3 DEF GbPop, CtxType, CtxStates
  <2>3. ListType'
    BY <1>3, HeadTailHolds DEF GbPop, ListType
  <2>4. GbType'
    BY <1>3, HeadTailHolds DEF GbPop, GbType, ListType
  <2> QED
    BY <2>1, <2>2, <2>3, <2>4
<1>4. ASSUME GbDeliver PROVE TypeOK'
  <2>1. (CtxType /\ SubmitType /\ CoreType /\ ListType /\ TimeType /\ PortType /\
     UsbType /\ EnvType)'
    BY <1>4 DEF GbDeliver, CtxType, SubmitType, CoreType, ListType, TimeType,
       PortType, UsbType, EnvType, FitsKind
  <2>2. GbType'
    BY <1>4 DEF GbDeliver, GbType
  <2>3. FrameType'
    <3>1. Frame("AUDIO_OUT", NoArg) \in Frames
      BY <1>4, FrameInFrames DEF FrameTypes, Args
    <3> QED
      BY <1>4, <3>1 DEF GbDeliver, FrameType, EnqueueBestEffort
  <2> QED
    BY <2>1, <2>2, <2>3
<1>5. ASSUME GbGiveback PROVE TypeOK'
  <2>1. (SubmitType /\ ListType /\ FrameType /\ TimeType /\ PortType /\ UsbType /\
     EnvType)'
    BY <1>5 DEF GbGiveback, SubmitType, ListType, FrameType, TimeType, PortType,
       UsbType, EnvType, FitsKind
  <2>2. CtxType'
    BY <1>5 DEF GbGiveback, CtxType, CtxStates, Statuses
  <2>3. CoreType'
    BY <1>5 DEF GbGiveback, CoreType, LeavesCore
  <2>4. GbType'
    BY <1>5 DEF GbGiveback, GbType
  <2> QED
    BY <2>1, <2>2, <2>3, <2>4
<1>6. ASSUME GbExit PROVE TypeOK'
  <2>1. (CtxType /\ SubmitType /\ CoreType /\ ListType /\ FrameType /\ TimeType /\
     PortType /\ UsbType /\ EnvType)'
    BY <1>6 DEF GbExit, CtxType, SubmitType, CoreType, ListType, FrameType,
       TimeType, PortType, UsbType, EnvType, FitsKind
  <2>2. GbType'
    BY <1>6 DEF GbExit, GbType
  <2> QED
    BY <2>1, <2>2
<1> QED
  BY <1>1, <1>2, <1>3, <1>4, <1>5, <1>6 DEF GbStep

(* The steps of the daemon and of the thread that closes its file.          *)
LEMMA UserStepType ==
  ASSUME TypeOK, Open \/ Read \/ WriteInput \/ Connect \/ Disconnect \/ SetProfile
         \/ Release \/ UserStep \/ CloserStep \/ \E r \in Reports :
            WriteFeatureReply(r)
  PROVE  TypeOK'
<1> USE HcdAssumption DEF TypeOK, ctxVars, submitVars, coreVars, listVars,
       nextVars, portVars, usbVars, gbVars, hubVars, userVars
<1>1. ASSUME Open PROVE TypeOK'
  <2>1. (CtxType /\ SubmitType /\ CoreType /\ ListType /\ FrameType /\ TimeType /\
     UsbType /\ GbType /\ EnvType)'
    BY <1>1 DEF Open, CtxType, SubmitType, CoreType, ListType, FrameType,
       TimeType, UsbType, GbType, EnvType, FitsKind
  <2>2. PortType'
    BY <1>1 DEF Open, PortType
  <2> QED
    BY <2>1, <2>2
<1>2. ASSUME Read PROVE TypeOK'
  <2>1. events' \in Seq(Frames) /\ Head(events) \in Frames
    BY <1>2 DEF Read, FrameType
  <2>2. requests' \subseteq Reports
    BY <1>2, <2>1 DEF Read, EnvType, Frames
  <2>3. FrameType' /\ EnvType'
    BY <1>2, <2>1, <2>2 DEF Read, FrameType, EnvType
  <2>4. (CtxType /\ SubmitType /\ CoreType /\ ListType /\ TimeType /\ PortType
         /\ UsbType /\ GbType)'
    BY <1>2 DEF Read, CtxType, SubmitType, FitsKind, CoreType, ListType, TimeType,
                PortType, UsbType, GbType
  <2> QED
    BY <2>3, <2>4
<1>3. ASSUME WriteInput PROVE TypeOK'
  <2>1. (SubmitType /\ CoreType /\ PortType /\ UsbType /\ GbType /\ EnvType)'
    BY <1>3 DEF WriteInput, SubmitType, FitsKind, CoreType, PortType, UsbType,
                GbType, EnvType
  <2>2. CASE InputAwaited
    <3> DEFINE u == Head(pending_hid_in)
               t == Laterof(next_hid_in_ready, now) + HidInterval
    <3>1. /\ next_hid_in_ready' = t /\ ready' = [ready EXCEPT ![u] = t]
          /\ QueueGiveback(<<u>>, "OK", t)
          /\ pending_hid_in' = Tail(pending_hid_in)
          /\ input_packet' = input_packet
          /\ UNCHANGED <<pending_feature_get, events, next_iso_out_ready,
                         next_iso_in_ready, now>>
      BY <1>3, <2>2 DEF WriteInput
    <3>2. t \in Nat
      BY DEF Laterof, TimeType
    <3>3. u \in Urbs /\ Tail(pending_hid_in) \in Seq(Urbs)
      BY <2>2, HeadTailHolds DEF InputAwaited, ListType
    <3> HIDE DEF t, u
    <3>4. <<u>> \in Seq(Urbs) /\ "OK" \in Statuses
      BY <3>3 DEF Statuses
    <3>5. /\ completed_urbs' \in Seq(Urbs)
          /\ state' \in [Urbs -> CtxStates] /\ status' \in [Urbs -> Statuses]
      BY <3>1, <3>4, QueueGivebackType
    <3> QED
      BY <2>1, <3>1, <3>2, <3>3, <3>5 DEF CtxType, ListType, FrameType, TimeType
  <2>3. CASE ~InputAwaited
    <3>1. (CtxType /\ ListType /\ FrameType /\ TimeType)'
      BY <1>3, <2>3 DEF WriteInput, CtxType, ListType, FrameType, TimeType, EnvType
    <3> QED
      BY <2>1, <3>1
  <2> QED
    BY <2>2, <2>3
<1>4. ASSUME NEW r \in Reports, WriteFeatureReply(r) PROVE TypeOK'
  <2>1. (CtxType /\ SubmitType /\ CoreType /\ ListType /\ FrameType /\ TimeType /\
     PortType /\ GbType)'
    BY <1>4 DEF WriteFeatureReply, CtxType, SubmitType, CoreType, ListType,
       FrameType, TimeType, PortType, GbType, FitsKind
  <2>2. UsbType'
    BY <1>4 DEF WriteFeatureReply, UsbType
  <2>3. EnvType'
    BY <1>4 DEF WriteFeatureReply, EnvType, UserPcs
  <2> QED
    BY <2>1, <2>2, <2>3
<1>5. ASSUME CompleteFeatureReplies PROVE TypeOK'
  <2>1. (SubmitType /\ CoreType /\ FrameType /\ TimeType /\ PortType /\ UsbType /\
     GbType)'
    BY <1>5 DEF CompleteFeatureReplies, SubmitType, FitsKind, CoreType, FrameType,
                TimeType, PortType, UsbType, GbType
  <2>2. EnvType'
    BY <1>5 DEF CompleteFeatureReplies, EnvType, UserPcs
  <2>3. CASE stopping
    BY <1>5, <2>1, <2>2, <2>3 DEF CompleteFeatureReplies, CtxType, ListType
  <2>4. CASE ~stopping
    <3> DEFINE waiting == ToSet(pending_feature_get)
               answered == {u \in waiting : arg[u] = replying}
    <3>1. PICK l \in InOrder(answered, pending_feature_get),
               rest \in InOrder(waiting \ answered, pending_feature_get) :
            /\ pending_feature_get' = rest
            /\ QueueGiveback(l, "OK", 0)
            /\ UNCHANGED <<ready, pending_hid_in>>
      BY <1>5, <2>4 DEF CompleteFeatureReplies
    <3>2. waiting \subseteq Urbs
      BY MembersOfList DEF ListType
    <3>3. l \in Seq(Urbs) /\ rest \in Seq(Urbs) /\ "OK" \in Statuses
      <4>1. answered \in SUBSET Urbs /\ waiting \ answered \in SUBSET Urbs
        BY <3>2
      <4> HIDE DEF answered, waiting
      <4> QED
        BY <4>1, InOrderHolds DEF Statuses
    <3>4. /\ completed_urbs' \in Seq(Urbs)
          /\ state' \in [Urbs -> CtxStates] /\ status' \in [Urbs -> Statuses]
      BY <3>1, <3>3, QueueGivebackType
    <3>5. CtxType' /\ ListType'
      BY <3>1, <3>3, <3>4 DEF CtxType, ListType
    <3> QED
      BY <2>1, <2>2, <3>5
  <2> QED
    BY <2>3, <2>4
<1>6. ASSUME Connect PROVE TypeOK'
  <2>1. (CtxType /\ SubmitType /\ CoreType /\ ListType /\ FrameType /\ TimeType /\
     UsbType /\ GbType /\ EnvType)'
    BY <1>6 DEF Connect, CtxType, SubmitType, CoreType, ListType, FrameType,
       TimeType, UsbType, GbType, EnvType, FitsKind
  <2>2. PortType'
    BY <1>6 DEF Connect, PortType, ConnectLocked, PortBits, Flags
  <2> QED
    BY <2>1, <2>2
<1>7. ASSUME Disconnect PROVE TypeOK'
  <2>1. (SubmitType /\ CoreType /\ UsbType /\ GbType)'
    BY <1>7 DEF Disconnect, SubmitType, CoreType, UsbType, GbType, FitsKind
  <2>2. CtxType'
    BY <1>7, CancelPendingType DEF Disconnect, CtxType, DisconnectLocked
  <2>3. ListType'
    BY <1>7, CancelPendingType DEF Disconnect, ListType, DisconnectLocked
  <2>4. FrameType'
    BY <1>7 DEF Disconnect, FrameType, DisconnectLocked, FlushBuffered, NoInput
  <2>5. TimeType'
    BY <1>7 DEF Disconnect, TimeType, DisconnectLocked
  <2>6. PortType'
    BY <1>7 DEF Disconnect, PortType, DisconnectLocked, PortAfterDisconnect,
       PortBits, Flags
  <2>7. EnvType'
    BY <1>7 DEF Disconnect, EnvType, UserPcs
  <2> QED
    BY <2>1, <2>2, <2>3, <2>4, <2>5, <2>6, <2>7
<1>8. ASSUME DisconnectReset PROVE TypeOK'
  <2>1. (CtxType /\ SubmitType /\ CoreType /\ ListType /\ FrameType /\ TimeType /\
     PortType /\ GbType)'
    BY <1>8 DEF DisconnectReset, CtxType, SubmitType, CoreType, ListType,
       FrameType, TimeType, PortType, GbType, FitsKind
  <2>2. UsbType'
    BY <1>8 DEF DisconnectReset, UsbType, ResetUsbState
  <2>3. EnvType'
    BY <1>8 DEF DisconnectReset, EnvType, UserPcs
  <2> QED
    BY <2>1, <2>2, <2>3
<1>9. ASSUME SetProfile PROVE TypeOK'
  <2>1. (CtxType /\ SubmitType /\ CoreType /\ ListType /\ FrameType /\ TimeType /\
     GbType /\ EnvType)'
    BY <1>9 DEF SetProfile, CtxType, SubmitType, CoreType, ListType, FrameType,
       TimeType, GbType, EnvType, FitsKind
  <2>2. UsbType'
    BY <1>9 DEF SetProfile, UsbType, ResetUsbState
  <2>3. PortType'
    BY <1>9 DEF SetProfile, PortType, SetFlags, Flags
  <2> QED
    BY <2>1, <2>2, <2>3
<1>10. ASSUME Release PROVE TypeOK'
  <2>1. (CtxType /\ SubmitType /\ CoreType /\ ListType /\ FrameType /\ TimeType /\
     UsbType /\ GbType)'
    BY <1>10 DEF Release, CtxType, SubmitType, CoreType, ListType, FrameType,
       TimeType, UsbType, GbType, FitsKind
  <2>2. PortType'
    BY <1>10 DEF Release, PortType
  <2>3. EnvType'
    BY <1>10 DEF Release, EnvType, CloserPcs
  <2> QED
    BY <2>1, <2>2, <2>3
<1>11. ASSUME ReleaseDisconnect PROVE TypeOK'
  <2>1. (SubmitType /\ CoreType /\ UsbType /\ GbType)'
    BY <1>11 DEF ReleaseDisconnect, SubmitType, FitsKind, CoreType, UsbType, GbType
  <2>2. EnvType'
    BY <1>11 DEF ReleaseDisconnect, EnvType, CloserPcs
  <2>3. CASE stopping
    BY <1>11, <2>1, <2>2, <2>3 DEF ReleaseDisconnect, CtxType, ListType, FrameType,
       TimeType, PortType
  <2>4. CASE ~stopping
    <3>1. DisconnectLocked /\ opened' = opened /\ now' = now
      BY <1>11, <2>4 DEF ReleaseDisconnect
    <3>2. (CtxType /\ ListType)'
      BY <3>1, CancelPendingType DEF DisconnectLocked, CtxType, ListType
    <3>3. (FrameType /\ TimeType /\ PortType)'
      BY <3>1 DEF DisconnectLocked, FlushBuffered, NoInput, PortAfterDisconnect,
         PortBits, Flags, FrameType, TimeType, PortType
    <3> QED
      BY <2>1, <2>2, <3>2, <3>3
  <2> QED
    BY <2>3, <2>4
<1>12. ASSUME ReleaseReset PROVE TypeOK'
  <2>1. (CtxType /\ SubmitType /\ CoreType /\ ListType /\ FrameType /\ TimeType /\
     PortType /\ GbType)'
    BY <1>12 DEF ReleaseReset, CtxType, SubmitType, CoreType, ListType, FrameType,
       TimeType, PortType, GbType, FitsKind
  <2>2. UsbType'
    BY <1>12 DEF ReleaseReset, UsbType, ResetUsbState
  <2>3. EnvType'
    BY <1>12 DEF ReleaseReset, EnvType, CloserPcs
  <2> QED
    BY <2>1, <2>2, <2>3
<1> QED
  BY <1>1, <1>2, <1>3, <1>4, <1>5, <1>6, <1>7, <1>8, <1>9, <1>10, <1>11, <1>12 DEF
     UserStep, CloserStep

(* The hub, the removal of the device and the clock.                        *)
LEMMA SystemStepType ==
  ASSUME TypeOK, HubRequest \/ HubAcknowledge \/ HubRead \/ Stop \/ StopThread \/
     Tick
  PROVE  TypeOK'
<1> USE HcdAssumption DEF TypeOK, ctxVars, submitVars, coreVars, listVars,
       nextVars, portVars, usbVars, gbVars, hubVars, userVars
<1>1. ASSUME HubRequest PROVE TypeOK'
  <2>1. (CtxType /\ SubmitType /\ CoreType /\ ListType /\ FrameType /\ TimeType /\
     UsbType /\ GbType /\ EnvType)'
    BY <1>1 DEF HubRequest, CtxType, SubmitType, CoreType, ListType, FrameType,
       TimeType, UsbType, GbType, EnvType, FitsKind
  <2>2. PortType'
    BY <1>1 DEF HubRequest, PortType, PortBits
  <2> QED
    BY <2>1, <2>2
<1>2. ASSUME HubAcknowledge PROVE TypeOK'
  <2>1. (CtxType /\ SubmitType /\ CoreType /\ ListType /\ FrameType /\ TimeType /\
     UsbType /\ GbType)'
    BY <1>2 DEF HubAcknowledge, CtxType, SubmitType, CoreType, ListType,
       FrameType, TimeType, UsbType, GbType, FitsKind
  <2>2. PortType'
    BY <1>2 DEF HubAcknowledge, PortType, PortBits
  <2>3. EnvType'
    BY <1>2 DEF HubAcknowledge, EnvType
  <2> QED
    BY <2>1, <2>2, <2>3
<1>3. ASSUME HubRead PROVE TypeOK'
  <2>1. hub_view' \in BOOLEAN /\ hub_reading' \in BOOLEAN
    <3>1. hub_view' = ("CONNECTION" \in port_status) /\ hub_reading' = FALSE
      BY <1>3 DEF HubRead
    <3>2. ("CONNECTION" \in port_status) = TRUE \/ ("CONNECTION" \in port_status)
       = FALSE
      OBVIOUS
    <3> QED
      BY <3>1, <3>2
  <2>2. EnvType'
    BY <1>3, <2>1 DEF HubRead, EnvType
  <2>3. (CtxType /\ SubmitType /\ CoreType /\ ListType /\ FrameType /\ TimeType /\
     PortType
         /\ UsbType /\ GbType)'
    BY <1>3 DEF HubRead, CtxType, SubmitType, FitsKind, CoreType, ListType,
       FrameType,
                TimeType, PortType, UsbType, GbType
  <2> QED
    BY <2>2, <2>3
<1>4. ASSUME Stop PROVE TypeOK'
  <2>1. (SubmitType /\ CoreType /\ TimeType /\ UsbType /\ GbType /\ EnvType)'
    BY <1>4 DEF Stop, SubmitType, CoreType, TimeType, UsbType, GbType, EnvType,
       FitsKind
  <2>2. CtxType'
    BY <1>4, CancelPendingType DEF Stop, CtxType
  <2>3. ListType'
    BY <1>4, CancelPendingType DEF Stop, ListType
  <2>4. FrameType'
    BY <1>4 DEF Stop, FrameType, FlushBuffered, NoInput
  <2>5. PortType'
    BY <1>4 DEF Stop, PortType
  <2> QED
    BY <2>1, <2>2, <2>3, <2>4, <2>5
<1>5. ASSUME StopThread PROVE TypeOK'
  <2>1. (CtxType /\ SubmitType /\ CoreType /\ ListType /\ FrameType /\ TimeType /\
     PortType /\ UsbType /\ EnvType)'
    BY <1>5 DEF StopThread, CtxType, SubmitType, CoreType, ListType, FrameType,
       TimeType, PortType, UsbType, EnvType, FitsKind
  <2>2. GbType'
    BY <1>5 DEF StopThread, GbType
  <2> QED
    BY <2>1, <2>2
<1>6. ASSUME Tick PROVE TypeOK'
  <2>1. (CtxType /\ SubmitType /\ CoreType /\ ListType /\ FrameType /\ PortType /\
     UsbType /\ GbType /\ EnvType)'
    BY <1>6 DEF Tick, CtxType, SubmitType, CoreType, ListType, FrameType,
       PortType, UsbType, GbType, EnvType, FitsKind
  <2>2. TimeType'
    BY <1>6 DEF Tick, TimeType
  <2> QED
    BY <2>1, <2>2
<1> QED
  BY <1>1, <1>2, <1>3, <1>4, <1>5, <1>6 DEF Next

LEMMA InitType == Init => TypeOK
<1> SUFFICES ASSUME Init PROVE TypeOK
  OBVIOUS
<1> USE HcdAssumption DEF Init
<1>1. CtxType /\ TimeType
  BY DEF CtxType, TimeType, CtxStates, Statuses
<1>6. CoreType
  <2>1. relinked \in BOOLEAN
    BY Zenon
  <2> QED
    BY <2>1 DEF CoreType
<1>2. SubmitType
  BY DEF SubmitType, FitsKind, SubmitPcs, Statuses, AllKinds, Args
<1>3. ListType /\ FrameType
  BY DEF ListType, FrameType, NoInput
<1>4. PortType /\ UsbType
  BY DEF PortType, UsbType, Flags, PortBits
<1>5. GbType /\ EnvType
  BY DEF GbType, EnvType, UserPcs, CloserPcs
<1> QED
  BY <1>1, <1>2, <1>3, <1>4, <1>5, <1>6 DEF TypeOK

(* A new submission.                                                       *)
LEMMA SubmitActionType ==
  ASSUME TypeOK, NEW u \in Urbs, NEW k \in Kinds, NEW a \in ArgsOf(k), Submit(u, k, a)
  PROVE  TypeOK'
<1> USE HcdAssumption DEF TypeOK, ctxVars, submitVars, coreVars, listVars,
       nextVars, portVars, usbVars, gbVars, hubVars, userVars
<1>1. /\ a \in Args /\ k \in AllKinds
      /\ k = "get_feature" => a \in Reports
      /\ k \in {"set_config", "set_interface"} => a \in BOOLEAN
  BY ArgsOfType
<1>2. SubmitType'
  BY <1>1 DEF Submit, SubmitType, FitsKind, GoTo, SubmitPcs
<1>3. CtxType' /\ CoreType'
  BY DEF Submit, CtxType, CtxStates, CoreType
<1>4. (ListType /\ FrameType /\ TimeType /\ PortType /\ UsbType /\ GbType /\ EnvType)'
  BY DEF Submit, ListType, FrameType, TimeType, PortType, UsbType, GbType, EnvType
<1> QED
  BY <1>2, <1>3, <1>4

LEMMA NextType == TypeOK /\ [Next]_vars => TypeOK'
<1> SUFFICES ASSUME TypeOK, [Next]_vars PROVE TypeOK'
  OBVIOUS
<1>1. ASSUME NEW u \in Urbs, NEW k \in Kinds, NEW a \in ArgsOf(k), Submit(u, k, a)
      PROVE  TypeOK'
  BY <1>1, SubmitActionType
<1>2. ASSUME NEW u \in Urbs, SubmitStep(u) \/ Dequeue(u) PROVE TypeOK'
  BY <1>2, SubmitStepType
<1>3. CASE GbStep
  BY <1>3, GbStepType
<1>4. CASE Open \/ Read \/ WriteInput \/ Connect \/ Disconnect \/ SetProfile \/ Release
           \/ UserStep \/ CloserStep \/ \E r \in Reports : WriteFeatureReply(r)
  BY <1>4, UserStepType
<1>5. CASE HubRequest \/ HubAcknowledge \/ HubRead \/ Stop \/ StopThread \/ Tick
  BY <1>5, SystemStepType
<1>6. CASE UNCHANGED vars
  BY <1>6 DEF vars, ctxVars, submitVars, coreVars, listVars, nextVars, portVars,
     usbVars, gbVars, hubVars, userVars, TypeOK, CtxType, SubmitType, FitsKind,
     CoreType, ListType, FrameType, TimeType, PortType, UsbType, GbType, EnvType
<1> QED
  BY <1>1, <1>2, <1>3, <1>4, <1>5, <1>6 DEF Next

(* Every variable of the host controller keeps its type, whatever the URBs, *)
(* reports, transfer kinds and surroundings.                                *)
THEOREM TypeCorrect == Spec => []TypeOK
BY InitType, NextType, PTL DEF Spec

-----------------------------------------------------------------------------
(* The lists.                                                               *)

LEMMA InitLists == Init => ListInv
<1> SUFFICES ASSUME Init PROVE ListInv
  OBVIOUS
<1>1. ToSet(<<>>) = {} /\ IsInjective(<<>>)
  BY DEF ToSet, IsInjective
<1>2. OneListEach
  BY <1>1 DEF Init, OneListEach, Lists, InHand
<1>3. SubmitterNotWaiting /\ UnlinkKept
  BY DEF Init, SubmitterNotWaiting, Submitting, UnlinkKept
<1> QED
  BY <1>2, <1>3 DEF ListInv

(* Contexts that leave the pending lists for the giveback queue.  Those in  *)
(* l leave; every submitting thread that may still queue its context was    *)
(* one before; what is newly unlinked is in l and gets that status.         *)
LEMMA MoveToGiveback ==
  ASSUME TypeOK, ListInv,
         NEW l \in Seq(Urbs), NEW st, NEW t, IsInjective(l),
         \A u \in ToSet(l) :
           state[u] \in {"ACTIVE", "PENDING_HID_IN", "PENDING_FEATURE_GET"},
         QueueGiveback(l, st, t),
         IsInjective(pending_hid_in'), IsInjective(pending_feature_get'),
         ToSet(pending_hid_in') = ToSet(pending_hid_in) \ ToSet(l),
         ToSet(pending_feature_get') = ToSet(pending_feature_get) \ ToSet(l),
         UNCHANGED <<owned, gb_pc, gb_urb>>,
         \A u \in Urbs : Submitting(u)' => Submitting(u),
         \A u \in unlinked' : u \in unlinked \/ (u \in ToSet(l) /\ st = "UNLINKED")
  PROVE  ListInv'
<1>0. ToSet(l) \subseteq Urbs
  BY MembersOfList
<1>1. state \in [Urbs -> CtxStates] /\ completed_urbs \in Seq(Urbs) /\ ToSet(l) \subseteq Urbs
      /\ unlinked \subseteq Urbs
  BY <1>0 DEF TypeOK, CtxType, CoreType, ListType
<1>2. /\ state' = [u \in Urbs |-> IF u \in ToSet(l) THEN "PENDING_GIVEBACK" ELSE state[u]]
      /\ status' = [u \in Urbs |-> IF u \in ToSet(l) THEN st ELSE status[u]]
      /\ completed_urbs' = Inserted(completed_urbs, l, t)
  BY DEF QueueGiveback
<1>3. /\ Lists(pending_hid_in, "PENDING_HID_IN")
      /\ Lists(pending_feature_get, "PENDING_FEATURE_GET")
      /\ Lists(completed_urbs, "PENDING_GIVEBACK")
      /\ \A u \in Urbs : state[u] = "GIVING_BACK" <=> InHand(u)
      /\ owned = {u \in Urbs : state[u] # "FREE"}
  BY DEF ListInv, OneListEach
<1>4. Lists(pending_hid_in, "PENDING_HID_IN")'
  BY <1>1, <1>2, <1>3 DEF Lists
<1>5. Lists(pending_feature_get, "PENDING_FEATURE_GET")'
  BY <1>1, <1>2, <1>3 DEF Lists
<1>6. Lists(completed_urbs, "PENDING_GIVEBACK")'
  <2>1. ToSet(completed_urbs) \cap ToSet(l) = {}
    BY <1>1, <1>3 DEF Lists
  <2>2. /\ ToSet(completed_urbs') = ToSet(completed_urbs) \cup ToSet(l)
        /\ IsInjective(completed_urbs')
    BY <1>1, <1>2, <1>3, <2>1, InsertedProperties DEF Lists
  <2> QED
    BY <1>1, <1>2, <1>3, <2>2 DEF Lists
<1>7. \A u \in Urbs : state'[u] = "GIVING_BACK" <=> InHand(u)'
  BY <1>1, <1>2, <1>3 DEF InHand
<1>8. owned' = {u \in Urbs : state'[u] # "FREE"}
  BY <1>1, <1>2, <1>3
<1>9. SubmitterNotWaiting'
  BY <1>1, <1>2 DEF ListInv, SubmitterNotWaiting
<1>10. UnlinkKept'
  <2> SUFFICES ASSUME NEW u \in unlinked' PROVE Queued(u)' /\ status'[u] = "UNLINKED"
    BY DEF UnlinkKept
  <2>1. CASE u \in ToSet(l)
    <3>1. u \notin unlinked
      BY <2>1 DEF ListInv, UnlinkKept, Queued
    <3> QED
      BY <1>1, <1>2, <2>1, <3>1 DEF Queued
  <2>2. CASE u \notin ToSet(l)
    <3>1. u \in Urbs /\ Queued(u) /\ status[u] = "UNLINKED"
      BY <1>1, <2>2 DEF ListInv, UnlinkKept
    <3> QED
      BY <1>2, <2>2, <3>1 DEF Queued
  <2> QED
    BY <2>1, <2>2
<1> QED
  BY <1>4, <1>5, <1>6, <1>7, <1>8, <1>9, <1>10 DEF ListInv, OneListEach

(* Steps that touch neither a list nor a context's state.                   *)
LEMMA ListsUntouched ==
  ASSUME TypeOK, ListInv, UNCHANGED <<state, status, owned, unlinked, listVars>>,
         \A u \in Urbs : InHand(u)' <=> InHand(u),
         \A u \in Urbs : Submitting(u)' => Submitting(u)
  PROVE  ListInv'
<1>1. OneListEach'
  BY DEF ListInv, OneListEach, Lists, listVars
<1>2. SubmitterNotWaiting'
  BY DEF ListInv, SubmitterNotWaiting
<1>3. UnlinkKept'
  BY DEF ListInv, UnlinkKept, Queued
<1> QED
  BY <1>1, <1>2, <1>3 DEF ListInv

(* The steps of a submitting thread that leave its context where it is.     *)
LEMMA SubmitStepLists ==
  ASSUME TypeOK, ListInv, NEW u \in Urbs,
         \/ AnswerControl(u) \/ LookupFeature(u) \/ RequestFeature(u) \/ SendOut(u)
         \/ SetConfiguration(u) \/ SetConfiguredStatus(u) \/ SetInterface(u)
         \/ SetAudioStatus(u) \/ SendInterfaceEvent(u) \/ ScheduleIso(u)
  PROVE  ListInv'
<1> USE DEF ctxVars, submitVars, coreVars, listVars, gbVars, TypeOK
<1>1. ASSUME AnswerControl(u) PROVE ListInv'
  <2>1. /\ UNCHANGED <<state, status, owned, unlinked, listVars>>
        /\ \A v \in Urbs : InHand(v)' <=> InHand(v)
    BY <1>1 DEF AnswerControl, InHand, SetFlags
  <2>2. \A v \in Urbs : Submitting(v)' => Submitting(v)
    BY <1>1 DEF AnswerControl, Submitting, SubmitType, GoTo, Answer, At, RequestFails
  <2> QED
    BY <2>1, <2>2, ListsUntouched
<1>2. ASSUME LookupFeature(u) PROVE ListInv'
  <2>1. /\ UNCHANGED <<state, status, owned, unlinked, listVars>>
        /\ \A v \in Urbs : InHand(v)' <=> InHand(v)
    BY <1>2 DEF LookupFeature, InHand, SetFlags
  <2>2. \A v \in Urbs : Submitting(v)' => Submitting(v)
    BY <1>2 DEF LookupFeature, Submitting, SubmitType, GoTo, Answer, At, RequestFails
  <2> QED
    BY <2>1, <2>2, ListsUntouched
<1>3. ASSUME RequestFeature(u) PROVE ListInv'
  <2>1. /\ UNCHANGED <<state, status, owned, unlinked, listVars>>
        /\ \A v \in Urbs : InHand(v)' <=> InHand(v)
    BY <1>3 DEF RequestFeature, InHand, SetFlags
  <2>2. \A v \in Urbs : Submitting(v)' => Submitting(v)
    BY <1>3 DEF RequestFeature, Submitting, SubmitType, GoTo, Answer, At, RequestFails
  <2> QED
    BY <2>1, <2>2, ListsUntouched
<1>4. ASSUME SendOut(u) PROVE ListInv'
  <2>1. /\ UNCHANGED <<state, status, owned, unlinked, listVars>>
        /\ \A v \in Urbs : InHand(v)' <=> InHand(v)
    BY <1>4 DEF SendOut, InHand, SetFlags
  <2>2. \A v \in Urbs : Submitting(v)' => Submitting(v)
    BY <1>4 DEF SendOut, Submitting, SubmitType, GoTo, Answer, At, RequestFails
  <2> QED
    BY <2>1, <2>2, ListsUntouched
<1>5. ASSUME SetConfiguration(u) PROVE ListInv'
  <2>1. /\ UNCHANGED <<state, status, owned, unlinked, listVars>>
        /\ \A v \in Urbs : InHand(v)' <=> InHand(v)
    BY <1>5 DEF SetConfiguration, InHand, SetFlags
  <2>2. \A v \in Urbs : Submitting(v)' => Submitting(v)
    BY <1>5 DEF SetConfiguration, Submitting, SubmitType, GoTo, Answer, At, RequestFails
  <2> QED
    BY <2>1, <2>2, ListsUntouched
<1>6. ASSUME SetConfiguredStatus(u) PROVE ListInv'
  <2>1. /\ UNCHANGED <<state, status, owned, unlinked, listVars>>
        /\ \A v \in Urbs : InHand(v)' <=> InHand(v)
    BY <1>6 DEF SetConfiguredStatus, InHand, SetFlags
  <2>2. \A v \in Urbs : Submitting(v)' => Submitting(v)
    BY <1>6 DEF SetConfiguredStatus, Submitting, SubmitType, GoTo, Answer, At, RequestFails
  <2> QED
    BY <2>1, <2>2, ListsUntouched
<1>7. ASSUME SetInterface(u) PROVE ListInv'
  <2>1. /\ UNCHANGED <<state, status, owned, unlinked, listVars>>
        /\ \A v \in Urbs : InHand(v)' <=> InHand(v)
    BY <1>7 DEF SetInterface, InHand, SetFlags
  <2>2. \A v \in Urbs : Submitting(v)' => Submitting(v)
    BY <1>7 DEF SetInterface, Submitting, SubmitType, GoTo, Answer, At, RequestFails
  <2> QED
    BY <2>1, <2>2, ListsUntouched
<1>8. ASSUME SetAudioStatus(u) PROVE ListInv'
  <2>1. /\ UNCHANGED <<state, status, owned, unlinked, listVars>>
        /\ \A v \in Urbs : InHand(v)' <=> InHand(v)
    BY <1>8 DEF SetAudioStatus, InHand, SetFlags
  <2>2. \A v \in Urbs : Submitting(v)' => Submitting(v)
    BY <1>8 DEF SetAudioStatus, Submitting, SubmitType, GoTo, Answer, At, RequestFails
  <2> QED
    BY <2>1, <2>2, ListsUntouched
<1>9. ASSUME SendInterfaceEvent(u) PROVE ListInv'
  <2>1. /\ UNCHANGED <<state, status, owned, unlinked, listVars>>
        /\ \A v \in Urbs : InHand(v)' <=> InHand(v)
    BY <1>9 DEF SendInterfaceEvent, InHand, SetFlags
  <2>2. \A v \in Urbs : Submitting(v)' => Submitting(v)
    BY <1>9 DEF SendInterfaceEvent, Submitting, SubmitType, GoTo, Answer, At, RequestFails
  <2> QED
    BY <2>1, <2>2, ListsUntouched
<1>10. ASSUME ScheduleIso(u) PROVE ListInv'
  <2>1. /\ UNCHANGED <<state, status, owned, unlinked, listVars>>
        /\ \A v \in Urbs : InHand(v)' <=> InHand(v)
    BY <1>10 DEF ScheduleIso, InHand, SetFlags
  <2>2. \A v \in Urbs : Submitting(v)' => Submitting(v)
    BY <1>10 DEF ScheduleIso, Submitting, SubmitType, GoTo, Answer, At, RequestFails
  <2> QED
    BY <2>1, <2>2, ListsUntouched
<1> QED
  BY <1>1, <1>2, <1>3, <1>4, <1>5, <1>6, <1>7, <1>8, <1>9, <1>10

(* A context put on a pending list, and on no other list yet.               *)
LEMMA WaitLists ==
  ASSUME TypeOK, ListInv, NEW u \in Urbs, DeferFeature(u) \/ TakeInput(u), ~relinked'
  PROVE  ListInv'
<1> USE DEF ctxVars, submitVars, coreVars, listVars, gbVars
<1>1. CASE UNCHANGED <<state, listVars>>
  <2>1. UNCHANGED <<status, owned, unlinked, gb_pc, gb_urb>> /\ Submitting(u)
    BY DEF DeferFeature, TakeInput, At, Submitting
  <2>2. \A v \in Urbs : Submitting(v)' => Submitting(v)
    BY <2>1 DEF DeferFeature, TakeInput, Submitting, GoTo, Answer, TypeOK, SubmitType
  <2> QED
    BY <1>1, <2>1, <2>2, ListsUntouched DEF InHand
<1>2. CASE ~UNCHANGED <<state, listVars>>
  <2>1. /\ Submitting(u) /\ state[u] # "FREE" /\ ~Queued(u)
        /\ UNCHANGED <<status, owned, unlinked, gb_pc, gb_urb, completed_urbs>>
        /\ pc' \in {[pc EXCEPT ![u] = "frame"], [pc EXCEPT ![u] = "idle"]}
    BY <1>2 DEF DeferFeature, TakeInput, Waits, At, Submitting, GoTo, Answer
  <2>2. state[u] \notin {"FREE", "PENDING_HID_IN", "PENDING_FEATURE_GET",
                         "PENDING_GIVEBACK", "GIVING_BACK"}
    BY <2>1 DEF ListInv, SubmitterNotWaiting, Queued
  <2>3. \/ /\ state' = [state EXCEPT ![u] = "PENDING_FEATURE_GET"]
           /\ pending_feature_get' = Append(pending_feature_get, u)
           /\ UNCHANGED pending_hid_in
        \/ /\ state' = [state EXCEPT ![u] = "PENDING_HID_IN"]
           /\ pending_hid_in' = Append(pending_hid_in, u)
           /\ UNCHANGED pending_feature_get
    BY <1>2 DEF DeferFeature, TakeInput, Waits
  <2>4. /\ state \in [Urbs -> CtxStates] /\ pc \in [Urbs -> SubmitPcs]
        /\ pending_hid_in \in Seq(Urbs) /\ pending_feature_get \in Seq(Urbs)
    BY DEF TypeOK, CtxType, SubmitType, ListType
  <2>5. /\ Lists(pending_hid_in, "PENDING_HID_IN")
        /\ Lists(pending_feature_get, "PENDING_FEATURE_GET")
        /\ Lists(completed_urbs, "PENDING_GIVEBACK")
        /\ \A v \in Urbs : state[v] = "GIVING_BACK" <=> InHand(v)
        /\ owned = {v \in Urbs : state[v] # "FREE"}
    BY DEF ListInv, OneListEach
  <2>6. u \notin ToSet(pending_hid_in) /\ u \notin ToSet(pending_feature_get)
    BY <2>2, <2>5 DEF Lists
  <2> DEFINE hid == Append(pending_hid_in, u)
             feature == Append(pending_feature_get, u)
  <2>0. /\ IsInjective(hid) /\ ToSet(hid) = ToSet(pending_hid_in) \cup {u}
        /\ IsInjective(feature) /\ ToSet(feature) = ToSet(pending_feature_get) \cup {u}
    BY <2>4, <2>5, <2>6, AppendHolds DEF Lists
  <2> HIDE DEF hid, feature
  <2>13. /\ IsInjective(pending_hid_in)
         /\ ToSet(pending_hid_in) = {v \in Urbs : state[v] = "PENDING_HID_IN"}
         /\ IsInjective(pending_feature_get)
         /\ ToSet(pending_feature_get) = {v \in Urbs : state[v] = "PENDING_FEATURE_GET"}
    BY <2>5 DEF Lists
  <2>7. Lists(pending_hid_in, "PENDING_HID_IN")'
    <3>1. \A v \in Urbs : state'[v] = "PENDING_HID_IN" <=>
            state[v] = "PENDING_HID_IN" \/ (v = u /\ pending_hid_in' = hid)
      BY <2>2, <2>3, <2>4, <2>0, <2>6 DEF hid
    <3>2. pending_hid_in' = hid \/ pending_hid_in' = pending_hid_in
      BY <2>3 DEF hid
    <3> QED
      BY <2>0, <2>13, <3>1, <3>2 DEF Lists
  <2>8. Lists(pending_feature_get, "PENDING_FEATURE_GET")'
    <3>1. \A v \in Urbs : state'[v] = "PENDING_FEATURE_GET" <=>
            state[v] = "PENDING_FEATURE_GET" \/ (v = u /\ pending_feature_get' = feature)
      BY <2>2, <2>3, <2>4, <2>0, <2>6 DEF feature
    <3>2. pending_feature_get' = feature \/ pending_feature_get' = pending_feature_get
      BY <2>3 DEF feature
    <3> QED
      BY <2>0, <2>13, <3>1, <3>2 DEF Lists
  <2>9. Lists(completed_urbs, "PENDING_GIVEBACK")'
    BY <2>1, <2>2, <2>3, <2>4, <2>5 DEF Lists
  <2>10. /\ \A v \in Urbs : state'[v] = "GIVING_BACK" <=> InHand(v)'
         /\ owned' = {v \in Urbs : state'[v] # "FREE"}
    BY <2>1, <2>2, <2>3, <2>4, <2>5 DEF InHand
  <2>11. SubmitterNotWaiting'
    BY <2>1, <2>3, <2>4 DEF ListInv, SubmitterNotWaiting, Submitting
  <2>12. UnlinkKept'
    BY <2>1, <2>2, <2>3, <2>4 DEF ListInv, UnlinkKept, Queued, TypeOK, CoreType
  <2> QED
    BY <2>7, <2>8, <2>9, <2>10, <2>11, <2>12 DEF ListInv, OneListEach
<1> QED
  BY <1>1, <1>2

(* The submitting thread's own URB, and an unlinked one, go to the giveback *)
(* queue from wherever they are.                                            *)
LEMMA QueueOwnLists ==
  ASSUME TypeOK, ListInv, NEW u \in Urbs, QueueAnswer(u) \/ Dequeue(u)
  PROVE  ListInv'
<1> USE DEF ctxVars, submitVars, coreVars, listVars, gbVars
<1>1. /\ state[u] \in CtxStates \ {"FREE"} /\ UNCHANGED <<owned, gb_pc, gb_urb>>
      /\ \A v \in Urbs : Submitting(v)' => Submitting(v)
  BY DEF QueueAnswer, Dequeue, At, Submitting, GoTo, TypeOK, CtxType, SubmitType
<1>2. ASSUME NEW st, QueueGiveback(<<u>>, st, ready[u]), UnlistPending(u), ~Queued(u),
             \A v \in unlinked' : v \in unlinked \/ (v = u /\ st = "UNLINKED")
      PROVE  ListInv'
  <2>1. <<u>> \in Seq(Urbs) /\ ToSet(<<u>>) = {u} /\ IsInjective(<<u>>)
    BY SingletonHolds
  <2>2. state[u] \in {"ACTIVE", "PENDING_HID_IN", "PENDING_FEATURE_GET"}
    BY <1>1, <1>2 DEF Queued, CtxStates
  <2>3. /\ pending_hid_in \in Seq(Urbs) /\ IsInjective(pending_hid_in)
        /\ pending_feature_get \in Seq(Urbs) /\ IsInjective(pending_feature_get)
    BY DEF TypeOK, ListType, ListInv, OneListEach, Lists
  <2>4. /\ IsInjective(pending_hid_in') /\ IsInjective(pending_feature_get')
        /\ ToSet(pending_hid_in') = ToSet(pending_hid_in) \ {u}
        /\ ToSet(pending_feature_get') = ToSet(pending_feature_get) \ {u}
    BY <1>2, <2>3, UnlistedProperties DEF UnlistPending
  <2> DEFINE l == <<u>>
  <2> HIDE DEF l
  <2>5. /\ l \in Seq(Urbs) /\ ToSet(l) = {u} /\ IsInjective(l)
        /\ QueueGiveback(l, st, ready[u])
    BY <1>2, <2>1 DEF l
  <2> QED
    BY <1>1, <1>2, <2>2, <2>4, <2>5, MoveToGiveback
<1>3. CASE QueueAnswer(u)
  <2>1. CASE Queued(u)
    BY <1>1, <1>3, <2>1, ListsUntouched DEF QueueAnswer, InHand
  <2>2. CASE ~Queued(u)
    <3>1. QueueGiveback(<<u>>, ret[u], ready[u]) /\ UnlistPending(u) /\ unlinked' = unlinked
      BY <1>3, <2>2 DEF QueueAnswer
    <3>2. \A v \in unlinked' : v \in unlinked \/ (v = u /\ ret[u] = "UNLINKED")
      BY <3>1
    <3> QED
      BY <1>2, <2>2, <3>1, <3>2
  <2> QED
    BY <2>1, <2>2
<1>4. CASE Dequeue(u)
  <2>1. CASE state[u] = "PENDING_GIVEBACK"
    <3>1. /\ status' = [status EXCEPT ![u] = "UNLINKED"]
          /\ UNCHANGED <<state, listVars, pc>> /\ unlinked' = unlinked \cup {u}
      BY <1>4, <2>1 DEF Dequeue, UnlinkQueued
    <3>2. OneListEach'
      BY <1>1, <3>1 DEF ListInv, OneListEach, Lists, InHand
    <3>3. SubmitterNotWaiting' /\ UnlinkKept'
      BY <2>1, <3>1 DEF ListInv, SubmitterNotWaiting, Submitting, UnlinkKept, Queued,
         TypeOK, CtxType, CoreType
    <3> QED
      BY <3>2, <3>3 DEF ListInv
  <2>2. CASE state[u] # "PENDING_GIVEBACK"
    <3>1. /\ QueueGiveback(<<u>>, "UNLINKED", ready[u]) /\ UnlistPending(u)
          /\ ~Queued(u) /\ unlinked' = unlinked \cup {u}
      BY <1>4, <2>2 DEF Dequeue, UnlinkWaiting, Queued
    <3> QED
      BY <1>2, <3>1
  <2> QED
    BY <2>1, <2>2
<1> QED
  BY <1>3, <1>4

(* A new context.                                                           *)
LEMMA SubmitLists ==
  ASSUME TypeOK, ListInv, NEW u \in Urbs, NEW k, NEW a, Submit(u, k, a)
  PROVE  ListInv'
<1> USE DEF listVars, gbVars
<1>1. /\ u \notin owned /\ owned' = owned \cup {u}
      /\ state' = [state EXCEPT ![u] = "ACTIVE"] /\ pc' = [pc EXCEPT ![u] = "dispatch"]
      /\ UNCHANGED <<status, unlinked, pending_hid_in, pending_feature_get,
                     completed_urbs, gb_pc, gb_urb>>
  BY DEF Submit, GoTo
<1>2. /\ state \in [Urbs -> CtxStates] /\ pc \in [Urbs -> SubmitPcs] /\ unlinked \subseteq Urbs
  BY DEF TypeOK, CtxType, SubmitType, CoreType
<1>3. state[u] = "FREE"
  BY <1>1 DEF ListInv, OneListEach
<1>4. OneListEach'
  BY <1>1, <1>2, <1>3 DEF ListInv, OneListEach, Lists, InHand
<1>5. SubmitterNotWaiting'
  BY <1>1, <1>2 DEF ListInv, SubmitterNotWaiting, Submitting
<1>6. UnlinkKept'
  BY <1>1, <1>2, <1>3 DEF ListInv, UnlinkKept, Queued
<1> QED
  BY <1>4, <1>5, <1>6 DEF ListInv

(* The giveback thread takes the head of its queue and hands it back.       *)
LEMMA GbStepLists ==
  ASSUME TypeOK, ListInv, GbStep
  PROVE  ListInv'
<1> USE DEF ctxVars, submitVars, coreVars, listVars, gbVars
<1>1. ASSUME GbSleep PROVE ListInv'
  <2>1. /\ UNCHANGED <<state, status, owned, unlinked, listVars, pc>>
        /\ \A v \in Urbs : InHand(v)' <=> InHand(v)
    BY <1>1 DEF GbSleep, InHand
  <2> QED
    BY <2>1, ListsUntouched DEF Submitting
<1>2. ASSUME GbWake PROVE ListInv'
  <2>1. /\ UNCHANGED <<state, status, owned, unlinked, listVars, pc>>
        /\ \A v \in Urbs : InHand(v)' <=> InHand(v)
    BY <1>2 DEF GbWake, InHand
  <2> QED
    BY <2>1, ListsUntouched DEF Submitting
<1>3. ASSUME GbDeliver PROVE ListInv'
  <2>1. /\ UNCHANGED <<state, status, owned, unlinked, listVars, pc>>
        /\ \A v \in Urbs : InHand(v)' <=> InHand(v)
    BY <1>3 DEF GbDeliver, InHand
  <2> QED
    BY <2>1, ListsUntouched DEF Submitting
<1>4. ASSUME GbExit PROVE ListInv'
  <2>1. /\ UNCHANGED <<state, status, owned, unlinked, listVars, pc>>
        /\ \A v \in Urbs : InHand(v)' <=> InHand(v)
    BY <1>4 DEF GbExit, InHand
  <2> QED
    BY <2>1, ListsUntouched DEF Submitting
<1> DEFINE u == Head(completed_urbs)
<1>5. ASSUME GbPop PROVE ListInv'
  <2>1. /\ gb_pc = "wait" /\ completed_urbs # <<>> /\ gb_pc' = "deliver" /\ gb_urb' = u
        /\ state' = [state EXCEPT ![u] = "GIVING_BACK"]
        /\ completed_urbs' = Tail(completed_urbs)
        /\ UNCHANGED <<status, owned, unlinked, pc, pending_hid_in, pending_feature_get>>
    BY <1>5 DEF GbPop
  <2>2. /\ state \in [Urbs -> CtxStates] /\ completed_urbs \in Seq(Urbs)
        /\ unlinked \subseteq Urbs
    BY DEF TypeOK, CtxType, ListType, CoreType
  <2>3. /\ u \in Urbs /\ u \in ToSet(completed_urbs) /\ IsInjective(Tail(completed_urbs))
        /\ ToSet(Tail(completed_urbs)) = ToSet(completed_urbs) \ {u}
    BY <2>1, <2>2, HeadTailHolds DEF ListInv, OneListEach, Lists
  <2> HIDE DEF u
  <2>4. state[u] = "PENDING_GIVEBACK"
    BY <2>3 DEF ListInv, OneListEach, Lists
  <2>5. Lists(completed_urbs, "PENDING_GIVEBACK")'
    BY <2>1, <2>2, <2>3, <2>4 DEF ListInv, OneListEach, Lists
  <2>6. /\ Lists(pending_hid_in, "PENDING_HID_IN")'
        /\ Lists(pending_feature_get, "PENDING_FEATURE_GET")'
    BY <2>1, <2>2, <2>3, <2>4 DEF ListInv, OneListEach, Lists
  <2>7. /\ \A v \in Urbs : state'[v] = "GIVING_BACK" <=> InHand(v)'
        /\ owned' = {v \in Urbs : state'[v] # "FREE"}
    BY <2>1, <2>2, <2>3, <2>4 DEF ListInv, OneListEach, InHand
  <2>8. SubmitterNotWaiting' /\ UnlinkKept'
    BY <2>1, <2>2, <2>3, <2>4 DEF ListInv, SubmitterNotWaiting, Submitting, UnlinkKept, Queued
  <2> QED
    BY <2>5, <2>6, <2>7, <2>8 DEF ListInv, OneListEach
<1>6. ASSUME GbGiveback PROVE ListInv'
  <2>1. /\ gb_pc = "giveback" /\ gb_pc' = "wait" /\ gb_urb \in Urbs
        /\ owned' = owned \ {gb_urb} /\ unlinked' = unlinked \ {gb_urb}
        /\ state' = [state EXCEPT ![gb_urb] = "FREE"]
        /\ status' = [status EXCEPT ![gb_urb] = "OK"]
        /\ UNCHANGED <<pc, pending_hid_in, pending_feature_get, completed_urbs>>
    BY <1>6 DEF GbGiveback, LeavesCore, TypeOK, GbType
  <2>2. /\ state \in [Urbs -> CtxStates] /\ unlinked \subseteq Urbs
        /\ status \in [Urbs -> Statuses]
    BY DEF TypeOK, CtxType, CoreType
  <2>3. state[gb_urb] = "GIVING_BACK"
    BY <2>1 DEF ListInv, OneListEach, InHand
  <2>4. /\ Lists(pending_hid_in, "PENDING_HID_IN")'
        /\ Lists(pending_feature_get, "PENDING_FEATURE_GET")'
        /\ Lists(completed_urbs, "PENDING_GIVEBACK")'
    BY <2>1, <2>2, <2>3 DEF ListInv, OneListEach, Lists
  <2>5. /\ \A v \in Urbs : state'[v] = "GIVING_BACK" <=> InHand(v)'
        /\ owned' = {v \in Urbs : state'[v] # "FREE"}
    BY <2>1, <2>2, <2>3 DEF ListInv, OneListEach, InHand
  <2>6. SubmitterNotWaiting' /\ UnlinkKept'
    BY <2>1, <2>2, <2>3 DEF ListInv, SubmitterNotWaiting, Submitting, UnlinkKept, Queued
  <2> QED
    BY <2>4, <2>5, <2>6 DEF ListInv, OneListEach
<1> QED
  BY <1>1, <1>2, <1>3, <1>4, <1>5, <1>6 DEF GbStep

(* Everything that waits is cancelled.                                      *)
LEMMA CancelLists ==
  ASSUME TypeOK, ListInv, CancelPending,
         UNCHANGED <<owned, unlinked, gb_pc, gb_urb, pc>>
  PROVE  ListInv'
<1> DEFINE l == pending_hid_in \o pending_feature_get
<1>1. /\ pending_hid_in \in Seq(Urbs) /\ pending_feature_get \in Seq(Urbs)
  BY DEF TypeOK, ListType
<1>2. /\ IsInjective(pending_hid_in) /\ IsInjective(pending_feature_get)
      /\ ToSet(pending_hid_in) = {u \in Urbs : state[u] = "PENDING_HID_IN"}
      /\ ToSet(pending_feature_get) = {u \in Urbs : state[u] = "PENDING_FEATURE_GET"}
  BY DEF ListInv, OneListEach, Lists
<1>3. ToSet(pending_hid_in) \cap ToSet(pending_feature_get) = {}
  BY <1>2
<1>4. /\ l \in Seq(Urbs) /\ IsInjective(l)
      /\ ToSet(l) = ToSet(pending_hid_in) \cup ToSet(pending_feature_get)
  BY <1>1, <1>2, <1>3, ConcatHolds
<1>5. ToSet(<<>>) = {} /\ IsInjective(<<>>)
  BY DEF ToSet, IsInjective
<1>6. /\ QueueGiveback(l, "SHUTDOWN", 0)
      /\ pending_hid_in' = <<>> /\ pending_feature_get' = <<>>
  BY DEF CancelPending
<1> HIDE DEF l
<1>7. /\ IsInjective(pending_hid_in') /\ IsInjective(pending_feature_get')
      /\ ToSet(pending_hid_in') = ToSet(pending_hid_in) \ ToSet(l)
      /\ ToSet(pending_feature_get') = ToSet(pending_feature_get) \ ToSet(l)
  BY <1>4, <1>5, <1>6
<1>8. \A u \in ToSet(l) : state[u] \in {"ACTIVE", "PENDING_HID_IN", "PENDING_FEATURE_GET"}
  BY <1>2, <1>4
<1> QED
  BY <1>4, <1>6, <1>7, <1>8, MoveToGiveback DEF Submitting

(* An input report completes the oldest waiting URB.                        *)
LEMMA WriteInputLists ==
  ASSUME TypeOK, ListInv, WriteInput
  PROVE  ListInv'
<1> USE DEF ctxVars, submitVars, coreVars, listVars, gbVars
<1>1. CASE ~InputAwaited
  BY <1>1, ListsUntouched DEF WriteInput, InHand, Submitting
<1>2. CASE InputAwaited
  <2> DEFINE u == Head(pending_hid_in)
             t == Laterof(next_hid_in_ready, now) + HidInterval
             l == <<u>>
  <2>1. /\ QueueGiveback(l, "OK", t) /\ pending_hid_in' = Tail(pending_hid_in)
        /\ UNCHANGED <<pending_feature_get, owned, unlinked, gb_pc, gb_urb, pc>>
    BY <1>2 DEF WriteInput
  <2>2. /\ pending_hid_in \in Seq(Urbs) /\ pending_hid_in # <<>>
        /\ IsInjective(pending_hid_in) /\ IsInjective(pending_feature_get)
        /\ ToSet(pending_hid_in) = {v \in Urbs : state[v] = "PENDING_HID_IN"}
        /\ ToSet(pending_feature_get) = {v \in Urbs : state[v] = "PENDING_FEATURE_GET"}
    BY <1>2 DEF InputAwaited, TypeOK, ListType, ListInv, OneListEach, Lists
  <2>3. /\ u \in Urbs /\ state[u] = "PENDING_HID_IN"
        /\ IsInjective(Tail(pending_hid_in))
        /\ ToSet(Tail(pending_hid_in)) = ToSet(pending_hid_in) \ {u}
    BY <2>2, HeadTailHolds
  <2>4. l \in Seq(Urbs) /\ ToSet(l) = {u} /\ IsInjective(l)
    BY <2>3, SingletonHolds
  <2> HIDE DEF u, t, l
  <2>5. /\ IsInjective(pending_hid_in') /\ IsInjective(pending_feature_get')
        /\ ToSet(pending_hid_in') = ToSet(pending_hid_in) \ ToSet(l)
        /\ ToSet(pending_feature_get') = ToSet(pending_feature_get) \ ToSet(l)
    BY <2>1, <2>2, <2>3, <2>4
  <2> QED
    BY <2>1, <2>3, <2>4, <2>5, MoveToGiveback DEF Submitting
<1> QED
  BY <1>1, <1>2

(* A feature reply completes every waiting URB that asked for it.           *)
LEMMA FeatureReplyLists ==
  ASSUME TypeOK, ListInv, CompleteFeatureReplies
  PROVE  ListInv'
<1> USE DEF ctxVars, submitVars, coreVars, listVars, gbVars
<1> DEFINE waiting == ToSet(pending_feature_get)
           answered == {u \in waiting : arg[u] = replying}
<1>1. CASE stopping
  BY <1>1, ListsUntouched DEF CompleteFeatureReplies, InHand, Submitting
<1>2. CASE ~stopping
  <2>1. PICK l \in InOrder(answered, pending_feature_get),
             rest \in InOrder(waiting \ answered, pending_feature_get) :
          /\ pending_feature_get' = rest
          /\ QueueGiveback(l, "OK", 0)
          /\ UNCHANGED <<ready, pending_hid_in>>
    BY <1>2 DEF CompleteFeatureReplies
  <2>2. UNCHANGED <<owned, unlinked, gb_pc, gb_urb, pc>>
    BY DEF CompleteFeatureReplies
  <2>3. /\ IsInjective(pending_hid_in)
        /\ ToSet(pending_hid_in) = {v \in Urbs : state[v] = "PENDING_HID_IN"}
        /\ waiting = {v \in Urbs : state[v] = "PENDING_FEATURE_GET"}
    BY DEF ListInv, OneListEach, Lists
  <2>4. /\ answered \in SUBSET Urbs /\ waiting \ answered \in SUBSET Urbs
        /\ answered \subseteq waiting
    BY <2>3
  <2> HIDE DEF answered, waiting
  <2>5. /\ l \in Seq(Urbs) /\ ToSet(l) = answered /\ IsInjective(l)
        /\ ToSet(rest) = waiting \ answered /\ IsInjective(rest)
    BY <2>4, InOrderHolds
  <2>6. /\ IsInjective(pending_hid_in') /\ IsInjective(pending_feature_get')
        /\ ToSet(pending_hid_in') = ToSet(pending_hid_in) \ ToSet(l)
        /\ ToSet(pending_feature_get') = waiting \ ToSet(l)
    BY <2>1, <2>3, <2>4, <2>5
  <2>7. \A u \in ToSet(l) : state[u] \in {"ACTIVE", "PENDING_HID_IN", "PENDING_FEATURE_GET"}
    BY <2>3, <2>4, <2>5
  <2>8. waiting = ToSet(pending_feature_get)
    BY DEF waiting
  <2> QED
    BY <2>1, <2>2, <2>5, <2>6, <2>7, <2>8, MoveToGiveback DEF Submitting
<1> QED
  BY <1>1, <1>2

(* The other steps.                                                         *)
LEMMA OtherStepLists ==
  ASSUME TypeOK, ListInv,
         \/ Open \/ Read \/ Connect \/ Disconnect \/ SetProfile \/ Release
         \/ DisconnectReset \/ CloserStep \/ HubRequest \/ HubAcknowledge \/ HubRead
         \/ Stop \/ StopThread \/ Tick \/ \E r \in Reports : WriteFeatureReply(r)
  PROVE  ListInv'
<1> USE DEF ctxVars, submitVars, coreVars, listVars, gbVars
<1>1. ASSUME Open \/ Read \/ Connect \/ SetProfile \/ Release \/ DisconnectReset
             \/ ReleaseReset \/ HubRequest \/ HubAcknowledge \/ HubRead \/ StopThread \/ Tick
             \/ \E r \in Reports : WriteFeatureReply(r)
      PROVE  ListInv'
  <2>1. /\ UNCHANGED <<state, status, owned, unlinked, listVars, pc>>
        /\ \A v \in Urbs : InHand(v)' <=> InHand(v)
    BY <1>1 DEF InHand, Open, Read, Connect, SetProfile, Release, DisconnectReset, ReleaseReset, HubRequest, HubAcknowledge, HubRead, StopThread, Tick, WriteFeatureReply
  <2> QED
    BY <2>1, ListsUntouched DEF Submitting
<1>2. CASE Disconnect
  BY <1>2, CancelLists DEF Disconnect, DisconnectLocked
<1>3. CASE ReleaseDisconnect
  <2>1. CASE stopping
    BY <1>3, <2>1, ListsUntouched DEF ReleaseDisconnect, InHand, Submitting
  <2>2. CASE ~stopping
    BY <1>3, <2>2, CancelLists DEF ReleaseDisconnect, DisconnectLocked
  <2> QED
    BY <2>1, <2>2
<1>4. CASE Stop
  BY <1>4, CancelLists DEF Stop
<1> QED
  BY <1>1, <1>2, <1>3, <1>4 DEF CloserStep

LEMMA NextLists == TypeOK /\ ListInv /\ [Next]_vars /\ ~relinked' => ListInv'
<1> SUFFICES ASSUME TypeOK, ListInv, [Next]_vars, ~relinked' PROVE ListInv'
  OBVIOUS
<1>1. ASSUME NEW u \in Urbs, NEW k \in Kinds, NEW a \in ArgsOf(k), Submit(u, k, a)
      PROVE  ListInv'
  BY <1>1, SubmitLists
<1>2. ASSUME NEW u \in Urbs, SubmitStep(u) \/ Dequeue(u) PROVE ListInv'
  BY <1>2, SubmitStepLists, WaitLists, QueueOwnLists DEF SubmitStep
<1>3. CASE GbStep
  BY <1>3, GbStepLists
<1>4. CASE WriteInput \/ CompleteFeatureReplies
  BY <1>4, WriteInputLists, FeatureReplyLists
<1>5. CASE \/ Open \/ Read \/ Connect \/ Disconnect \/ SetProfile \/ Release
           \/ DisconnectReset \/ CloserStep \/ HubRequest \/ HubAcknowledge \/ HubRead
           \/ Stop \/ StopThread \/ Tick \/ \E r \in Reports : WriteFeatureReply(r)
  BY <1>5, OtherStepLists
<1>6. CASE UNCHANGED vars
  BY <1>6, ListsUntouched DEF vars, ctxVars, submitVars, coreVars, listVars, gbVars,
     InHand, Submitting
<1> QED
  BY <1>1, <1>2, <1>3, <1>4, <1>5, <1>6 DEF Next, UserStep

(* A context linked into two lists is not forgotten.                        *)
LEMMA RelinkedStays == relinked /\ [Next]_vars => relinked'
<1> SUFFICES ASSUME relinked, [Next]_vars PROVE relinked'
  OBVIOUS
<1> USE DEF coreVars
<1>1. ASSUME NEW u \in Urbs, NEW k \in Kinds, NEW a \in ArgsOf(k), Submit(u, k, a)
      PROVE  relinked'
  BY <1>1 DEF Submit
<1>2. ASSUME NEW u \in Urbs, SubmitStep(u) PROVE relinked'
  <2>1. CASE DeferFeature(u) \/ TakeInput(u)
    BY <2>1 DEF DeferFeature, TakeInput, Waits
  <2>2. CASE ~(DeferFeature(u) \/ TakeInput(u))
    BY <1>2, <2>2 DEF SubmitStep, AnswerControl, LookupFeature, RequestFeature, SendOut,
       SetConfiguration, SetConfiguredStatus, SetInterface, SetAudioStatus,
       SendInterfaceEvent, ScheduleIso, QueueAnswer
  <2> QED
    BY <2>1, <2>2
<1>3. ASSUME NEW u \in Urbs, Dequeue(u) PROVE relinked'
  BY <1>3 DEF Dequeue
<1>4. CASE GbStep
  BY <1>4 DEF GbStep, GbSleep, GbWake, GbPop, GbDeliver, GbGiveback, GbExit
<1>5. CASE \/ Open \/ Read \/ WriteInput \/ Connect \/ Disconnect \/ SetProfile
           \/ Release \/ UserStep \/ CloserStep \/ HubRequest \/ HubAcknowledge
           \/ HubRead \/ Stop \/ StopThread \/ Tick
           \/ \E r \in Reports : WriteFeatureReply(r)
  BY <1>5 DEF Open, Read, WriteInput, Connect, Disconnect, SetProfile, Release, UserStep,
     CloserStep, HubRequest, HubAcknowledge, HubRead, Stop, StopThread, Tick,
     CompleteFeatureReplies, DisconnectReset, ReleaseDisconnect, ReleaseReset,
     WriteFeatureReply
<1>6. CASE UNCHANGED vars
  BY <1>6 DEF vars
<1> QED
  BY <1>1, <1>2, <1>3, <1>4, <1>5, <1>6 DEF Next

THEOREM ListsInvariant == Spec => [](~relinked => ListInv)
<1>1. Init => (~relinked => ListInv)
  BY InitLists
<1>2. TypeOK /\ (~relinked => ListInv) /\ [Next]_vars => (~relinked => ListInv)'
  BY NextLists, RelinkedStays
<1> QED
  BY <1>1, <1>2, InitType, NextType, PTL DEF Spec

(* Whatever the interleaving of submission, reply, input, unlink,           *)
(* disconnect, removal and giveback, every context is on the one list its   *)
(* state names, once, and in the giveback thread's hands exactly while it   *)
(* is GIVING_BACK - until a submitting thread has its context wait after an *)
(* unlink has queued it for giveback (relinked): the only way to break it.  *)
THEOREM ContextsOnTheirLists == Spec => []ListsMatchState
<1>1. (~relinked => ListInv) => ListsMatchState
  BY DEF ListInv, ListsMatchState
<1> QED
  BY <1>1, ListsInvariant, PTL

(* An unlinked URB is on its way back and comes back as unlinked, with the  *)
(* same exception.                                                          *)
THEOREM UnlinkedComesBackUnlinked == Spec => []UnlinkWins
<1>1. (~relinked => ListInv) => UnlinkWins
  BY DEF ListInv, UnlinkWins
<1> QED
  BY <1>1, ListsInvariant, PTL

-----------------------------------------------------------------------------
(* The URB service.                                                         *)

LEMMA ServiceStep ==
  TypeOK /\ ListInv /\ [Next]_vars => [Service!Next]_(Service!vars)
<1> SUFFICES ASSUME TypeOK, ListInv, [Next]_vars
             PROVE  Service!Next \/ UNCHANGED <<owned, unlinked>>
  BY DEF Service!vars
<1> USE DEF coreVars
<1>1. ASSUME NEW u \in Urbs, NEW k \in Kinds, NEW a \in ArgsOf(k), Submit(u, k, a)
      PROVE  Service!Next
  BY <1>1 DEF Submit, Service!Next, Service!HandOver
<1>2. ASSUME NEW u \in Urbs, SubmitStep(u) PROVE UNCHANGED <<owned, unlinked>>
  BY <1>2 DEF SubmitStep, AnswerControl, LookupFeature, DeferFeature, RequestFeature, SendOut,
     SetConfiguration, SetConfiguredStatus, SetInterface, SetAudioStatus,
     SendInterfaceEvent, TakeInput, ScheduleIso, QueueAnswer
<1>3. ASSUME NEW u \in Urbs, Dequeue(u) PROVE Service!Next
  <2>1. u \in owned
    BY <1>3 DEF Dequeue, ListInv, OneListEach
  <2> QED
    BY <1>3, <2>1 DEF Dequeue, Service!Next, Service!Cancel
<1>4. ASSUME GbStep PROVE Service!Next \/ UNCHANGED <<owned, unlinked>>
  <2>1. CASE GbGiveback
    <3>1. gb_urb \in Urbs /\ gb_urb \in owned
      BY <2>1 DEF GbGiveback, TypeOK, GbType, ListInv, OneListEach, InHand
    <3> QED
      BY <2>1, <3>1 DEF GbGiveback, LeavesCore, Service!Next, Service!Return
  <2>2. CASE ~GbGiveback
    BY <1>4, <2>2 DEF GbStep, GbSleep, GbWake, GbPop, GbDeliver, GbExit
  <2> QED
    BY <2>1, <2>2
<1>5. CASE \/ Open \/ Read \/ WriteInput \/ Connect \/ Disconnect \/ SetProfile
           \/ Release \/ UserStep \/ CloserStep \/ HubRequest \/ HubAcknowledge
           \/ HubRead \/ Stop \/ StopThread \/ Tick
           \/ \E r \in Reports : WriteFeatureReply(r)
  BY <1>5 DEF Open, Read, WriteInput, Connect, Disconnect, SetProfile, Release, UserStep,
     CloserStep, HubRequest, HubAcknowledge, HubRead, Stop, StopThread, Tick,
     CompleteFeatureReplies, DisconnectReset, ReleaseDisconnect, ReleaseReset,
     WriteFeatureReply
<1>6. CASE UNCHANGED vars
  BY <1>6 DEF vars
<1> QED
  BY <1>1, <1>2, <1>3, <1>4, <1>5, <1>6 DEF Next

(* The host controller implements the URB service in every behaviour in     *)
(* which no context is put on a second list: an URB handed over comes back  *)
(* once, and no unlink is accepted for one that is not in its hands.        *)
THEOREM ImplementsService == Spec /\ []~relinked => ServiceSafe
<1>1. Init => Service!Init
  BY DEF Init, Service!Init
<1> QED
  BY <1>1, TypeCorrect, ListsInvariant, ServiceStep, PTL
     DEF Spec, ServiceSafe, Service!Spec

-----------------------------------------------------------------------------
(* Removal.                                                                 *)

(* While the port is not stopping, only ActiveIsSubmitting is at stake.     *)
LEMMA RunningStep ==
  ASSUME StopInv, ~stopping, UNCHANGED <<stopping, should_stop, gb_pc>>,
         ActiveIsSubmitting'
  PROVE  StopInv'
BY DEF StopInv

LEMMA StopUntouched ==
  ASSUME StopInv, UNCHANGED <<state, pc, stopping, completed_urbs>>,
         should_stop' => should_stop \/ stopping,
         gb_pc' = "exited" => gb_pc = "exited",
         should_stop => should_stop'
  PROVE  StopInv'
BY DEF StopInv, ActiveIsSubmitting

(* Contexts only ever move towards their giveback in these steps.           *)
LEMMA QueueKeepsActive ==
  ASSUME TypeOK, ActiveIsSubmitting, NEW l, NEW st, NEW t, QueueGiveback(l, st, t),
         pc' = pc
  PROVE  ActiveIsSubmitting'
BY DEF TypeOK, CtxType, ActiveIsSubmitting, QueueGiveback

LEMMA SubmitStepStop ==
  ASSUME TypeOK, StopInv, NEW u \in Urbs, SubmitStep(u)
  PROVE  StopInv'
<1> USE DEF ctxVars, submitVars, coreVars, listVars, gbVars, portVars
<1>1. pc[u] # "idle"
  BY DEF SubmitStep, At, AnswerControl, LookupFeature, DeferFeature, RequestFeature,
     SendOut, SetConfiguration, SetConfiguredStatus, SetInterface, SetAudioStatus,
     SendInterfaceEvent, TakeInput, ScheduleIso, QueueAnswer
<1>2. ~stopping
  BY <1>1 DEF StopInv
<1>3. UNCHANGED <<stopping, should_stop, gb_pc>>
  BY DEF SubmitStep, AnswerControl, LookupFeature, DeferFeature, RequestFeature,
     SendOut, SetConfiguration, SetConfiguredStatus, SetInterface, SetAudioStatus,
     SendInterfaceEvent, TakeInput, ScheduleIso, QueueAnswer
<1>4. /\ state \in [Urbs -> CtxStates] /\ pc \in [Urbs -> SubmitPcs]
      /\ \A v \in Urbs : state[v] = "ACTIVE" => pc[v] \notin {"idle", "frame"}
  BY DEF TypeOK, CtxType, SubmitType, StopInv, ActiveIsSubmitting
<1>5. ASSUME QueueAnswer(u) PROVE ActiveIsSubmitting'
  BY <1>4, <1>5, SingletonHolds DEF QueueAnswer, QueueGiveback, Queued, GoTo, ActiveIsSubmitting
<1>6. ASSUME DeferFeature(u) PROVE ActiveIsSubmitting'
  BY <1>4, <1>6 DEF DeferFeature, Waits, At, GoTo, Answer, ActiveIsSubmitting
<1>7. ASSUME TakeInput(u) PROVE ActiveIsSubmitting'
  BY <1>4, <1>7 DEF TakeInput, Waits, At, GoTo, Answer, ActiveIsSubmitting
<1>8. ASSUME RequestFeature(u) PROVE ActiveIsSubmitting'
  BY <1>4, <1>8 DEF RequestFeature, RequestFails, GoTo, Answer, ActiveIsSubmitting
<1>9. ASSUME \/ AnswerControl(u) \/ LookupFeature(u) \/ SendOut(u)
             \/ SetConfiguration(u) \/ SetConfiguredStatus(u) \/ SetInterface(u)
             \/ SetAudioStatus(u) \/ SendInterfaceEvent(u) \/ ScheduleIso(u)
      PROVE  ActiveIsSubmitting'
  <2>1. /\ state' = state
        /\ \E p \in {"defer", "config_status", "audio_status", "event", "queue"} :
             pc' = [pc EXCEPT ![u] = p]
    BY <1>9 DEF AnswerControl, LookupFeature, SendOut, SetConfiguration,
       SetConfiguredStatus, SetInterface, SetAudioStatus, SendInterfaceEvent,
       ScheduleIso, GoTo, Answer
  <2> QED
    BY <1>4, <2>1 DEF ActiveIsSubmitting
<1>10. ActiveIsSubmitting'
  BY <1>5, <1>6, <1>7, <1>8, <1>9 DEF SubmitStep
<1> QED
  BY <1>2, <1>3, <1>10, RunningStep

LEMMA DequeueStop ==
  ASSUME TypeOK, ListInv, StopInv, NEW u \in Urbs, Dequeue(u)
  PROVE  StopInv'
<1> USE DEF ctxVars, submitVars, coreVars, listVars, gbVars, portVars
<1>1. UNCHANGED <<stopping, should_stop, gb_pc, pc>> /\ state[u] # "FREE" /\ state[u] # "GIVING_BACK"
  BY DEF Dequeue
<1>2. CASE state[u] = "PENDING_GIVEBACK"
  BY <1>1, <1>2, StopUntouched DEF Dequeue, UnlinkQueued
<1>3. CASE state[u] # "PENDING_GIVEBACK"
  <2>1. QueueGiveback(<<u>>, "UNLINKED", ready[u])
    BY <1>3 DEF Dequeue, UnlinkWaiting
  <2>2. ~stopping
    BY <1>1, <1>3 DEF StopInv
  <2> QED
    BY <1>1, <2>1, <2>2, QueueKeepsActive, RunningStep DEF StopInv
<1> QED
  BY <1>2, <1>3

LEMMA GbStepStop ==
  ASSUME TypeOK, ListInv, StopInv, GbStep
  PROVE  StopInv'
<1> USE DEF ctxVars, submitVars, coreVars, listVars, gbVars, portVars
<1>1. CASE GbSleep \/ GbWake \/ GbDeliver
  BY <1>1, StopUntouched DEF GbSleep, GbWake, GbDeliver
<1>2. CASE GbExit
  BY <1>2 DEF GbExit, Drained, StopInv, ActiveIsSubmitting
<1>3. CASE GbPop \/ GbGiveback
  <2>1. /\ gb_pc # "exited" /\ gb_pc' # "exited"
        /\ UNCHANGED <<pc, stopping, should_stop>>
        /\ \E v, st : st \in {"GIVING_BACK", "FREE"} /\ state' = [state EXCEPT ![v] = st]
    BY <1>3 DEF GbPop, GbGiveback
  <2> QED
    BY <2>1 DEF StopInv, ActiveIsSubmitting, TypeOK, CtxType
<1> QED
  BY <1>1, <1>2, <1>3 DEF GbStep

LEMMA OtherStepStop ==
  ASSUME TypeOK, ListInv, StopInv,
         \/ Open \/ Read \/ WriteInput \/ Connect \/ Disconnect \/ SetProfile
         \/ Release \/ UserStep \/ CloserStep \/ HubRequest \/ HubAcknowledge
         \/ HubRead \/ Stop \/ StopThread \/ Tick
         \/ \E r \in Reports : WriteFeatureReply(r)
  PROVE  StopInv'
<1> USE DEF ctxVars, submitVars, coreVars, listVars, gbVars, portVars
<1>1. CASE \/ Open \/ Read \/ Connect \/ SetProfile \/ Release \/ DisconnectReset
           \/ ReleaseReset \/ HubRequest \/ HubAcknowledge \/ HubRead
           \/ StopThread \/ Tick \/ \E r \in Reports : WriteFeatureReply(r)
  <2>1. CASE StopThread
    BY <2>1, StopUntouched DEF StopThread
  <2>2. CASE ~StopThread
    <3>1. UNCHANGED <<state, pc, stopping, should_stop, completed_urbs, gb_pc>>
      BY <1>1, <2>2 DEF Open, Read, Connect, SetProfile, Release, DisconnectReset,
         ReleaseReset, HubRequest, HubAcknowledge, HubRead, Tick, WriteFeatureReply
    <3> QED
      BY <3>1, StopUntouched
  <2> QED
    BY <2>1, <2>2
<1>2. CASE WriteInput
  <2>1. /\ ~stopping /\ UNCHANGED <<stopping, should_stop, gb_pc, pc>>
        /\ state' = state \/ \E l, t : QueueGiveback(l, "OK", t)
    BY <1>2 DEF WriteInput
  <2>2. ActiveIsSubmitting'
    BY <2>1, QueueKeepsActive DEF StopInv, ActiveIsSubmitting
  <2> QED
    BY <2>1, <2>2, RunningStep
<1>3. CASE CompleteFeatureReplies
  <2>1. UNCHANGED <<stopping, should_stop, gb_pc, pc>>
    BY <1>3 DEF CompleteFeatureReplies
  <2>2. CASE stopping
    BY <1>3, <2>1, <2>2, StopUntouched DEF CompleteFeatureReplies
  <2>3. CASE ~stopping
    <3>1. \E l, t : QueueGiveback(l, "OK", t)
      BY <1>3, <2>3 DEF CompleteFeatureReplies
    <3>2. ActiveIsSubmitting'
      BY <2>1, <3>1, QueueKeepsActive DEF StopInv
    <3> QED
      BY <2>1, <2>3, <3>2, RunningStep
  <2> QED
    BY <2>2, <2>3
<1>4. ASSUME DisconnectLocked, ~stopping, UNCHANGED <<pc, should_stop, gb_pc>>
      PROVE  StopInv'
  <2>1. QueueGiveback(pending_hid_in \o pending_feature_get, "SHUTDOWN", 0)
    BY <1>4 DEF DisconnectLocked, CancelPending
  <2>2. ActiveIsSubmitting'
    BY <1>4, <2>1, QueueKeepsActive DEF StopInv
  <2> QED
    BY <1>4, <2>2, RunningStep DEF DisconnectLocked
<1>5. CASE Disconnect
  BY <1>4, <1>5 DEF Disconnect
<1>6. CASE ReleaseDisconnect
  <2>1. CASE stopping
    BY <1>6, <2>1, StopUntouched DEF ReleaseDisconnect
  <2>2. CASE ~stopping
    BY <1>4, <1>6, <2>2 DEF ReleaseDisconnect
  <2> QED
    BY <2>1, <2>2
<1>7. CASE Stop
  <2>1. /\ ~stopping /\ \A u \in Urbs : pc[u] = "idle"
        /\ UNCHANGED <<pc, should_stop, gb_pc>>
        /\ QueueGiveback(pending_hid_in \o pending_feature_get, "SHUTDOWN", 0)
    BY <1>7 DEF Stop, CancelPending
  <2>2. ToSet(pending_hid_in \o pending_feature_get)
          = ToSet(pending_hid_in) \cup ToSet(pending_feature_get)
    BY ConcatHolds DEF TypeOK, ListType
  <2>3. \A u \in Urbs : /\ state[u] = "PENDING_HID_IN" => u \in ToSet(pending_hid_in)
                        /\ state[u] = "PENDING_FEATURE_GET" => u \in ToSet(pending_feature_get)
    BY DEF ListInv, OneListEach, Lists
  <2> DEFINE l == pending_hid_in \o pending_feature_get
  <2> HIDE DEF l
  <2>4. state' = [u \in Urbs |-> IF u \in ToSet(l) THEN "PENDING_GIVEBACK" ELSE state[u]]
    BY <2>1 DEF QueueGiveback, l
  <2>5. \A u \in Urbs : state'[u] \in {"FREE", "PENDING_GIVEBACK", "GIVING_BACK"}
    <3> SUFFICES ASSUME NEW u \in Urbs
                 PROVE  state'[u] \in {"FREE", "PENDING_GIVEBACK", "GIVING_BACK"}
      OBVIOUS
    <3>1. state[u] \in CtxStates /\ state[u] # "ACTIVE"
      BY <2>1 DEF TypeOK, CtxType, StopInv, ActiveIsSubmitting
    <3>2. state[u] \in {"PENDING_HID_IN", "PENDING_FEATURE_GET"} => u \in ToSet(l)
      BY <2>2, <2>3 DEF l
    <3> QED
      BY <2>4, <3>1, <3>2 DEF CtxStates
  <2>6. stopping' = TRUE
    BY <1>7 DEF Stop
  <2> QED
    BY <2>1, <2>5, <2>6 DEF StopInv, ActiveIsSubmitting
<1> QED
  BY <1>1, <1>2, <1>3, <1>5, <1>6, <1>7 DEF UserStep, CloserStep

LEMMA NextStop == TypeOK /\ ListInv /\ StopInv /\ [Next]_vars => StopInv'
<1> SUFFICES ASSUME TypeOK, ListInv, StopInv, [Next]_vars PROVE StopInv'
  OBVIOUS
<1>1. ASSUME NEW u \in Urbs, NEW k \in Kinds, NEW a \in ArgsOf(k), Submit(u, k, a)
      PROVE  StopInv'
  <2>1. /\ ~stopping /\ UNCHANGED <<stopping, should_stop, gb_pc>>
        /\ state' = [state EXCEPT ![u] = "ACTIVE"] /\ pc' = [pc EXCEPT ![u] = "dispatch"]
    BY <1>1 DEF Submit, GoTo, portVars, gbVars
  <2>2. ActiveIsSubmitting'
    BY <2>1 DEF StopInv, ActiveIsSubmitting, TypeOK, CtxType, SubmitType
  <2> QED
    BY <2>1, <2>2, RunningStep
<1>2. ASSUME NEW u \in Urbs, SubmitStep(u) \/ Dequeue(u) PROVE StopInv'
  BY <1>2, SubmitStepStop, DequeueStop
<1>3. CASE GbStep
  BY <1>3, GbStepStop
<1>4. CASE \/ Open \/ Read \/ WriteInput \/ Connect \/ Disconnect \/ SetProfile
           \/ Release \/ UserStep \/ CloserStep \/ HubRequest \/ HubAcknowledge
           \/ HubRead \/ Stop \/ StopThread \/ Tick
           \/ \E r \in Reports : WriteFeatureReply(r)
  BY <1>4, OtherStepStop
<1>5. CASE UNCHANGED vars
  BY <1>5, StopUntouched DEF vars, ctxVars, submitVars, listVars, portVars, gbVars
<1> QED
  BY <1>1, <1>2, <1>3, <1>4, <1>5 DEF Next

(* When the giveback thread has ended, no URB is left with the controller,  *)
(* unless a context was linked into two lists.                              *)
THEOREM RemovalDrains == Spec => []DrainedBeforeExit
<1>1. Init => (~relinked => StopInv)
  BY DEF Init, StopInv, ActiveIsSubmitting
<1>2. TypeOK /\ (~relinked => ListInv) /\ (~relinked => StopInv) => DrainedBeforeExit
  <2> SUFFICES ASSUME TypeOK, ListInv, StopInv, gb_pc = "exited", NEW u \in owned
               PROVE  FALSE
    BY DEF DrainedBeforeExit
  <2>1. completed_urbs = <<>> /\ stopping /\ u \in Urbs
    BY DEF StopInv, TypeOK, CoreType
  <2>2. ToSet(completed_urbs) = {} /\ state[u] # "FREE" /\ state[u] # "GIVING_BACK"
    BY <2>1 DEF ToSet, ListInv, OneListEach, InHand
  <2>3. state[u] = "PENDING_GIVEBACK"
    BY <2>1, <2>2 DEF StopInv
  <2> QED
    BY <2>1, <2>2, <2>3 DEF ListInv, OneListEach, Lists
<1>3. TypeOK /\ (~relinked => ListInv) /\ (~relinked => StopInv) /\ [Next]_vars
      => (~relinked => StopInv)'
  BY NextStop, RelinkedStays
<1> QED
  BY <1>1, <1>2, <1>3, TypeCorrect, ListsInvariant, PTL DEF Spec

-----------------------------------------------------------------------------
(* The connection.                                                          *)

(* A step that leaves the connection alone: only flags other than CONNECTED *)
(* may change.                                                              *)
LeavesConnection ==
  /\ UNCHANGED <<port_status, stopping, hub_view, hub_reading>>
  /\ "CONNECTED" \in status_flags' <=> "CONNECTED" \in status_flags

(* What a step can do to the connection and to what is known of it.         *)
LEMMA ConnectionSteps ==
  ASSUME [Next]_vars
  PROVE  \/ LeavesConnection
         \/ ConnectLocked /\ UNCHANGED <<stopping, hub_view, hub_reading>>
         \/ ~stopping /\ DisconnectLocked /\ UNCHANGED <<hub_view, hub_reading>>
         \/ HubRequest \/ HubAcknowledge \/ HubRead \/ Stop
<1> USE DEF portVars, hubVars
<1>1. ASSUME NEW u \in Urbs, NEW k \in Kinds, NEW a \in ArgsOf(k), Submit(u, k, a)
      PROVE  LeavesConnection
  BY <1>1 DEF Submit, LeavesConnection
<1>2. ASSUME NEW u \in Urbs, SubmitStep(u) PROVE LeavesConnection
  <2>1. CASE SetConfiguredStatus(u)
    BY <2>1 DEF SetConfiguredStatus, SetFlags, LeavesConnection
  <2>2. CASE SetAudioStatus(u)
    BY <2>2 DEF SetAudioStatus, SetFlags, LeavesConnection
  <2>3. CASE ~SetConfiguredStatus(u) /\ ~SetAudioStatus(u)
    <3>1. UNCHANGED <<status_flags, port_status, stopping, hub_view, hub_reading>>
      BY <1>2, <2>3 DEF SubmitStep, AnswerControl, LookupFeature, DeferFeature,
         RequestFeature, SendOut, SetConfiguration, SetInterface, SendInterfaceEvent,
         TakeInput, ScheduleIso, QueueAnswer
    <3> QED
      BY <3>1 DEF LeavesConnection
  <2> QED
    BY <2>1, <2>2, <2>3
<1>3. ASSUME NEW u \in Urbs, Dequeue(u) PROVE LeavesConnection
  BY <1>3 DEF Dequeue, LeavesConnection
<1>4. CASE GbStep
  BY <1>4 DEF GbStep, GbSleep, GbWake, GbPop, GbDeliver, GbGiveback, GbExit, LeavesConnection
<1>5. CASE \/ Open \/ Read \/ WriteInput \/ UserStep \/ Release \/ ReleaseReset
           \/ StopThread \/ Tick \/ \E r \in Reports : WriteFeatureReply(r)
  <2>1. UNCHANGED <<status_flags, port_status, stopping, hub_view, hub_reading>>
    BY <1>5 DEF Open, Read, WriteInput, UserStep, CompleteFeatureReplies, DisconnectReset,
       Release, ReleaseReset, StopThread, Tick, WriteFeatureReply
  <2> QED
    BY <2>1 DEF LeavesConnection
<1>6. CASE SetProfile
  BY <1>6 DEF SetProfile, SetFlags, LeavesConnection
<1>7. CASE Connect
  BY <1>7 DEF Connect
<1>8. CASE Disconnect
  BY <1>8 DEF Disconnect
<1>9. CASE ReleaseDisconnect
  BY <1>9 DEF ReleaseDisconnect, LeavesConnection
<1>10. CASE UNCHANGED vars
  BY <1>10 DEF vars, LeavesConnection
<1> QED
  BY <1>1, <1>2, <1>3, <1>4, <1>5, <1>6, <1>7, <1>8, <1>9, <1>10 DEF Next, CloserStep

(* Whatever the order of connects, disconnects, port requests and of the    *)
(* hub driver's two steps, a change of the connection it has not read yet   *)
(* is still announced by C_CONNECTION or by the read it has begun.          *)
THEOREM HubDriverMissesNothing == Spec => []HubSeesEveryChange
<1>1. ASSUME Init PROVE HubSeesEveryChange
  <2>1. hub_view = FALSE /\ port_status = {"POWER"}
    BY <1>1 DEF Init
  <2>2. "CONNECTION" \notin port_status
    BY <2>1
  <2>3. ("CONNECTION" \in port_status) = FALSE
    BY <2>2
  <2> QED
    BY <2>1, <2>3 DEF HubSeesEveryChange
<1>2. TypeOK /\ HubSeesEveryChange /\ [Next]_vars => HubSeesEveryChange'
  <2> SUFFICES ASSUME TypeOK, HubSeesEveryChange, [Next]_vars PROVE HubSeesEveryChange'
    OBVIOUS
  <2>0. hub_view \in BOOLEAN /\ hub_reading \in BOOLEAN
    BY DEF TypeOK, EnvType
  <2>1. CASE LeavesConnection
    BY <2>1 DEF LeavesConnection, HubSeesEveryChange
  <2>2. CASE ConnectLocked /\ UNCHANGED <<stopping, hub_view, hub_reading>>
    BY <2>2 DEF ConnectLocked, HubSeesEveryChange
  <2>3. CASE DisconnectLocked /\ UNCHANGED <<hub_view, hub_reading>>
    <3>1. port_status' = PortAfterDisconnect /\ UNCHANGED <<hub_view, hub_reading>>
      BY <2>3 DEF DisconnectLocked
    <3> QED
      BY <3>1 DEF PortAfterDisconnect, HubSeesEveryChange
  <2>4. CASE HubRequest
    <3>1. /\ "CONNECTION" \in port_status' <=> "CONNECTION" \in port_status
          /\ "C_CONNECTION" \in port_status' <=> "C_CONNECTION" \in port_status
          /\ UNCHANGED <<hub_view, hub_reading>>
      BY <2>4 DEF HubRequest, hubVars
    <3> QED
      BY <3>1 DEF HubSeesEveryChange
  <2>5. CASE HubAcknowledge
    BY <2>5 DEF HubAcknowledge, HubSeesEveryChange
  <2>6. CASE HubRead
    BY <2>6 DEF HubRead, HubSeesEveryChange, portVars
  <2>7. CASE Stop
    BY <2>7 DEF Stop, HubSeesEveryChange, hubVars
  <2> QED
    BY <2>1, <2>2, <2>3, <2>4, <2>5, <2>6, <2>7, ConnectionSteps
<1> QED
  BY <1>1, <1>2, InitType, NextType, PTL DEF Spec

(* Neither the daemon's view of the connection (status_flags) nor the hub   *)
(* driver's (port_status) is ever ahead of the other while the port runs,   *)
(* and a port without a connection is never enabled.                        *)
THEOREM ViewsAgreeOnConnection == Spec => []ConnectionAgrees
<1>1. Init => ConnectionAgrees
  BY DEF Init, ConnectionAgrees
<1>2. TypeOK /\ ConnectionAgrees /\ [Next]_vars => ConnectionAgrees'
  <2> SUFFICES ASSUME TypeOK, ConnectionAgrees, [Next]_vars PROVE ConnectionAgrees'
    OBVIOUS
  <2>0. stopping \in BOOLEAN
    BY DEF TypeOK, PortType
  <2>1. CASE LeavesConnection
    BY <2>0, <2>1 DEF LeavesConnection, ConnectionAgrees
  <2>2. CASE ConnectLocked /\ UNCHANGED <<stopping, hub_view, hub_reading>>
    BY <2>0, <2>2 DEF ConnectLocked, ConnectionAgrees
  <2>3. CASE DisconnectLocked /\ UNCHANGED <<hub_view, hub_reading>>
    <3>1. port_status' = PortAfterDisconnect /\ status_flags' = {}
      BY <2>3 DEF DisconnectLocked
    <3> QED
      BY <3>1 DEF PortAfterDisconnect, ConnectionAgrees
  <2>4. CASE HubRequest
    <3>1. /\ "CONNECTION" \in port_status' <=> "CONNECTION" \in port_status
          /\ "ENABLE" \in port_status' =>
               "ENABLE" \in port_status \/ "CONNECTION" \in port_status
          /\ UNCHANGED <<status_flags, stopping>>
      BY <2>4 DEF HubRequest
    <3> QED
      BY <2>0, <3>1 DEF ConnectionAgrees
  <2>5. CASE HubAcknowledge
    BY <2>0, <2>5 DEF HubAcknowledge, ConnectionAgrees
  <2>6. CASE HubRead
    BY <2>0, <2>6 DEF HubRead, ConnectionAgrees, portVars
  <2>7. CASE Stop
    BY <2>7 DEF Stop, ConnectionAgrees
  <2> QED
    BY <2>1, <2>2, <2>3, <2>4, <2>5, <2>6, <2>7, ConnectionSteps
<1> QED
  BY <1>1, <1>2, InitType, NextType, PTL DEF Spec

-----------------------------------------------------------------------------
(* Input reports.                                                           *)

(* Nothing is taken off a list that is empty.                               *)
LEMMA UnlistedFromEmpty ==
  ASSUME NEW l \in Seq(Urbs), NEW u, l = <<>>
  PROVE  Unlisted(l, u) = <<>>
BY DEF Unlisted

(* What a step can do to the waiting interrupt INs and the stored report.   *)
LEMMA InputSteps ==
  ASSUME TypeOK, [Next]_vars
  PROVE  \/ /\ pending_hid_in = <<>> => pending_hid_in' = <<>>
            /\ UNCHANGED <<input_packet, inputs>>
         \/ \E u \in Urbs : TakeInput(u)
         \/ WriteInput
         \/ input_packet' = NoInput /\ pending_hid_in' = <<>> /\ inputs' = inputs
<1> USE DEF listVars, userVars
<1> DEFINE Still == /\ pending_hid_in = <<>> => pending_hid_in' = <<>>
                    /\ UNCHANGED <<input_packet, inputs>>
<1>0. pending_hid_in \in Seq(Urbs)
  BY DEF TypeOK, ListType
<1>1. ASSUME NEW u \in Urbs, NEW k \in Kinds, NEW a \in ArgsOf(k), Submit(u, k, a)
      PROVE  Still
  BY <1>1 DEF Submit
<1>2. ASSUME NEW u \in Urbs, SubmitStep(u), ~TakeInput(u) PROVE Still
  <2>1. CASE QueueAnswer(u)
    BY <1>0, <2>1, UnlistedFromEmpty DEF QueueAnswer, UnlistPending
  <2>2. CASE ~QueueAnswer(u)
    BY <1>2, <2>2 DEF SubmitStep, AnswerControl, LookupFeature, DeferFeature,
       RequestFeature, SendOut, SetConfiguration, SetConfiguredStatus, SetInterface,
       SetAudioStatus, SendInterfaceEvent, ScheduleIso
  <2> QED
    BY <2>1, <2>2
<1>3. ASSUME NEW u \in Urbs, Dequeue(u) PROVE Still
  BY <1>0, <1>3, UnlistedFromEmpty DEF Dequeue, UnlinkQueued, UnlinkWaiting, UnlistPending
<1>4. CASE GbStep
  BY <1>4 DEF GbStep, GbSleep, GbWake, GbPop, GbDeliver, GbGiveback, GbExit
<1>5. CASE \/ Open \/ Read \/ Connect \/ SetProfile \/ UserStep \/ Release \/ ReleaseReset
           \/ HubRequest \/ HubAcknowledge \/ HubRead
           \/ StopThread \/ Tick \/ \E r \in Reports : WriteFeatureReply(r)
  BY <1>5 DEF Open, Read, Connect, SetProfile, UserStep, CompleteFeatureReplies,
     DisconnectReset, Release, ReleaseReset, HubRequest, HubAcknowledge, HubRead,
     StopThread, Tick, WriteFeatureReply
<1>6. CASE Disconnect \/ ReleaseDisconnect \/ Stop
  BY <1>6 DEF Disconnect, ReleaseDisconnect, Stop, DisconnectLocked, CancelPending,
     FlushBuffered
<1>7. CASE UNCHANGED vars
  BY <1>7 DEF vars
<1> QED
  BY <1>1, <1>2, <1>3, <1>4, <1>5, <1>6, <1>7 DEF Next, CloserStep

(* No input report is held back from an interrupt IN that waits for one,    *)
(* and the one that is stored is the newest, whatever is unlinked,          *)
(* cancelled or submitted meanwhile.                                        *)
THEOREM NewestInputAtOnce == Spec => []NoInputHeldBack
<1>1. Init => NoInputHeldBack
  BY DEF Init, NoInputHeldBack
<1>2. TypeOK /\ NoInputHeldBack /\ [Next]_vars => NoInputHeldBack'
  <2> SUFFICES ASSUME TypeOK, NoInputHeldBack, [Next]_vars PROVE NoInputHeldBack'
    OBVIOUS
  <2>1. CASE \E u \in Urbs : TakeInput(u)
    BY <2>1 DEF TakeInput, NoInputHeldBack, userVars
  <2>2. CASE WriteInput
    <3>1. CASE InputAwaited
      <4>1. input_packet = NoInput
        BY <3>1 DEF InputAwaited, NoInputHeldBack
      <4> QED
        BY <2>2, <3>1, <4>1 DEF WriteInput, NoInputHeldBack
    <3>2. CASE ~InputAwaited
      BY <2>2, <3>2 DEF WriteInput, InputAwaited, NoInputHeldBack
    <3> QED
      BY <3>1, <3>2
  <2>3. CASE input_packet' = NoInput /\ pending_hid_in' = <<>> /\ inputs' = inputs
    BY <2>3 DEF NoInputHeldBack
  <2> QED
    BY <2>1, <2>2, <2>3, InputSteps DEF NoInputHeldBack
<1> QED
  BY <1>1, <1>2, InitType, NextType, PTL DEF Spec

-----------------------------------------------------------------------------
(* The pacing of ISO transfers.                                             *)

(* What a step can do to one context, ScheduleIso aside.                    *)
Untouched(v) ==
  /\ kind'[v] = kind[v] /\ pc'[v] = pc[v] /\ ret'[v] = ret[v]
  /\ state'[v] = state[v] /\ ready'[v] = ready[v] /\ status'[v] = status[v]
Submitted(v) ==
  /\ state[v] = "FREE" /\ state'[v] = "ACTIVE" /\ pc'[v] = "dispatch"
  /\ ready'[v] = ready[v]
OffIso(v) ==
  /\ kind'[v] = kind[v] /\ ~IsIso(v)
  /\ state'[v] = "FREE" => state[v] = "FREE" /\ ready'[v] = ready[v]
AnswerQueued(v) ==
  /\ pc[v] = "queue" /\ state[v] # "FREE" /\ pc'[v] = "idle"
  /\ kind'[v] = kind[v] /\ ready'[v] = ready[v]
  /\ \/ Queued(v) /\ state'[v] = state[v] /\ status'[v] = status[v]
     \/ ~Queued(v) /\ state'[v] = "PENDING_GIVEBACK" /\ status'[v] = ret[v]
Cancelled(v) ==
  /\ state[v] \notin {"FREE", "GIVING_BACK"} /\ state'[v] = "PENDING_GIVEBACK"
  /\ status'[v] # "OK" /\ ready'[v] \in {0, ready[v]}
  /\ kind'[v] = kind[v] /\ pc'[v] = pc[v] /\ ret'[v] = ret[v]
Taken(v) ==
  /\ state[v] = "PENDING_GIVEBACK" /\ state'[v] = "GIVING_BACK" /\ ready[v] <= now
  /\ kind'[v] = kind[v] /\ pc'[v] = pc[v] /\ ret'[v] = ret[v]
  /\ ready'[v] = ready[v] /\ status'[v] = status[v]
Returned(v) ==
  /\ state'[v] = "FREE" /\ ready'[v] = 0
  /\ kind'[v] = kind[v] /\ pc'[v] = pc[v] /\ ret'[v] = ret[v]
ContextStep(v) ==
  \/ Untouched(v) \/ Submitted(v) \/ OffIso(v) \/ AnswerQueued(v)
  \/ Cancelled(v) \/ Taken(v) \/ Returned(v)

(* Contexts moved to the giveback queue from a pending list, or cancelled.  *)
LEMMA MovedContexts ==
  ASSUME TypeOK, IsoPath, NEW l, NEW st, NEW t, QueueGiveback(l, st, t),
         UNCHANGED <<kind, pc, ret>>,
         \A u \in ToSet(l) :
           \/ state[u] \in {"PENDING_HID_IN", "PENDING_FEATURE_GET"}
           \/ /\ state[u] \notin {"FREE", "GIVING_BACK"} /\ st # "OK"
              /\ ready'[u] = ready[u],
         \A u \in Urbs : u \notin ToSet(l) => ready'[u] = ready[u],
         NEW v \in Urbs
  PROVE  ContextStep(v)
<1>1. CASE v \notin ToSet(l)
  BY <1>1 DEF QueueGiveback, ContextStep, Untouched
<1>2. CASE v \in ToSet(l) /\ state[v] \in {"PENDING_HID_IN", "PENDING_FEATURE_GET"}
  <2>1. ~IsIso(v)
    BY <1>2 DEF IsoPath
  <2> QED
    BY <1>2, <2>1 DEF QueueGiveback, ContextStep, OffIso
<1>3. CASE v \in ToSet(l) /\ state[v] \notin {"FREE", "GIVING_BACK"} /\ st # "OK"
           /\ ready'[v] = ready[v]
  BY <1>3 DEF QueueGiveback, ContextStep, Cancelled
<1> QED
  BY <1>1, <1>2, <1>3

LEMMA CancelledContexts ==
  ASSUME TypeOK, ListInv, IsoPath, CancelPending, UNCHANGED <<ready, kind, pc, ret>>,
         NEW v \in Urbs
  PROVE  ContextStep(v)
<1> DEFINE l == pending_hid_in \o pending_feature_get
<1>1. ToSet(l) = ToSet(pending_hid_in) \cup ToSet(pending_feature_get)
  BY ConcatHolds DEF TypeOK, ListType
<1>2. QueueGiveback(l, "SHUTDOWN", 0)
  BY DEF CancelPending
<1> HIDE DEF l
<1>3. \A u \in ToSet(l) : state[u] \in {"PENDING_HID_IN", "PENDING_FEATURE_GET"}
  BY <1>1 DEF ListInv, OneListEach, Lists
<1> QED
  BY <1>2, <1>3, MovedContexts

LEMMA SubmitStepContexts ==
  ASSUME TypeOK, IsoPath, NEW u \in Urbs, SubmitStep(u), ~ScheduleIso(u), NEW v \in Urbs
  PROVE  ContextStep(v)
<1> USE DEF ctxVars, submitVars, listVars
<1>1. /\ pc \in [Urbs -> SubmitPcs] /\ ret \in [Urbs -> Statuses]
      /\ state \in [Urbs -> CtxStates] /\ ready \in [Urbs -> Nat]
      /\ FitsKind(u)
  BY DEF TypeOK, CtxType, SubmitType
<1>2. CASE QueueAnswer(u)
  <2>1. UNCHANGED <<kind, ready>> /\ pc' = [pc EXCEPT ![u] = "idle"]
        /\ ret' = [ret EXCEPT ![u] = "OK"] /\ pc[u] = "queue" /\ state[u] # "FREE"
    BY <1>2 DEF QueueAnswer, GoTo, At
  <2>2. \/ Queued(u) /\ UNCHANGED <<state, status>>
        \/ ~Queued(u) /\ QueueGiveback(<<u>>, ret[u], ready[u])
    BY <1>2 DEF QueueAnswer
  <2>3. ToSet(<<u>>) = {u}
    BY SingletonHolds
  <2>4. CASE v = u
    BY <1>1, <2>1, <2>2, <2>3, <2>4 DEF QueueGiveback, ContextStep, AnswerQueued
  <2>5. CASE v # u
    BY <1>1, <2>1, <2>2, <2>3, <2>5 DEF QueueGiveback, ContextStep, Untouched
  <2> QED
    BY <2>4, <2>5
<1>3. CASE ~QueueAnswer(u)
  <2>1. /\ UNCHANGED <<kind, status>>
        /\ \A w \in Urbs : w # u => pc'[w] = pc[w] /\ ret'[w] = ret[w]
        /\ \A w \in Urbs : w # u => state'[w] = state[w] /\ ready'[w] = ready[w]
        /\ state'[u] = "FREE" => state[u] = "FREE" /\ ready'[u] = ready[u]
    <3>1. CASE DeferFeature(u)
      BY <1>1, <3>1 DEF DeferFeature, Waits, GoTo, Answer
    <3>2. CASE TakeInput(u)
      BY <1>1, <3>2 DEF TakeInput, Waits, GoTo, Answer, At
    <3>3. CASE ~DeferFeature(u) /\ ~TakeInput(u)
      <4>1. /\ UNCHANGED <<kind, status, state, ready>>
            /\ \A w \in Urbs : w # u => pc'[w] = pc[w] /\ ret'[w] = ret[w]
        BY <1>1, <1>3, <3>3 DEF SubmitStep, AnswerControl, LookupFeature, RequestFeature,
           RequestFails, SendOut, SetConfiguration, SetConfiguredStatus, SetInterface,
           SetAudioStatus, SendInterfaceEvent, GoTo, Answer
      <4> QED
        BY <4>1
    <3> QED
      BY <3>1, <3>2, <3>3
  <2>2. ~IsIso(u)
    <3>1. \/ pc[u] = "dispatch" /\ ~IsIso(u)
          \/ pc[u] \in {"defer", "frame", "config_status", "audio_status", "event"}
      BY <1>3 DEF SubmitStep, AnswerControl, LookupFeature, DeferFeature, RequestFeature,
         SendOut, SetConfiguration, SetConfiguredStatus, SetInterface,
         SetAudioStatus, SendInterfaceEvent, TakeInput, At, IsIso
    <3> QED
      BY <3>1 DEF IsoPath
  <2>3. CASE v # u
    BY <1>1, <2>1, <2>3 DEF ContextStep, Untouched
  <2>4. CASE v = u
    BY <1>1, <2>1, <2>2, <2>4 DEF ContextStep, OffIso
  <2> QED
    BY <2>3, <2>4
<1> QED
  BY <1>2, <1>3

LEMMA DequeueContexts ==
  ASSUME TypeOK, IsoPath, NEW u \in Urbs, Dequeue(u), NEW v \in Urbs
  PROVE  ContextStep(v)
<1>1. /\ UNCHANGED <<kind, pc, ret>> /\ state[u] \notin {"FREE", "GIVING_BACK"}
      /\ \/ state[u] = "PENDING_GIVEBACK" /\ UnlinkQueued(u)
         \/ UnlinkWaiting(u)
  BY DEF Dequeue, submitVars
<1>2. CASE state[u] = "PENDING_GIVEBACK" /\ UnlinkQueued(u)
  BY <1>1, <1>2 DEF UnlinkQueued, ContextStep, Untouched, Cancelled, TypeOK, CtxType
<1>3. CASE UnlinkWaiting(u)
  <2>1. ToSet(<<u>>) = {u}
    BY SingletonHolds
  <2>2. QueueGiveback(<<u>>, "UNLINKED", ready[u]) /\ ready' = ready
    BY <1>3 DEF UnlinkWaiting
  <2> QED
    BY <1>1, <2>1, <2>2, MovedContexts
<1> QED
  BY <1>1, <1>2, <1>3

LEMMA GbContexts ==
  ASSUME TypeOK, ListInv, GbStep, NEW v \in Urbs
  PROVE  ContextStep(v)
<1> USE DEF ctxVars, submitVars, TypeOK, CtxType
<1>1. CASE GbPop
  <2>1. completed_urbs \in Seq(Urbs) /\ completed_urbs # <<>>
    BY <1>1 DEF GbPop, ListType
  <2> DEFINE u == Head(completed_urbs)
  <2>2. u \in ToSet(completed_urbs)
    BY <2>1, HeadTailHolds
  <2>3. ready[u] <= now /\ state' = [state EXCEPT ![u] = "GIVING_BACK"]
        /\ UNCHANGED <<ready, status, kind, pc, ret>>
    BY <1>1 DEF GbPop, Due
  <2> HIDE DEF u
  <2>4. state[u] = "PENDING_GIVEBACK"
    BY <2>2 DEF ListInv, OneListEach, Lists
  <2> QED
    BY <2>3, <2>4 DEF ContextStep, Untouched, Taken
<1>2. CASE GbGiveback
  <2>1. gb_urb \in Urbs
    BY <1>2 DEF GbGiveback, GbType
  <2> QED
    BY <1>2, <2>1 DEF GbGiveback, ContextStep, Untouched, Returned
<1>3. CASE GbSleep \/ GbWake \/ GbDeliver \/ GbExit
  BY <1>3 DEF GbSleep, GbWake, GbDeliver, GbExit, ContextStep, Untouched
<1> QED
  BY <1>1, <1>2, <1>3 DEF GbStep

LEMMA WriteInputContexts ==
  ASSUME TypeOK, ListInv, IsoPath, WriteInput, NEW v \in Urbs
  PROVE  ContextStep(v)
<1>1. UNCHANGED <<kind, pc, ret>>
  BY DEF WriteInput, submitVars
<1>2. CASE ~InputAwaited
  BY <1>1, <1>2 DEF WriteInput, ctxVars, ContextStep, Untouched
<1>3. CASE InputAwaited
  <2> DEFINE u == Head(pending_hid_in)
             t == Laterof(next_hid_in_ready, now) + HidInterval
  <2>1. u \in ToSet(pending_hid_in)
    BY <1>3, HeadTailHolds DEF InputAwaited, TypeOK, ListType
  <2>2. QueueGiveback(<<u>>, "OK", t) /\ ready' = [ready EXCEPT ![u] = t]
    BY <1>3 DEF WriteInput
  <2> HIDE DEF u, t
  <2>3. u \in Urbs /\ state[u] = "PENDING_HID_IN"
    BY <2>1 DEF ListInv, OneListEach, Lists
  <2>4. ToSet(<<u>>) = {u}
    BY <2>3, SingletonHolds
  <2>5. \A w \in Urbs : w \notin ToSet(<<u>>) => ready'[w] = ready[w]
    BY <2>2, <2>4 DEF TypeOK, CtxType
  <2> QED
    BY <1>1, <2>2, <2>3, <2>4, <2>5, MovedContexts
<1> QED
  BY <1>2, <1>3

LEMMA FeatureReplyContexts ==
  ASSUME TypeOK, ListInv, IsoPath, CompleteFeatureReplies, NEW v \in Urbs
  PROVE  ContextStep(v)
<1> DEFINE waiting == ToSet(pending_feature_get)
           answered == {u \in waiting : arg[u] = replying}
<1>1. UNCHANGED <<kind, pc, ret>>
  BY DEF CompleteFeatureReplies, submitVars
<1>2. CASE stopping
  BY <1>1, <1>2 DEF CompleteFeatureReplies, ctxVars, ContextStep, Untouched
<1>3. CASE ~stopping
  <2>1. PICK l \in InOrder(answered, pending_feature_get) :
          QueueGiveback(l, "OK", 0) /\ ready' = ready
    BY <1>3 DEF CompleteFeatureReplies
  <2>2. waiting = {u \in Urbs : state[u] = "PENDING_FEATURE_GET"}
    BY DEF ListInv, OneListEach, Lists
  <2>3. answered \in SUBSET Urbs /\ answered \subseteq waiting
    BY <2>2
  <2> HIDE DEF answered, waiting
  <2>4. ToSet(l) = answered
    BY <2>3, InOrderHolds
  <2>5. \A u \in ToSet(l) : state[u] = "PENDING_FEATURE_GET"
    BY <2>2, <2>3, <2>4
  <2> QED
    BY <1>1, <2>1, <2>5, MovedContexts
<1> QED
  BY <1>2, <1>3

LEMMA ContextSteps ==
  ASSUME TypeOK, ListInv, IsoPath, [Next]_vars, NEW v \in Urbs
  PROVE  (\E u \in Urbs : ScheduleIso(u)) \/ ContextStep(v)
<1> USE DEF ctxVars, submitVars
<1>1. ASSUME NEW u \in Urbs, NEW k \in Kinds, NEW a \in ArgsOf(k), Submit(u, k, a)
      PROVE  ContextStep(v)
  <2>1. state[u] = "FREE"
    BY <1>1 DEF Submit, ListInv, OneListEach
  <2> QED
    BY <1>1, <2>1 DEF Submit, GoTo, ContextStep, Untouched, Submitted, TypeOK, CtxType,
       SubmitType
<1>2. ASSUME NEW u \in Urbs, SubmitStep(u)
      PROVE  ScheduleIso(u) \/ ContextStep(v)
  BY <1>2, SubmitStepContexts
<1>3. ASSUME NEW u \in Urbs, Dequeue(u) PROVE ContextStep(v)
  BY <1>3, DequeueContexts
<1>4. CASE GbStep
  BY <1>4, GbContexts
<1>5. CASE WriteInput \/ CompleteFeatureReplies
  BY <1>5, WriteInputContexts, FeatureReplyContexts
<1>6. CASE Disconnect \/ ReleaseDisconnect \/ Stop
  <2>1. \/ CancelPending /\ UNCHANGED <<ready, kind, pc, ret>>
        \/ UNCHANGED <<state, ready, status, kind, pc, ret>>
    BY <1>6 DEF Disconnect, ReleaseDisconnect, Stop, DisconnectLocked
  <2> QED
    BY <2>1, CancelledContexts DEF ContextStep, Untouched
<1>7. CASE \/ Open \/ Read \/ Connect \/ SetProfile \/ DisconnectReset \/ Release
           \/ ReleaseReset \/ HubRequest \/ HubAcknowledge \/ HubRead
           \/ StopThread \/ Tick \/ \E r \in Reports : WriteFeatureReply(r)
  <2>1. UNCHANGED <<state, ready, status, kind, pc, ret>>
    BY <1>7 DEF Open, Read, Connect, SetProfile, DisconnectReset, Release, ReleaseReset,
       HubRequest, HubAcknowledge, HubRead, StopThread, Tick, WriteFeatureReply
  <2> QED
    BY <2>1 DEF ContextStep, Untouched
<1>8. CASE UNCHANGED vars
  BY <1>8 DEF vars, ContextStep, Untouched
<1> QED
  BY <1>1, <1>2, <1>3, <1>4, <1>5, <1>6, <1>7, <1>8 DEF Next, UserStep, CloserStep

(* The clock never goes back, and a step of the clock changes no context.   *)
LEMMA ClockSteps ==
  ASSUME TypeOK, [Next]_vars
  PROVE  now' >= now
<1>1. CASE Tick
  BY <1>1 DEF Tick, TypeOK, TimeType
<1>2. ASSUME ~Tick PROVE now' = now
  <2>1. ASSUME NEW u \in Urbs, NEW k \in Kinds, NEW a \in ArgsOf(k), Submit(u, k, a)
        PROVE  now' = now
    BY <2>1 DEF Submit
  <2>2. ASSUME NEW u \in Urbs, SubmitStep(u) \/ Dequeue(u) PROVE now' = now
    BY <2>2 DEF SubmitStep, AnswerControl, LookupFeature, DeferFeature, RequestFeature,
       SendOut, SetConfiguration, SetConfiguredStatus, SetInterface, SetAudioStatus,
       SendInterfaceEvent, TakeInput, ScheduleIso, QueueAnswer, Dequeue
  <2>3. CASE \/ GbStep \/ Open \/ Read \/ WriteInput \/ Connect \/ Disconnect \/ SetProfile
             \/ \E r \in Reports : WriteFeatureReply(r)
    BY <2>3 DEF GbStep, GbSleep, GbWake, GbPop, GbDeliver, GbGiveback, GbExit, Open, Read,
       WriteInput, Connect, Disconnect, SetProfile, WriteFeatureReply
  <2>4. CASE \/ UserStep \/ Release \/ CloserStep \/ HubRequest \/ HubAcknowledge \/ HubRead
             \/ Stop \/ StopThread
    BY <2>4 DEF UserStep, CompleteFeatureReplies, DisconnectReset, Release, CloserStep,
       ReleaseDisconnect, ReleaseReset, HubRequest, HubAcknowledge, HubRead, Stop, StopThread
  <2>5. CASE UNCHANGED vars
    BY <2>5 DEF vars
  <2> QED
    BY <1>2, <2>1, <2>2, <2>3, <2>4, <2>5 DEF Next
<1> QED
  BY <1>1, <1>2 DEF TypeOK, TimeType

(* What ScheduleIso does to the context it schedules.                       *)
LEMMA ScheduledContext ==
  ASSUME TypeOK, NEW u \in Urbs, ScheduleIso(u)
  PROVE  /\ IsIso(u) /\ pc[u] = "dispatch" /\ pc'[u] = "queue" /\ state[u] # "FREE"
         /\ UNCHANGED <<kind, state, status>>
         /\ ready'[u] \in Nat \ {0}
         /\ \A v \in Urbs : v # u => Untouched(v)
<1> USE DEF TypeOK, CtxType, SubmitType, TimeType
<1>1. /\ IsIso(u) /\ pc[u] = "dispatch" /\ state[u] # "FREE"
      /\ UNCHANGED <<kind, state, status>>
      /\ pc' = [pc EXCEPT ![u] = "queue"] /\ ret' = [ret EXCEPT ![u] = "OK"]
  BY DEF ScheduleIso, At, Answer, GoTo, IsIso
<1>2. \E t \in Nat \ {0} : ready' = [ready EXCEPT ![u] = t]
  <2>1. /\ Laterof(next_iso_out_ready, now) + IsoDuration \in Nat \ {0}
        /\ Laterof(next_iso_in_ready, now) + IsoDuration \in Nat \ {0}
    BY HcdAssumption DEF Laterof
  <2> QED
    BY <2>1 DEF ScheduleIso
<1> QED
  BY <1>1, <1>2 DEF Untouched

(* Under IsoDueInv no step completes an ISO URB early.                      *)
LEMMA NextIsoDue ==
  ASSUME TypeOK, ListInv, IsoDueInv, [Next]_vars
  PROVE  IsoDueInv'
<1> USE DEF TypeOK, CtxType, SubmitType
<1>0. IsoPath /\ IsoDue
  BY DEF IsoDueInv
<1>1. now' >= now /\ now \in Nat /\ now' \in Nat
  <2>1. TimeType'
    BY NextType
  <2> QED
    BY <2>1, ClockSteps DEF TimeType
<1> DEFINE Keeps(v) ==
             /\ IsIso(v)' =>
                  /\ pc'[v] \in {"idle", "dispatch", "queue"}
                  /\ state'[v] \notin {"PENDING_HID_IN", "PENDING_FEATURE_GET"}
                  /\ pc'[v] = "dispatch" /\ Queued(v)' => status'[v] # "OK"
                  /\ pc'[v] = "queue" /\ state'[v] = "ACTIVE" /\ ret'[v] = "OK" => ready'[v] # 0
                  /\ Queued(v)' /\ status'[v] = "OK" => ready'[v] # 0
             /\ state'[v] = "GIVING_BACK" /\ status'[v] = "OK" /\ IsIso(v)' =>
                  ready'[v] # 0 /\ ready'[v] <= now'
<1>2. ASSUME NEW v \in Urbs, ContextStep(v) PROVE Keeps(v)
  <2>0. /\ IsIso(v) =>
             /\ pc[v] \in {"idle", "dispatch", "queue"}
             /\ state[v] \notin {"PENDING_HID_IN", "PENDING_FEATURE_GET"}
             /\ pc[v] = "dispatch" /\ Queued(v) => status[v] # "OK"
             /\ pc[v] = "queue" /\ state[v] = "ACTIVE" /\ ret[v] = "OK" => ready[v] # 0
             /\ Queued(v) /\ status[v] = "OK" => ready[v] # 0
        /\ state[v] = "GIVING_BACK" /\ status[v] = "OK" /\ IsIso(v) =>
             ready[v] # 0 /\ ready[v] <= now
        /\ ready[v] \in Nat /\ state[v] \in CtxStates
    BY <1>0 DEF IsoPath, IsoDue
  <2>1. CASE Untouched(v)
    BY <1>1, <2>0, <2>1 DEF Untouched, IsIso, Queued
  <2>2. CASE Submitted(v)
    BY <2>2 DEF Submitted, Queued
  <2>3. CASE OffIso(v)
    BY <2>3 DEF OffIso, IsIso
  <2>4. CASE AnswerQueued(v)
    <3>1. CASE Queued(v)
      BY <1>1, <2>0, <2>4, <3>1 DEF AnswerQueued, IsIso, Queued
    <3>2. CASE ~Queued(v)
      BY <2>0, <2>4, <3>2 DEF AnswerQueued, IsIso, Queued, CtxStates
    <3> QED
      BY <3>1, <3>2
  <2>5. CASE Cancelled(v)
    BY <2>0, <2>5 DEF Cancelled, IsIso
  <2>6. CASE Taken(v)
    BY <1>1, <2>0, <2>6 DEF Taken, IsIso, Queued
  <2>7. CASE Returned(v)
    BY <2>0, <2>7 DEF Returned, IsIso, Queued
  <2> QED
    BY <1>2, <2>1, <2>2, <2>3, <2>4, <2>5, <2>6, <2>7 DEF ContextStep
<1>3. ASSUME NEW u \in Urbs, ScheduleIso(u) PROVE \A v \in Urbs : Keeps(v)
  <2>1. \A v \in Urbs : v # u => Keeps(v)
    BY <1>2, <1>3, ScheduledContext DEF ContextStep
  <2>2. /\ IsIso(u) /\ pc[u] = "dispatch" /\ pc'[u] = "queue"
        /\ UNCHANGED <<kind, state, status>> /\ ready'[u] # 0
    BY <1>3, ScheduledContext
  <2>3. /\ state[u] \notin {"PENDING_HID_IN", "PENDING_FEATURE_GET"}
        /\ Queued(u) => status[u] # "OK"
    BY <1>0, <2>2 DEF IsoPath
  <2>4. Keeps(u)
    BY <2>2, <2>3 DEF Queued
  <2> QED
    BY <2>1, <2>4
<1>4. \A v \in Urbs : Keeps(v)
  BY <1>0, <1>2, <1>3, ContextSteps
<1> QED
  BY <1>4 DEF IsoDueInv, IsoPath, IsoDue

LEMMA InitIso == Init => IsoDueInv /\ IsoSpacedInv
<1> SUFFICES ASSUME Init PROVE IsoDueInv /\ IsoSpacedInv
  OBVIOUS
<1>1. \A u \in Urbs : kind[u] = "control" /\ ready[u] = 0
  BY DEF Init
<1>2. \A u \in Urbs : ~IsIso(u)
  BY <1>1 DEF IsIso
<1> QED
  BY <1>1, <1>2 DEF IsoDueInv, IsoPath, IsoDue, IsoSpacedInv, TimesApart, Timed

(* A successful ISO URB has a completion time and is not given back before  *)
(* it, whatever unlinks, cancels and disconnects come between, as long as   *)
(* no context is linked into two lists.                                     *)
THEOREM IsoNeverEarly == Spec => [](~relinked => IsoDue)
<1>1. Init => (~relinked => IsoDueInv)
  BY InitIso
<1>2. TypeOK /\ (~relinked => ListInv) /\ (~relinked => IsoDueInv) /\ [Next]_vars
      => (~relinked => IsoDueInv)'
  BY NextIsoDue, RelinkedStays
<1>3. (~relinked => IsoDueInv) => (~relinked => IsoDue)
  BY DEF IsoDueInv
<1> QED
  BY <1>1, <1>2, <1>3, TypeCorrect, ListsInvariant, PTL DEF Spec

-----------------------------------------------------------------------------
(* Without a disconnect nothing sets an endpoint's next time back.          *)
StaysConnected == EnvOps \cap {"disconnect", "release"} = {}

LEMMA CloserRests ==
  ASSUME StaysConnected, closer = "idle", [Next]_vars
  PROVE  closer' = "idle"
<1> USE DEF userVars, StaysConnected
<1>1. ASSUME NEW u \in Urbs, NEW k \in Kinds, NEW a \in ArgsOf(k), Submit(u, k, a)
      PROVE  closer' = closer
  BY <1>1 DEF Submit
<1>2. ASSUME NEW u \in Urbs, SubmitStep(u) \/ Dequeue(u) PROVE closer' = closer
  BY <1>2 DEF SubmitStep, AnswerControl, LookupFeature, DeferFeature, RequestFeature,
     SendOut, SetConfiguration, SetConfiguredStatus, SetInterface, SetAudioStatus,
     SendInterfaceEvent, TakeInput, ScheduleIso, QueueAnswer, Dequeue
<1>3. CASE \/ GbStep \/ Open \/ Read \/ WriteInput \/ Connect \/ Disconnect \/ SetProfile
           \/ \E r \in Reports : WriteFeatureReply(r)
  BY <1>3 DEF GbStep, GbSleep, GbWake, GbPop, GbDeliver, GbGiveback, GbExit, Open, Read,
     WriteInput, Connect, Disconnect, SetProfile, WriteFeatureReply
<1>4. CASE \/ UserStep \/ Release \/ CloserStep \/ HubRequest \/ HubAcknowledge \/ HubRead
           \/ Stop \/ StopThread \/ Tick
  BY <1>4 DEF UserStep, CompleteFeatureReplies, DisconnectReset, Release, CloserStep,
     ReleaseDisconnect, ReleaseReset, HubRequest, HubAcknowledge, HubRead, Stop,
     StopThread, Tick
<1>5. CASE UNCHANGED vars
  BY <1>5 DEF vars
<1> QED
  BY <1>1, <1>2, <1>3, <1>4, <1>5 DEF Next

LEMMA NextTimesRest ==
  ASSUME StaysConnected, closer = "idle", [Next]_vars, \A u \in Urbs : ~ScheduleIso(u)
  PROVE  UNCHANGED <<next_iso_out_ready, next_iso_in_ready>>
<1> USE DEF nextVars, StaysConnected
<1>1. ASSUME NEW u \in Urbs, NEW k \in Kinds, NEW a \in ArgsOf(k), Submit(u, k, a)
      PROVE  UNCHANGED <<next_iso_out_ready, next_iso_in_ready>>
  BY <1>1 DEF Submit
<1>2. ASSUME NEW u \in Urbs, SubmitStep(u) \/ Dequeue(u)
      PROVE  UNCHANGED <<next_iso_out_ready, next_iso_in_ready>>
  BY <1>2 DEF SubmitStep, AnswerControl, LookupFeature, DeferFeature, RequestFeature,
     SendOut, SetConfiguration, SetConfiguredStatus, SetInterface, SetAudioStatus,
     SendInterfaceEvent, TakeInput, QueueAnswer, Dequeue
<1>3. CASE \/ GbStep \/ Open \/ Read \/ WriteInput \/ Connect \/ Disconnect \/ SetProfile
           \/ \E r \in Reports : WriteFeatureReply(r)
  BY <1>3 DEF GbStep, GbSleep, GbWake, GbPop, GbDeliver, GbGiveback, GbExit, Open, Read,
     WriteInput, Connect, Disconnect, SetProfile, WriteFeatureReply
<1>4. CASE \/ UserStep \/ Release \/ CloserStep \/ HubRequest \/ HubAcknowledge \/ HubRead
           \/ Stop \/ StopThread \/ Tick
  BY <1>4 DEF UserStep, CompleteFeatureReplies, DisconnectReset, Release, CloserStep,
     ReleaseDisconnect, ReleaseReset, HubRequest, HubAcknowledge, HubRead, Stop,
     StopThread, Tick
<1>5. CASE UNCHANGED vars
  BY <1>5 DEF vars
<1> QED
  BY <1>1, <1>2, <1>3, <1>4, <1>5 DEF Next

(* Times that were apart stay apart when no context gets a new one ...      *)
LEMMA TimesKept ==
  ASSUME NEW k, NEW next, TimesApart(k, next),
         \A v \in Urbs : Timed(v, k)' => Timed(v, k) /\ ready'[v] = ready[v]
  PROVE  /\ \A u \in Urbs : Timed(u, k)' => ready'[u] <= next
         /\ \A u, v \in Urbs : u # v /\ Timed(u, k)' /\ Timed(v, k)' =>
              \/ ready'[u] + IsoDuration <= ready'[v]
              \/ ready'[v] + IsoDuration <= ready'[u]
BY DEF TimesApart

(* ... and when one gets the endpoint's next.                               *)
LEMMA TimesExtended ==
  ASSUME TypeOK, NEW u \in Urbs, NEW k, NEW next \in Nat, NEW later \in Nat,
         TimesApart(k, next), next + IsoDuration <= later, ready'[u] = later,
         \A v \in Urbs : v # u => Untouched(v)
  PROVE  /\ \A v \in Urbs : Timed(v, k)' => ready'[v] <= later
         /\ \A v, w \in Urbs : v # w /\ Timed(v, k)' /\ Timed(w, k)' =>
              \/ ready'[v] + IsoDuration <= ready'[w]
              \/ ready'[w] + IsoDuration <= ready'[v]
<1>1. \A v \in Urbs : ready[v] \in Nat
  BY DEF TypeOK, CtxType
<1>2. IsoDuration \in Nat \ {0}
  BY HcdAssumption
<1>3. \A v \in Urbs : v # u /\ Timed(v, k)' =>
        Timed(v, k) /\ ready'[v] = ready[v] /\ ready[v] <= next
  BY DEF Untouched, Timed, TimesApart
<1>4. \A v \in Urbs : v # u /\ Timed(v, k)' => ready'[v] + IsoDuration <= later
  BY <1>1, <1>2, <1>3
<1>5. \A v, w \in Urbs : v # w /\ Timed(v, k)' /\ Timed(w, k)' /\ v # u /\ w # u =>
        \/ ready'[v] + IsoDuration <= ready'[w]
        \/ ready'[w] + IsoDuration <= ready'[v]
  BY <1>3 DEF TimesApart
<1>6. \A v \in Urbs : Timed(v, k)' => ready'[v] <= later
  BY <1>1, <1>2, <1>3, <1>4
<1> QED
  BY <1>4, <1>5, <1>6

LEMMA NextIsoSpaced ==
  ASSUME StaysConnected, TypeOK, ListInv, IsoDueInv, IsoSpacedInv, closer = "idle",
         [Next]_vars
  PROVE  IsoSpacedInv'
<1>0. /\ IsoPath /\ \A v \in Urbs : state[v] = "FREE" => ready[v] = 0
      /\ TimesApart("iso_out", next_iso_out_ready)
      /\ TimesApart("iso_in", next_iso_in_ready)
  BY DEF IsoDueInv, IsoSpacedInv
<1>1. CASE \A u \in Urbs : ~ScheduleIso(u)
  <2>1. \A v \in Urbs : ContextStep(v)
    BY <1>0, <1>1, ContextSteps
  <2>2. ASSUME NEW v \in Urbs
        PROVE  /\ state'[v] = "FREE" => ready'[v] = 0
               /\ \A k \in {"iso_out", "iso_in"} :
                    Timed(v, k)' => Timed(v, k) /\ ready'[v] = ready[v]
    <3>1. ContextStep(v) /\ (state[v] = "FREE" => ready[v] = 0)
      BY <1>0, <2>1
    <3>2. CASE Untouched(v)
      BY <3>1, <3>2 DEF Untouched, Timed
    <3>3. CASE Submitted(v)
      BY <3>1, <3>3 DEF Submitted, Timed
    <3>4. CASE OffIso(v)
      BY <3>1, <3>4 DEF OffIso, Timed, IsIso
    <3>5. CASE AnswerQueued(v)
      BY <3>1, <3>5 DEF AnswerQueued, Timed
    <3>6. CASE Cancelled(v)
      BY <3>1, <3>6 DEF Cancelled, Timed
    <3>7. CASE Taken(v)
      BY <3>1, <3>7 DEF Taken, Timed
    <3>8. CASE Returned(v)
      BY <3>1, <3>8 DEF Returned, Timed
    <3> QED
      BY <3>1, <3>2, <3>3, <3>4, <3>5, <3>6, <3>7, <3>8 DEF ContextStep
  <2>3. UNCHANGED <<next_iso_out_ready, next_iso_in_ready>>
    BY <1>1, NextTimesRest
  <2>4. TimesApart("iso_out", next_iso_out_ready)'
    BY <1>0, <2>2, <2>3, TimesKept DEF TimesApart
  <2>5. TimesApart("iso_in", next_iso_in_ready)'
    BY <1>0, <2>2, <2>3, TimesKept DEF TimesApart
  <2> QED
    BY <2>2, <2>4, <2>5 DEF IsoSpacedInv
<1>2. ASSUME NEW u \in Urbs, ScheduleIso(u) PROVE IsoSpacedInv'
  <2>0. /\ next_iso_out_ready \in Nat /\ next_iso_in_ready \in Nat /\ now \in Nat
        /\ IsoDuration \in Nat \ {0} /\ ready \in [Urbs -> Nat]
    BY HcdAssumption DEF TypeOK, TimeType, CtxType
  <2>1. /\ state[u] # "FREE" /\ UNCHANGED <<kind, state>>
        /\ \A v \in Urbs : v # u => Untouched(v)
    BY <1>2, ScheduledContext
  <2>2. \A v \in Urbs : state'[v] = "FREE" => ready'[v] = 0
    BY <1>0, <2>1 DEF Untouched
  <2>3. CASE kind[u] = "iso_out"
    <3>1. /\ next_iso_out_ready' = Laterof(next_iso_out_ready, now) + IsoDuration
          /\ ready'[u] = next_iso_out_ready' /\ next_iso_in_ready' = next_iso_in_ready
      BY <1>2, <2>0, <2>3 DEF ScheduleIso
    <3>2. /\ next_iso_out_ready' \in Nat
          /\ next_iso_out_ready + IsoDuration <= next_iso_out_ready'
      BY <2>0, <3>1 DEF Laterof
    <3>3. TimesApart("iso_out", next_iso_out_ready)'
      BY <1>0, <2>0, <2>1, <3>1, <3>2, TimesExtended DEF TimesApart
    <3>4. \A v \in Urbs : Timed(v, "iso_in")' => Timed(v, "iso_in") /\ ready'[v] = ready[v]
      BY <2>1, <2>3 DEF Timed, Untouched
    <3>5. TimesApart("iso_in", next_iso_in_ready)'
      BY <1>0, <3>1, <3>4, TimesKept DEF TimesApart
    <3> QED
      BY <2>2, <3>3, <3>5 DEF IsoSpacedInv
  <2>4. CASE kind[u] = "iso_in"
    <3>1. /\ next_iso_in_ready' = Laterof(next_iso_in_ready, now) + IsoDuration
          /\ ready'[u] = next_iso_in_ready' /\ next_iso_out_ready' = next_iso_out_ready
      BY <1>2, <2>0, <2>4 DEF ScheduleIso
    <3>2. /\ next_iso_in_ready' \in Nat
          /\ next_iso_in_ready + IsoDuration <= next_iso_in_ready'
      BY <2>0, <3>1 DEF Laterof
    <3>3. TimesApart("iso_in", next_iso_in_ready)'
      BY <1>0, <2>0, <2>1, <3>1, <3>2, TimesExtended DEF TimesApart
    <3>4. \A v \in Urbs : Timed(v, "iso_out")' => Timed(v, "iso_out") /\ ready'[v] = ready[v]
      BY <2>1, <2>4 DEF Timed, Untouched
    <3>5. TimesApart("iso_out", next_iso_out_ready)'
      BY <1>0, <3>1, <3>4, TimesKept DEF TimesApart
    <3> QED
      BY <2>2, <3>3, <3>5 DEF IsoSpacedInv
  <2> QED
    BY <1>2, <2>3, <2>4 DEF ScheduleIso
<1> QED
  BY <1>1, <1>2

(* Within one connection the completion times of the successful URBs of an  *)
(* ISO endpoint are a URB's duration apart and none comes early: the host   *)
(* observes a realtime sink and source, whatever is unlinked or removed, as *)
(* long as no context is linked into two lists.                             *)
THEOREM IsoServedInRealtime == Spec => [](StaysConnected /\ ~relinked => IsoRealtime)
<1> DEFINE Inv == StaysConnected /\ ~relinked =>
                    closer = "idle" /\ IsoDueInv /\ IsoSpacedInv
<1>1. Init => Inv
  BY InitIso DEF Init
<1>2. TypeOK /\ (~relinked => ListInv) /\ Inv /\ [Next]_vars => Inv'
  <2> SUFFICES ASSUME TypeOK, ListInv, Inv, [Next]_vars, StaysConnected, ~relinked
               PROVE  closer' = "idle" /\ IsoDueInv' /\ IsoSpacedInv'
    BY RelinkedStays DEF StaysConnected
  <2> QED
    BY CloserRests, NextIsoDue, NextIsoSpaced
<1>3. Inv => (StaysConnected /\ ~relinked => IsoRealtime)
  BY DEF IsoSpacedInv, IsoSpaced, TimesApart, Timed, Paced, IsoDueInv, IsoRealtime
<1> HIDE DEF Inv
<1> QED
  BY <1>1, <1>2, <1>3, TypeCorrect, ListsInvariant, PTL DEF Spec
=============================================================================
