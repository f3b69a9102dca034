---------------------------- MODULE SequenceLemmas --------------------------
(***************************************************************************)
(* Facts about sets of naturals, sequences and sums that the proofs of     *)
(* several components need: least and greatest elements, what removals and *)
(* rotations leave of a sequence, how many positions of a sequence hold an *)
(* element of a set, and how a sum follows the function it sums.           *)
(***************************************************************************)
EXTENDS Integers, SequencesExt, FiniteSetTheorems, SequenceTheorems, WellFoundedInduction, TLAPS

(***************************************************************************)
(* Sets of naturals.                                                       *)
(***************************************************************************)

\* A nonempty set of naturals has a least element.
LEMMA LeastNat ==
  ASSUME NEW T \in SUBSET Nat, T # {}
  PROVE  \E m \in T : \A y \in T : m <= y
<1>1. PICK m \in T : \A y \in T : ~(<<y, m>> \in OpToRel(<, Nat))
  BY NatLessThanWellFounded, WFMin, Zenon
<1>2. \A y \in T : m <= y
  <2> SUFFICES ASSUME NEW y \in T, y < m PROVE FALSE
    OBVIOUS
  <2>1. <<y, m>> \in OpToRel(<, Nat)
    BY DEF OpToRel
  <2> QED BY <1>1, <2>1
<1> QED BY <1>2

\* A nonempty set of naturals below a bound has a greatest element.
LEMMA GreatestNat ==
  ASSUME NEW T \in SUBSET Nat, T # {}, NEW b \in Nat, \A y \in T : y <= b
  PROVE  \E m \in T : \A y \in T : y <= m
<1> DEFINE D == {b - y : y \in T}
<1>1. D \in SUBSET Nat /\ D # {}
  <2>1. ASSUME NEW y \in T PROVE b - y \in Nat
    OBVIOUS
  <2>2. PICK y \in T : TRUE
    OBVIOUS
  <2>3. b - y \in D
    OBVIOUS
  <2> QED BY <2>1, <2>3
<1> HIDE DEF D
<1>2. PICK d \in D : \A e \in D : d <= e
  BY <1>1, LeastNat
<1>3. PICK m \in T : d = b - m
  BY <1>2 DEF D
<1>4. \A y \in T : b - m <= b - y
  BY <1>2, <1>3 DEF D
<1> QED BY <1>3, <1>4

\* Min returns the least element.
LEMMA MinOfNats ==
  ASSUME NEW T \in SUBSET Nat, T # {}
  PROVE  Min(T) \in T /\ \A y \in T : Min(T) <= y
<1>1. \E m \in T : \A y \in T : m <= y
  BY LeastNat
<1> QED BY <1>1 DEF Min

(***************************************************************************)
(* Removals and rotations.                                                 *)
(***************************************************************************)

\* What is left when the element at k is removed, position by position.
LEMMA RemoveAtProperties ==
  ASSUME NEW S, NEW s \in Seq(S), NEW k \in 1..Len(s)
  PROVE  /\ RemoveAt(s, k) \in Seq(S)
         /\ Len(RemoveAt(s, k)) = Len(s) - 1
         /\ \A i \in 1..(Len(s) - 1) :
              RemoveAt(s, k)[i] = IF i < k THEN s[i] ELSE s[i + 1]
<1> DEFINE a == SubSeq(s, 1, k - 1)
           b == SubSeq(s, k + 1, Len(s))
<1>1. /\ a \in Seq(S)
      /\ Len(a) = k - 1
      /\ \A i \in 1..(k - 1) : a[i] = s[i]
  <2>1. \A i \in 1..(k - 1) : s[i] \in S
    OBVIOUS
  <2>2. k - 1 \in Int /\ 1 \in Int
    OBVIOUS
  <2>3. /\ a \in Seq(S)
        /\ Len(a) = IF 1 <= k - 1 THEN (k - 1) - 1 + 1 ELSE 0
        /\ \A i \in 1..((k - 1) - 1 + 1) : a[i] = s[1 + i - 1]
    BY <2>1, <2>2, SubSeqProperties
  <2> QED BY <2>3
<1>2. /\ b \in Seq(S)
      /\ Len(b) = Len(s) - k
      /\ \A i \in 1..(Len(s) - k) : b[i] = s[k + i]
  <2>1. \A i \in (k + 1)..Len(s) : s[i] \in S
    OBVIOUS
  <2>2. k + 1 \in Int /\ Len(s) \in Int
    OBVIOUS
  <2>3. /\ b \in Seq(S)
        /\ Len(b) = IF k + 1 <= Len(s) THEN Len(s) - (k + 1) + 1 ELSE 0
        /\ \A i \in 1..(Len(s) - (k + 1) + 1) : b[i] = s[(k + 1) + i - 1]
    BY <2>1, <2>2, SubSeqProperties
  <2> QED BY <2>3
<1>3. RemoveAt(s, k) = a \o b
  BY DEF RemoveAt
<1> HIDE DEF a, b
<1>4. /\ a \o b \in Seq(S)
      /\ Len(a \o b) = Len(a) + Len(b)
      /\ \A i \in 1..(Len(a) + Len(b)) :
           (a \o b)[i] = IF i <= Len(a) THEN a[i] ELSE b[i - Len(a)]
  BY <1>1, <1>2, ConcatProperties
<1>5. ASSUME NEW i \in 1..(Len(s) - 1)
      PROVE  (a \o b)[i] = IF i < k THEN s[i] ELSE s[i + 1]
  <2>1. CASE i < k
    BY <1>1, <1>2, <1>4, <2>1
  <2>2. CASE ~(i < k)
    <3>1. i - (k - 1) \in 1..(Len(s) - k)
      BY <2>2
    <3>2. b[i - (k - 1)] = s[k + (i - (k - 1))]
      BY <1>2, <3>1
    <3> QED BY SMTT(20), <1>1, <1>2, <1>4, <2>2, <3>2
  <2> QED BY <2>1, <2>2
<1> QED BY <1>1, <1>2, <1>3, <1>4, <1>5

\* Removing the only occurrence of e.
LEMMA RemoveFirstInjective ==
  ASSUME NEW S, NEW s \in Seq(S), NEW e, IsInjective(s)
  PROVE  /\ RemoveFirst(s, e) \in Seq(S)
         /\ IsInjective(RemoveFirst(s, e))
         /\ ToSet(RemoveFirst(s, e)) = ToSet(s) \ {e}
<1>1. CASE ~ \E i \in 1..Len(s) : s[i] = e
  BY <1>1 DEF RemoveFirst, ToSet
<1>2. ASSUME NEW k \in 1..Len(s), s[k] = e
      PROVE  /\ RemoveFirst(s, e) \in Seq(S)
             /\ IsInjective(RemoveFirst(s, e))
             /\ ToSet(RemoveFirst(s, e)) = ToSet(s) \ {e}
  <2>1. {i \in 1..Len(s) : s[i] = e} = {k}
    BY <1>2 DEF IsInjective
  <2>2. SelectInSeq(s, LAMBDA v : v = e) = k
    BY <2>1 DEF SelectInSeq, Min
  <2> DEFINE t == RemoveAt(s, k)
  <2>3. RemoveFirst(s, e) = t
    BY <1>2, <2>2 DEF RemoveFirst
  <2>4. /\ t \in Seq(S)
        /\ Len(t) = Len(s) - 1
        /\ \A i \in 1..(Len(s) - 1) : t[i] = IF i < k THEN s[i] ELSE s[i + 1]
    BY RemoveAtProperties
  <2> HIDE DEF t
  <2>5. IsInjective(t)
    <3> SUFFICES ASSUME NEW i \in 1..(Len(s) - 1), NEW j \in 1..(Len(s) - 1), t[i] = t[j]
                 PROVE  i = j
      BY <2>4 DEF IsInjective
    <3> DEFINE at(n) == IF n < k THEN n ELSE n + 1
    <3>1. /\ at(i) \in 1..Len(s) /\ s[at(i)] = t[i]
          /\ at(j) \in 1..Len(s) /\ s[at(j)] = t[j]
      BY <2>4
    <3>2. at(i) = at(j)
      BY <3>1 DEF IsInjective
    <3> QED BY <3>2
  <2>6. ASSUME NEW x \in ToSet(t) PROVE x \in ToSet(s) \ {e}
    BY <1>2, <2>4 DEF ToSet, IsInjective
  <2>7. ASSUME NEW x \in ToSet(s) \ {e} PROVE x \in ToSet(t)
    <3>1. PICK j \in 1..Len(s) : s[j] = x
      BY DEF ToSet
    <3>2. CASE j < k
      BY <3>1, <3>2, <2>4 DEF ToSet
    <3>3. CASE j > k
      <4>1. j - 1 \in 1..Len(t) /\ t[j - 1] = x
        BY <3>1, <3>3, <2>4
      <4> QED BY <4>1, <2>4 DEF ToSet
    <3>4. j # k
      BY <3>1, <1>2
    <3> QED BY <3>2, <3>3, <3>4
  <2> QED BY <2>3, <2>4, <2>5, <2>6, <2>7
<1> QED BY <1>1, <1>2

\* Nothing moves back when the first match is removed.
LEMMA RemoveFirstShifts ==
  ASSUME NEW S, NEW s \in Seq(S), NEW e
  PROVE  /\ Len(RemoveFirst(s, e)) \in Nat
         /\ \A i \in 1..Len(RemoveFirst(s, e)) :
              \E j \in 1..Len(s) : i <= j /\ RemoveFirst(s, e)[i] = s[j]
<1>1. CASE ~ \E i \in 1..Len(s) : s[i] = e
  BY <1>1 DEF RemoveFirst
<1>2. CASE \E i \in 1..Len(s) : s[i] = e
  <2> DEFINE I == {i \in 1..Len(s) : s[i] = e}
  <2>1. SelectInSeq(s, LAMBDA v : v = e) = Min(I)
    BY <1>2 DEF SelectInSeq
  <2>2. Min(I) \in I
    <3>1. I \in SUBSET Nat /\ I # {}
      BY <1>2
    <3> HIDE DEF I
    <3> QED BY <3>1, MinOfNats
  <2>3. RemoveFirst(s, e) = RemoveAt(s, Min(I)) /\ Min(I) \in 1..Len(s)
    BY <1>2, <2>1, <2>2 DEF RemoveFirst
  <2> HIDE DEF I
  <2>4. ASSUME NEW k \in 1..Len(s), NEW t, t = RemoveAt(s, k)
        PROVE  /\ Len(t) \in Nat
               /\ \A i \in 1..Len(t) : \E j \in 1..Len(s) : i <= j /\ t[i] = s[j]
    <3>1. /\ Len(t) = Len(s) - 1 /\ Len(t) \in Nat
          /\ \A i \in 1..(Len(s) - 1) : t[i] = IF i < k THEN s[i] ELSE s[i + 1]
      BY SMTT(20), <2>4, RemoveAtProperties
    <3>2. ASSUME NEW i \in 1..Len(t)
          PROVE  \E j \in 1..Len(s) : i <= j /\ t[i] = s[j]
      <4>1. i \in 1..Len(s) /\ i + 1 \in 1..Len(s) /\ i <= i + 1
        BY <3>1
      <4> QED BY <3>1, <4>1
    <3> QED BY <3>1, <3>2
  <2>5. PICK k \in 1..Len(s) : RemoveFirst(s, e) = RemoveAt(s, k)
    BY <2>3
  <2> QED BY <2>4, <2>5
<1> QED BY <1>1, <1>2

\* A sequence without repetitions is no longer than the set of its elements.
LEMMA InjectiveLen ==
  ASSUME NEW S, IsFiniteSet(S), NEW s \in Seq(S), IsInjective(s)
  PROVE  Len(s) <= Cardinality(S)
<1>1. s \in Injection(1..Len(s), S)
  BY DEF IsInjective, Injection
<1>2. Cardinality(1..Len(s)) = Len(s)
  <2>1. ASSUME NEW n \in Nat PROVE Cardinality(1..n) = n
    BY FS_Interval
  <2> QED BY <2>1, LenProperties
<1>3. Cardinality(1..Len(s)) <= Cardinality(S)
  BY <1>1, FS_Injection
<1> QED BY <1>2, <1>3

\* Appending an element that a sequence does not hold.
LEMMA AppendFresh ==
  ASSUME NEW S, NEW s \in Seq(S), NEW e \in S, e \notin ToSet(s), IsInjective(s)
  PROVE  /\ Append(s, e) \in Seq(S)
         /\ IsInjective(Append(s, e))
         /\ ToSet(Append(s, e)) = ToSet(s) \cup {e}
<1>1. Append(s, e) \in Seq(S) /\ IsInjective(Append(s, e))
  BY DEF IsInjective, ToSet
<1>2. ToSet(Append(s, e)) = ToSet(s) \cup {e}
  <2>1. /\ DOMAIN Append(s, e) = DOMAIN s \cup {Len(s) + 1}
        /\ \A i \in DOMAIN s : Append(s, e)[i] = s[i]
        /\ Append(s, e)[Len(s) + 1] = e
    OBVIOUS
  <2> QED BY <2>1, Zenon DEF ToSet
<1> QED BY <1>1, <1>2

\* Moving the head of an injective sequence to its end.
LEMMA RotateInjective ==
  ASSUME NEW S, NEW s \in Seq(S), s # <<>>, IsInjective(s)
  PROVE  /\ Tail(s) \in Seq(S)
         /\ IsInjective(Tail(s))
         /\ ToSet(Tail(s)) = ToSet(s) \ {Head(s)}
         /\ Append(Tail(s), Head(s)) \in Seq(S)
         /\ IsInjective(Append(Tail(s), Head(s)))
         /\ ToSet(Append(Tail(s), Head(s))) = ToSet(s)
<1>1. /\ Tail(s) \in Seq(S)
      /\ Len(Tail(s)) = Len(s) - 1
      /\ \A i \in 1..(Len(s) - 1) : Tail(s)[i] = s[i + 1]
      /\ Head(s) = s[1] /\ Head(s) \in S /\ Len(s) >= 1
  OBVIOUS
<1>2. IsInjective(Tail(s))
  <2> SUFFICES ASSUME NEW i \in 1..(Len(s) - 1), NEW j \in 1..(Len(s) - 1),
                      Tail(s)[i] = Tail(s)[j]
               PROVE  i = j
    BY <1>1 DEF IsInjective
  <2>1. s[i + 1] = s[j + 1] /\ i + 1 \in DOMAIN s /\ j + 1 \in DOMAIN s
    BY <1>1
  <2> QED BY <2>1 DEF IsInjective
<1>3. ToSet(Tail(s)) = ToSet(s) \ {Head(s)}
  <2>1. ASSUME NEW x \in ToSet(Tail(s)) PROVE x \in ToSet(s) \ {Head(s)}
    <3>1. PICK i \in 1..(Len(s) - 1) : x = s[i + 1]
      BY <1>1 DEF ToSet
    <3>2. i + 1 \in DOMAIN s /\ 1 \in DOMAIN s /\ i + 1 # 1
      BY <1>1
    <3> QED BY <1>1, <3>1, <3>2 DEF IsInjective, ToSet
  <2>2. ASSUME NEW x \in ToSet(s) \ {Head(s)} PROVE x \in ToSet(Tail(s))
    <3>1. PICK j \in 1..Len(s) : x = s[j] /\ j # 1
      BY <1>1 DEF ToSet
    <3>2. j - 1 \in 1..(Len(s) - 1) /\ Tail(s)[j - 1] = x
      BY <1>1, <3>1
    <3>3. DOMAIN Tail(s) = 1..(Len(s) - 1)
      BY <1>1
    <3> QED BY <3>2, <3>3 DEF ToSet
  <2> QED BY <2>1, <2>2
<1> DEFINE t == Tail(s)
           h == Head(s)
<1>4. t \in Seq(S) /\ h \in S /\ h \notin ToSet(t) /\ IsInjective(t)
  BY <1>1, <1>2, <1>3
<1>5. h \in ToSet(s)
  BY <1>1 DEF ToSet
<1> HIDE DEF t, h
<1>6. Append(t, h) \in Seq(S) /\ IsInjective(Append(t, h))
  BY <1>4, AppendFresh
<1>7. ToSet(Append(t, h)) = ToSet(t) \cup {h}
  BY <1>4, AppendFresh
<1>8. ToSet(Append(t, h)) = ToSet(s)
  BY <1>3, <1>5, <1>7 DEF t, h
<1> QED BY <1>1, <1>2, <1>3, <1>6, <1>8 DEF t, h

(***************************************************************************)
(* Counting.                                                               *)
(***************************************************************************)

\* The positions of s that hold an element of T.
PositionsIn(s, T) == {k \in DOMAIN s : s[k] \in T}

CountIn(s, T) == Cardinality(PositionsIn(s, T))

\* There are finitely many.
LEMMA CountType ==
  ASSUME NEW S, NEW s \in Seq(S), NEW T
  PROVE  IsFiniteSet(PositionsIn(s, T)) /\ CountIn(s, T) \in Nat
<1>1. IsFiniteSet(1..Len(s))
  BY FS_Interval
<1>2. PositionsIn(s, T) \in SUBSET (1..Len(s))
  BY DEF PositionsIn
<1>3. IsFiniteSet(PositionsIn(s, T))
  BY <1>1, <1>2, FS_Subset
<1> QED BY <1>3, FS_CardinalityType DEF CountIn

\* Appending an element counts it.
LEMMA CountAppend ==
  ASSUME NEW S, NEW s \in Seq(S), NEW e \in S, NEW T
  PROVE  CountIn(Append(s, e), T) = CountIn(s, T) + (IF e \in T THEN 1 ELSE 0)
<1> DEFINE t == Append(s, e)
           n == Len(s) + 1
<1>1. /\ DOMAIN t = 1..n /\ DOMAIN s = 1..Len(s) /\ Len(s) \in Nat
      /\ \A i \in 1..Len(s) : t[i] = s[i]
      /\ t[n] = e
  BY AppendProperties, LenProperties
<1> HIDE DEF t
<1>2. CASE e \in T
  <2>1. PositionsIn(t, T) = PositionsIn(s, T) \cup {n}
    BY <1>1, <1>2 DEF PositionsIn
  <2>2. n \notin PositionsIn(s, T)
    BY <1>1 DEF PositionsIn
  <2>3. CountIn(t, T) = CountIn(s, T) + 1
    BY <2>1, <2>2, CountType, FS_AddElement DEF CountIn
  <2> QED BY <1>2, <2>3 DEF t
<1>3. CASE e \notin T
  <2>1. PositionsIn(t, T) = PositionsIn(s, T)
    BY <1>1, <1>3 DEF PositionsIn
  <2>2. CountIn(t, T) = CountIn(s, T) + 0
    BY <2>1, CountType DEF CountIn
  <2> QED BY <1>3, <2>2 DEF t
<1> QED BY <1>2, <1>3

\* Two sequences that have the same elements but for the one at k, which the
\* second has not, differ by that element in every count.
LEMMA CountWithout ==
  ASSUME NEW S, NEW s \in Seq(S), NEW k \in 1..Len(s), NEW t \in Seq(S), NEW T,
         Len(t) = Len(s) - 1,
         \A i \in 1..(Len(s) - 1) : t[i] = IF i < k THEN s[i] ELSE s[i + 1]
  PROVE  CountIn(t, T) = CountIn(s, T) - (IF s[k] \in T THEN 1 ELSE 0)
<1> DEFINE A == PositionsIn(s, T) \ {k}
           B == PositionsIn(t, T)
           f == [i \in B |-> IF i < k THEN i ELSE i + 1]
<1>1. /\ DOMAIN s = 1..Len(s) /\ Len(s) \in Nat
      /\ DOMAIN t = 1..(Len(s) - 1)
  BY LenProperties
<1>2. f \in [B -> A]
  <2>1. ASSUME NEW i \in B
        PROVE  (IF i < k THEN i ELSE i + 1) \in A
    BY <1>1 DEF PositionsIn
  <2> QED BY <2>1
<1>3. IsInjective(f)
  <2>1. ASSUME NEW i \in B, NEW j \in B, f[i] = f[j]
        PROVE  i = j
    BY <1>1, <2>1 DEF PositionsIn
  <2>2. DOMAIN f = B
    OBVIOUS
  <2> QED BY <2>1, <2>2 DEF IsInjective
<1>4. \A a \in A : \E i \in B : f[i] = a
  <2> SUFFICES ASSUME NEW a \in A
               PROVE  \E i \in B : f[i] = a
    OBVIOUS
  <2>1. a \in 1..Len(s) /\ a # k /\ s[a] \in T
    BY <1>1 DEF PositionsIn
  <2>2. CASE a < k
    <3>1. a \in B
      BY <1>1, <2>1, <2>2 DEF PositionsIn
    <3> QED BY <2>2, <3>1
  <2>3. CASE a > k
    <3>1. a - 1 \in B /\ ~(a - 1 < k)
      BY <1>1, <2>1, <2>3 DEF PositionsIn
    <3> QED BY <2>1, <3>1
  <2> QED BY <2>1, <2>2, <2>3
<1>5. ExistsBijection(B, A)
  <2> HIDE DEF f, A, B
  <2>1. f \in Bijection(B, A)
    BY <1>2, <1>3, <1>4 DEF Bijection, Injection, Surjection
  <2> QED BY <2>1 DEF ExistsBijection
<1>6. IsFiniteSet(B) /\ IsFiniteSet(PositionsIn(s, T))
  BY CountType
<1>7. Cardinality(A) = Cardinality(B)
  <2> HIDE DEF A, B
  <2> QED BY <1>5, <1>6, FS_Bijection
<1>8. Cardinality(A) = CountIn(s, T) - (IF k \in PositionsIn(s, T) THEN 1 ELSE 0)
  <2> DEFINE P == PositionsIn(s, T)
  <2>1. Cardinality(P) \in Nat
    BY CountType DEF CountIn
  <2>2. Cardinality(P \ {k}) = IF k \in P THEN Cardinality(P) - 1 ELSE Cardinality(P)
    <3> HIDE DEF P
    <3> QED BY <1>6, FS_RemoveElement DEF P
  <2> QED BY <2>1, <2>2 DEF CountIn
<1>9. k \in PositionsIn(s, T) <=> s[k] \in T
  BY <1>1 DEF PositionsIn
<1> QED BY <1>7, <1>8, <1>9 DEF CountIn

\* Removing an element uncounts it.
LEMMA CountRemoveAt ==
  ASSUME NEW S, NEW s \in Seq(S), NEW k \in 1..Len(s), NEW T
  PROVE  CountIn(RemoveAt(s, k), T) = CountIn(s, T) - (IF s[k] \in T THEN 1 ELSE 0)
<1> DEFINE t == RemoveAt(s, k)
<1>1. /\ t \in Seq(S) /\ Len(t) = Len(s) - 1
      /\ \A i \in 1..(Len(s) - 1) : t[i] = IF i < k THEN s[i] ELSE s[i + 1]
  BY RemoveAtProperties
<1> HIDE DEF t
<1>2. CountIn(t, T) = CountIn(s, T) - (IF s[k] \in T THEN 1 ELSE 0)
  BY <1>1, CountWithout
<1> QED BY <1>2 DEF t

\* So does taking the head.
LEMMA CountTail ==
  ASSUME NEW S, NEW s \in Seq(S), s # <<>>, NEW T
  PROVE  CountIn(Tail(s), T) = CountIn(s, T) - (IF Head(s) \in T THEN 1 ELSE 0)
<1> DEFINE t == Tail(s)
<1>1. /\ t \in Seq(S) /\ Len(t) = Len(s) - 1
      /\ \A i \in 1..(Len(s) - 1) : t[i] = s[i + 1]
      /\ 1 \in 1..Len(s) /\ Head(s) = s[1] /\ Len(s) \in Nat
  BY HeadTailProperties, LenProperties
<1> HIDE DEF t
<1>2. \A i \in 1..(Len(s) - 1) : t[i] = IF i < 1 THEN s[i] ELSE s[i + 1]
  BY <1>1
<1>3. CountIn(t, T) = CountIn(s, T) - (IF s[1] \in T THEN 1 ELSE 0)
  BY <1>1, <1>2, CountWithout
<1> QED BY <1>1, <1>3 DEF t

(***************************************************************************)
(* Sums of functions over finite sets.  SumFunction of the community       *)
(* modules folds over the domain, always taking the element that CHOOSE    *)
(* picks; the lemmas free it from that order: any element may be split off *)
(* (SumRemove), and the indices may be renamed (SumRename).                *)
(***************************************************************************)

\* The element that a fold over s takes first.
Pick(s) == CHOOSE x \in s : TRUE

\* g solves the recursion of that fold for every set of D.
IsSumOn(g, f, D) ==
  g = [s \in D |-> IF s = {} THEN 0 ELSE f[Pick(s)] + g[s \ {Pick(s)}]]

IsSum(g, f, S) == IsSumOn(g, f, SUBSET S)

\* The fold of the community modules is the recursive sum above.
LEMMA SumIs ==
  ASSUME NEW f, NEW S
  PROVE  SumFunctionOnSet(f, S) = (CHOOSE g : IsSum(g, f, S))[S]
BY DEF SumFunctionOnSet, FoldFunctionOnSet, MapThenFoldSet, IsSum, IsSumOn, Pick

\* Subsets of S with at most n elements.
Small(S, n) == {s \in SUBSET S : Cardinality(s) <= n}

\* A finite subset without the element that is picked has one element less.
LEMMA PickOne ==
  ASSUME NEW s, IsFiniteSet(s), s # {}
  PROVE  /\ Pick(s) \in s
         /\ IsFiniteSet(s \ {Pick(s)})
         /\ Cardinality(s) \in Nat /\ Cardinality(s \ {Pick(s)}) \in Nat
         /\ Cardinality(s \ {Pick(s)}) = Cardinality(s) - 1
<1>1. Pick(s) \in s
  BY DEF Pick
<1> QED BY <1>1, FS_RemoveElement, FS_CardinalityType

\* The recursion has a solution on every finite set.
LEMMA SumExists ==
  ASSUME NEW f, NEW S, IsFiniteSet(S)
  PROVE  \E g : IsSum(g, f, S)
<1> DEFINE Bad == {n \in Nat : ~ \E g : IsSumOn(g, f, Small(S, n))}
<1>1. \A s \in SUBSET S : IsFiniteSet(s) /\ Cardinality(s) \in Nat
  BY FS_Subset, FS_CardinalityType
<1>2. Bad = {}
  <2> SUFFICES ASSUME Bad # {} PROVE FALSE
    OBVIOUS
  <2>1. PICK m \in Bad : \A n \in Bad : m <= n
    <3>1. Bad \in SUBSET Nat
      OBVIOUS
    <3> HIDE DEF Bad
    <3> QED BY <3>1, LeastNat
  <2>2. CASE m = 0
    <3> DEFINE g == [s \in Small(S, 0) |-> 0]
    <3>1. \A s \in Small(S, 0) : s = {}
      BY <1>1, FS_EmptySet DEF Small
    <3>2. IsSumOn(g, f, Small(S, 0))
      BY <3>1 DEF IsSum, IsSumOn
    <3> QED BY <2>2, <3>2
  <2>3. CASE m # 0
    <3>1. m - 1 \in Nat /\ m - 1 \notin Bad
      BY <2>1, <2>3
    <3>2. PICK h : IsSumOn(h, f, Small(S, m - 1))
      BY <3>1
    <3> DEFINE g == [s \in Small(S, m) |-> IF s = {} THEN 0 ELSE f[Pick(s)] + h[s \ {Pick(s)}]]
    <3>3. ASSUME NEW s \in Small(S, m - 1)
          PROVE  s \in Small(S, m) /\ g[s] = h[s]
      <4>1. s \in Small(S, m)
        BY <1>1, <2>1 DEF Small
      <4>2. h[s] = IF s = {} THEN 0 ELSE f[Pick(s)] + h[s \ {Pick(s)}]
        BY <3>2 DEF IsSum, IsSumOn
      <4> QED BY <4>1, <4>2
    <3>4. ASSUME NEW s \in Small(S, m), s # {}
          PROVE  s \ {Pick(s)} \in Small(S, m - 1)
      <4>1. Cardinality(s) \in Nat /\ Cardinality(s) <= m /\ IsFiniteSet(s) /\ s \in SUBSET S
        BY <1>1 DEF Small
      <4>2. Cardinality(s \ {Pick(s)}) = Cardinality(s) - 1
        BY <3>4, <4>1, PickOne
      <4>3. Cardinality(s \ {Pick(s)}) <= m - 1
        BY <2>1, <4>1, <4>2
      <4> QED BY <4>1, <4>3 DEF Small
    <3>5. \A s \in Small(S, m) : g[s] = IF s = {} THEN 0 ELSE f[Pick(s)] + g[s \ {Pick(s)}]
      BY <3>3, <3>4
    <3>6. IsSumOn(g, f, Small(S, m))
      <4>1. g = [s \in Small(S, m) |-> g[s]]
        OBVIOUS
      <4> HIDE DEF g
      <4> QED BY <3>5, <4>1 DEF IsSum, IsSumOn
    <3> QED BY <2>1, <3>6
  <2> QED BY <2>2, <2>3
<1>3. Cardinality(S) \in Nat /\ Small(S, Cardinality(S)) = SUBSET S
  <2>1. \A s \in SUBSET S : Cardinality(s) <= Cardinality(S)
    BY FS_Subset
  <2> QED BY <1>1, <2>1 DEF Small
<1>4. PICK g : IsSumOn(g, f, Small(S, Cardinality(S)))
  BY <1>2, <1>3
<1>5. IsSum(g, f, S)
  BY <1>3, <1>4 DEF IsSum
<1> QED BY <1>5

\* Two solutions agree where both are defined.
LEMMA SumUnique ==
  ASSUME NEW f, NEW S, IsFiniteSet(S), NEW T \in SUBSET S, NEW g, NEW h,
         IsSum(g, f, S), IsSum(h, f, T)
  PROVE  g[T] = h[T]
<1> DEFINE Bad == {n \in Nat : \E s \in SUBSET T : Cardinality(s) = n /\ g[s] # h[s]}
<1>1. \A s \in SUBSET T : IsFiniteSet(s) /\ Cardinality(s) \in Nat /\ s \in SUBSET S
  BY FS_Subset, FS_CardinalityType
<1>2. Bad = {}
  <2> SUFFICES ASSUME Bad # {} PROVE FALSE
    OBVIOUS
  <2>1. PICK m \in Bad : \A n \in Bad : m <= n
    <3>1. Bad \in SUBSET Nat
      OBVIOUS
    <3> HIDE DEF Bad
    <3> QED BY <3>1, LeastNat
  <2>2. PICK s \in SUBSET T : Cardinality(s) = m /\ g[s] # h[s]
    BY <2>1
  <2>3. s # {}
    BY <1>1, <2>2 DEF IsSum, IsSumOn
  <2> DEFINE r == s \ {Pick(s)}
  <2>4. r \in SUBSET T /\ Cardinality(r) \in Nat /\ Cardinality(r) = m - 1
    BY <1>1, <2>2, <2>3, PickOne
  <2>5. g[s] = f[Pick(s)] + g[r] /\ h[s] = f[Pick(s)] + h[r]
    BY <1>1, <2>2, <2>3 DEF IsSum, IsSumOn
  <2>6. g[r] # h[r]
    BY <2>2, <2>5
  <2> HIDE DEF r
  <2>7. m - 1 \in Bad
    BY <2>4, <2>6
  <2> QED BY <2>1, <2>7
<1> QED BY <1>1, <1>2

\* The sum of nothing, and the sum of the rest and one element.
LEMMA SumPick ==
  ASSUME NEW f, NEW S, IsFiniteSet(S)
  PROVE  /\ S = {} => SumFunctionOnSet(f, S) = 0
         /\ S # {} => SumFunctionOnSet(f, S) = f[Pick(S)] + SumFunctionOnSet(f, S \ {Pick(S)})
<1> DEFINE r == S \ {Pick(S)}
<1>1. PICK g : IsSum(g, f, S) /\ SumFunctionOnSet(f, S) = g[S]
  BY SumExists, SumIs
<1>2. PICK h : IsSum(h, f, r) /\ SumFunctionOnSet(f, r) = h[r]
  <2>1. IsFiniteSet(r)
    BY FS_Subset
  <2> HIDE DEF r
  <2> QED BY <2>1, SumExists, SumIs
<1>3. g[r] = h[r]
  <2>1. r \in SUBSET S
    OBVIOUS
  <2> HIDE DEF r
  <2>2. IsSum(g, f, S) /\ IsSum(h, f, r)
    BY <1>1, <1>2
  <2> QED BY <2>1, <2>2, SumUnique
<1>4. g[S] = IF S = {} THEN 0 ELSE f[Pick(S)] + g[r]
  BY <1>1 DEF IsSum, IsSumOn
<1> QED BY <1>1, <1>2, <1>3, <1>4

\* A sum of numbers is a number.
LEMMA SumType ==
  ASSUME NEW f, NEW S, IsFiniteSet(S), \A x \in S : f[x] \in Int
  PROVE  /\ SumFunctionOnSet(f, S) \in Int
         /\ (\A x \in S : f[x] \in Nat) => SumFunctionOnSet(f, S) \in Nat
<1> DEFINE good(T) == /\ SumFunctionOnSet(f, T) \in Int
                      /\ (\A x \in S : f[x] \in Nat) => SumFunctionOnSet(f, T) \in Nat
           Bad == {n \in Nat : \E T \in SUBSET S : Cardinality(T) = n /\ ~good(T)}
<1>1. \A T \in SUBSET S : IsFiniteSet(T) /\ Cardinality(T) \in Nat
  BY FS_Subset, FS_CardinalityType
<1>2. Bad = {}
  <2> SUFFICES ASSUME Bad # {} PROVE FALSE
    OBVIOUS
  <2>1. PICK m \in Bad : \A n \in Bad : m <= n
    <3>1. Bad \in SUBSET Nat
      OBVIOUS
    <3> HIDE DEF Bad
    <3> QED BY <3>1, LeastNat
  <2>2. PICK T \in SUBSET S : Cardinality(T) = m /\ ~good(T)
    BY <2>1
  <2>3. T # {}
    <3>1. IsFiniteSet({})
      BY FS_EmptySet
    <3>2. SumFunctionOnSet(f, {}) = 0
      BY <3>1, SumPick
    <3> QED BY <2>2, <3>2
  <2> DEFINE r == T \ {Pick(T)}
  <2>4. r \in SUBSET S /\ Cardinality(r) \in Nat /\ Cardinality(r) = m - 1 /\ Pick(T) \in S
    BY <1>1, <2>2, <2>3, PickOne
  <2>5. SumFunctionOnSet(f, T) = f[Pick(T)] + SumFunctionOnSet(f, r)
    BY <1>1, <2>3, SumPick
  <2>6. ~good(r)
    <3> HIDE DEF r
    <3> QED BY <2>2, <2>4, <2>5
  <2> HIDE DEF r, good
  <2>7. m - 1 \in Bad
    BY <2>4, <2>6
  <2> QED BY <2>1, <2>7
<1> QED BY <1>1, <1>2

\* Any element can be taken out of the sum.
LEMMA SumRemove ==
  ASSUME NEW f, NEW S, IsFiniteSet(S), \A x \in S : f[x] \in Int, NEW e \in S
  PROVE  SumFunctionOnSet(f, S) = f[e] + SumFunctionOnSet(f, S \ {e})
<1> DEFINE good(T) == \A x \in T : SumFunctionOnSet(f, T) = f[x] + SumFunctionOnSet(f, T \ {x})
           Bad == {n \in Nat : \E T \in SUBSET S : Cardinality(T) = n /\ ~good(T)}
<1>1. \A T \in SUBSET S : /\ IsFiniteSet(T) /\ Cardinality(T) \in Nat
                          /\ SumFunctionOnSet(f, T) \in Int
  <2>1. \A T \in SUBSET S : IsFiniteSet(T) /\ Cardinality(T) \in Nat
    BY FS_Subset, FS_CardinalityType
  <2>2. ASSUME NEW T \in SUBSET S PROVE SumFunctionOnSet(f, T) \in Int
    BY <2>1, SumType
  <2> QED BY <2>1, <2>2
<1>2. Bad = {}
  <2> SUFFICES ASSUME Bad # {} PROVE FALSE
    OBVIOUS
  <2>1. PICK m \in Bad : \A n \in Bad : m <= n
    <3>1. Bad \in SUBSET Nat
      OBVIOUS
    <3> HIDE DEF Bad
    <3> QED BY <3>1, LeastNat
  <2>2. PICK T \in SUBSET S, x \in S :
          /\ x \in T
          /\ Cardinality(T) = m
          /\ SumFunctionOnSet(f, T) # f[x] + SumFunctionOnSet(f, T \ {x})
    BY <2>1
  <2> DEFINE c == Pick(T)
             r == T \ {c}
             w == T \ {x}
  <2>3. /\ c \in T /\ c \in S /\ x \in S /\ r \in SUBSET S /\ w \in SUBSET S
        /\ Cardinality(r) \in Nat /\ Cardinality(r) = m - 1
    BY <1>1, <2>2, PickOne
  <2>4. SumFunctionOnSet(f, T) = f[c] + SumFunctionOnSet(f, r)
    BY <1>1, <2>2, SumPick
  <2>5. c # x
    BY <2>2, <2>4
  <2>6. Cardinality(w) = m - 1
    BY <1>1, <2>2, FS_RemoveElement
  <2>7. good(r) /\ good(w)
    <3> HIDE DEF good, r, w
    <3>1. m - 1 \in Nat /\ m - 1 \notin Bad
      BY <2>1, <2>3
    <3> QED BY <2>3, <2>6, <3>1
  <2>8. x \in r /\ c \in w /\ r \ {x} = w \ {c}
    BY <2>2, <2>3, <2>5
  <2>9. /\ SumFunctionOnSet(f, r) = f[x] + SumFunctionOnSet(f, r \ {x})
        /\ SumFunctionOnSet(f, w) = f[c] + SumFunctionOnSet(f, r \ {x})
    <3> HIDE DEF r, w, c
    <3> QED BY <2>7, <2>8
  <2>10. /\ f[x] \in Int /\ f[c] \in Int /\ SumFunctionOnSet(f, r \ {x}) \in Int
    <3>1. r \ {x} \in SUBSET S
      BY <2>3
    <3> HIDE DEF r, c
    <3> QED BY <1>1, <2>3, <3>1
  <2>11. SumFunctionOnSet(f, T) # f[x] + SumFunctionOnSet(f, w)
    BY <2>2
  <2> HIDE DEF r, w, c
  <2> QED BY <2>4, <2>9, <2>10, <2>11
<1>3. good(S)
  <2> HIDE DEF good
  <2> QED BY <1>1, <1>2
<1> QED BY <1>3

\* The sum depends on the numbers and not on their names: h renames S to T.
LEMMA SumRename ==
  ASSUME NEW f, NEW S, IsFiniteSet(S), NEW g, NEW T, IsFiniteSet(T), NEW h \in [S -> T],
         \A x \in S : f[x] \in Int /\ g[h[x]] = f[x],
         \A x, y \in S : h[x] = h[y] => x = y,
         \A y \in T : \E x \in S : h[x] = y
  PROVE  SumFunctionOnSet(f, S) = SumFunctionOnSet(g, T)
<1> DEFINE im(A) == {h[x] : x \in A}
           good(A) == SumFunctionOnSet(f, A) = SumFunctionOnSet(g, im(A))
           Bad == {n \in Nat : \E A \in SUBSET S : Cardinality(A) = n /\ ~good(A)}
<1>1. \A A \in SUBSET S : IsFiniteSet(A) /\ Cardinality(A) \in Nat
  BY FS_Subset, FS_CardinalityType
<1>2. Bad = {}
  <2> SUFFICES ASSUME Bad # {} PROVE FALSE
    OBVIOUS
  <2>1. PICK m \in Bad : \A n \in Bad : m <= n
    <3>1. Bad \in SUBSET Nat
      OBVIOUS
    <3> HIDE DEF Bad
    <3> QED BY <3>1, LeastNat
  <2>2. PICK A \in SUBSET S : Cardinality(A) = m /\ ~good(A)
    BY <2>1
  <2>3. A # {}
    <3>1. ASSUME A = {} PROVE FALSE
      <4>1. im(A) = {}
        BY <3>1
      <4>2. IsFiniteSet({})
        BY FS_EmptySet
      <4>3. SumFunctionOnSet(f, {}) = 0 /\ SumFunctionOnSet(g, {}) = 0
        BY <4>2, SumPick
      <4> QED BY <2>2, <3>1, <4>1, <4>3
    <3> QED BY <3>1
  <2> DEFINE c == Pick(A)
             r == A \ {c}
  <2>4. c \in A /\ r \in SUBSET S /\ Cardinality(r) \in Nat /\ Cardinality(r) = m - 1
    BY <1>1, <2>2, <2>3, PickOne
  <2>5. SumFunctionOnSet(f, A) = f[c] + SumFunctionOnSet(f, r)
    BY <1>1, <2>3, SumPick
  <2>6. SumFunctionOnSet(g, im(A)) = g[h[c]] + SumFunctionOnSet(g, im(r))
    <3>1. im(A) \in SUBSET T /\ h[c] \in im(A) /\ im(r) = im(A) \ {h[c]}
      BY <2>4
    <3>2. IsFiniteSet(im(A))
      BY <3>1, FS_Subset
    <3>3. \A y \in im(A) : g[y] \in Int
      OBVIOUS
    <3> HIDE DEF im, c, r
    <3> QED BY <3>1, <3>2, <3>3, SumRemove
  <2>7. ~good(r)
    <3>1. g[h[c]] = f[c]
      BY <2>4
    <3> HIDE DEF im, c, r
    <3> QED BY <2>2, <2>5, <2>6, <3>1
  <2> HIDE DEF r, good
  <2>8. m - 1 \in Bad
    BY <2>4, <2>7
  <2> QED BY <2>1, <2>8
<1>3. im(S) = T
  OBVIOUS
<1>4. good(S)
  <2> HIDE DEF good
  <2> QED BY <1>1, <1>2
<1> HIDE DEF im
<1> QED BY <1>3, <1>4

\* Functions that agree on a set have the same sum over it.
LEMMA SumSame ==
  ASSUME NEW f, NEW S, IsFiniteSet(S), NEW g, \A x \in S : f[x] \in Int /\ g[x] = f[x]
  PROVE  SumFunctionOnSet(f, S) = SumFunctionOnSet(g, S)
<1> DEFINE h == [x \in S |-> x]
<1>1. /\ h \in [S -> S] /\ \A x \in S : h[x] = x
      /\ \A x \in S : f[x] \in Int /\ g[h[x]] = f[x]
      /\ \A x, y \in S : h[x] = h[y] => x = y
      /\ \A y \in S : \E x \in S : h[x] = y
  OBVIOUS
<1> HIDE DEF h
<1> QED BY <1>1, SumRename

\* A function that gets a new value at e, or a new argument e.
LEMMA SumPut ==
  ASSUME NEW f, IsFiniteSet(DOMAIN f), \A x \in DOMAIN f : f[x] \in Int,
         NEW e, NEW g, DOMAIN g = DOMAIN f \cup {e}, g[e] \in Int,
         \A x \in DOMAIN f : x # e => g[x] = f[x]
  PROVE  SumFunction(g) = SumFunction(f) - (IF e \in DOMAIN f THEN f[e] ELSE 0) + g[e]
<1> DEFINE D == DOMAIN f \ {e}
           rest == SumFunctionOnSet(f, D)
<1>1. IsFiniteSet(D) /\ IsFiniteSet(DOMAIN g)
  BY FS_RemoveElement, FS_AddElement
<1>2. rest \in Int
  <2>1. \A x \in D : f[x] \in Int
    OBVIOUS
  <2> HIDE DEF D
  <2> QED BY <1>1, <2>1, SumType
<1>3. SumFunctionOnSet(g, D) = rest
  <2>1. \A x \in D : f[x] \in Int /\ g[x] = f[x]
    OBVIOUS
  <2> HIDE DEF D
  <2> QED BY <1>1, <2>1, SumSame
<1>4. SumFunction(g) = g[e] + rest
  <2>1. /\ \A x \in DOMAIN g : g[x] \in Int
        /\ e \in DOMAIN g /\ DOMAIN g \ {e} = D
    OBVIOUS
  <2>2. SumFunctionOnSet(g, DOMAIN g) = g[e] + SumFunctionOnSet(g, DOMAIN g \ {e})
    BY <1>1, <2>1, SumRemove
  <2> HIDE DEF D, rest
  <2> QED BY <1>3, <2>1, <2>2 DEF SumFunction
<1>5. SumFunction(f) = (IF e \in DOMAIN f THEN f[e] ELSE 0) + rest
  <2>1. CASE e \in DOMAIN f
    <3>1. SumFunctionOnSet(f, DOMAIN f) = f[e] + SumFunctionOnSet(f, DOMAIN f \ {e})
      BY <2>1, SumRemove
    <3> QED BY <2>1, <3>1 DEF SumFunction
  <2>2. CASE e \notin DOMAIN f
    <3>1. D = DOMAIN f
      BY <2>2
    <3> QED BY <1>2, <2>2, <3>1 DEF SumFunction
  <2> QED BY <2>1, <2>2
<1>6. e \in DOMAIN f => f[e] \in Int
  OBVIOUS
<1> HIDE DEF rest, D
<1> QED BY <1>2, <1>4, <1>5, <1>6

\* A function that loses the argument e.
LEMMA SumWithoutKey ==
  ASSUME NEW f, IsFiniteSet(DOMAIN f), \A x \in DOMAIN f : f[x] \in Int,
         NEW e \in DOMAIN f, NEW g, DOMAIN g = DOMAIN f \ {e},
         \A x \in DOMAIN g : g[x] = f[x]
  PROVE  SumFunction(g) = SumFunction(f) - f[e]
<1>1. SumFunctionOnSet(f, DOMAIN f) = f[e] + SumFunctionOnSet(f, DOMAIN g)
  BY SumRemove
<1>2. IsFiniteSet(DOMAIN g)
  BY FS_RemoveElement
<1>3. \A x \in DOMAIN g : f[x] \in Int /\ g[x] = f[x]
  OBVIOUS
<1>4. SumFunctionOnSet(f, DOMAIN g) = SumFunctionOnSet(g, DOMAIN g)
  BY <1>2, <1>3, SumSame
<1>5. SumFunctionOnSet(g, DOMAIN g) \in Int
  BY <1>2, <1>3, SumType
<1> QED BY <1>1, <1>4, <1>5 DEF SumFunction

\* A function of numbers on a finite set has a sum, and it is no less than
\* any of the values when these are natural numbers.
LEMMA SumBounds ==
  ASSUME NEW f, IsFiniteSet(DOMAIN f), \A x \in DOMAIN f : f[x] \in Nat
  PROVE  /\ SumFunction(f) \in Nat
         /\ \A x \in DOMAIN f : f[x] <= SumFunction(f)
<1>1. SumFunction(f) \in Nat
  BY SumType DEF SumFunction
<1>2. ASSUME NEW x \in DOMAIN f
      PROVE  f[x] <= SumFunction(f)
  <2>1. SumFunctionOnSet(f, DOMAIN f) = f[x] + SumFunctionOnSet(f, DOMAIN f \ {x})
    BY SumRemove
  <2>2. SumFunctionOnSet(f, DOMAIN f \ {x}) \in Nat
    <3>1. IsFiniteSet(DOMAIN f \ {x}) /\ \A y \in DOMAIN f \ {x} : f[y] \in Nat
      BY FS_RemoveElement
    <3> QED BY <3>1, SumType
  <2> QED BY <2>1, <2>2 DEF SumFunction
<1> QED BY <1>1, <1>2

\* A sum is at most another one if each of its terms has a term of its own
\* there, as large at least: h says which.
LEMMA SumEmbeds ==
  ASSUME NEW f, NEW S, IsFiniteSet(S), NEW g, NEW T, IsFiniteSet(T), NEW h \in [S -> T],
         \A x \in S : f[x] \in Nat /\ f[x] <= g[h[x]],
         \A y \in T : g[y] \in Nat,
         \A x, y \in S : h[x] = h[y] => x = y
  PROVE  SumFunctionOnSet(f, S) <= SumFunctionOnSet(g, T)
<1> DEFINE good(A, B) == SumFunctionOnSet(f, A) <= SumFunctionOnSet(g, B)
           Bad == {n \in Nat : \E A \in SUBSET S, B \in SUBSET T :
                     /\ Cardinality(A) = n
                     /\ \A x \in A : h[x] \in B
                     /\ ~good(A, B)}
<1>1. \A A \in SUBSET S : /\ IsFiniteSet(A) /\ Cardinality(A) \in Nat
                          /\ SumFunctionOnSet(f, A) \in Nat
  <2>1. \A A \in SUBSET S : IsFiniteSet(A) /\ Cardinality(A) \in Nat
    BY FS_Subset, FS_CardinalityType
  <2>2. ASSUME NEW A \in SUBSET S PROVE SumFunctionOnSet(f, A) \in Nat
    BY <2>1, SumType
  <2> QED BY <2>1, <2>2
<1>2. \A B \in SUBSET T : IsFiniteSet(B) /\ SumFunctionOnSet(g, B) \in Nat
  <2>1. \A B \in SUBSET T : IsFiniteSet(B)
    BY FS_Subset
  <2>2. ASSUME NEW B \in SUBSET T PROVE SumFunctionOnSet(g, B) \in Nat
    BY <2>1, SumType
  <2> QED BY <2>1, <2>2
<1>3. Bad = {}
  <2> SUFFICES ASSUME Bad # {} PROVE FALSE
    OBVIOUS
  <2>1. PICK m \in Bad : \A n \in Bad : m <= n
    <3>1. Bad \in SUBSET Nat
      OBVIOUS
    <3> HIDE DEF Bad
    <3> QED BY <3>1, LeastNat
  <2>2. PICK A \in SUBSET S, B \in SUBSET T :
          Cardinality(A) = m /\ (\A x \in A : h[x] \in B) /\ ~good(A, B)
    BY <2>1
  <2>3. A # {}
    <3>1. IsFiniteSet({})
      BY FS_EmptySet
    <3>2. SumFunctionOnSet(f, {}) = 0
      BY <3>1, SumPick
    <3> QED BY <1>2, <2>2, <3>2
  <2>4. PICK x \in S, y \in T : x \in A /\ y = h[x] /\ y \in B
    BY <2>2, <2>3
  <2> DEFINE A1 == A \ {x}
             B1 == B \ {y}
  <2>5. A1 \in SUBSET S /\ B1 \in SUBSET T /\ \A z \in A1 : h[z] \in B1
    BY <2>2, <2>4
  <2>6. Cardinality(A1) \in Nat /\ Cardinality(A1) = m - 1
    BY <1>1, <2>2, <2>4, FS_RemoveElement
  <2>7. SumFunctionOnSet(f, A) = f[x] + SumFunctionOnSet(f, A1)
    <3>1. \A z \in A : f[z] \in Int
      BY <2>2
    <3> QED BY <1>1, <2>2, <2>4, <3>1, SumRemove
  <2>8. SumFunctionOnSet(g, B) = g[y] + SumFunctionOnSet(g, B1)
    <3>1. \A z \in B : g[z] \in Int
      BY <2>2
    <3> QED BY <1>2, <2>2, <2>4, <3>1, SumRemove
  <2>9. /\ SumFunctionOnSet(f, A1) \in Nat /\ SumFunctionOnSet(g, B1) \in Nat
        /\ f[x] \in Nat /\ g[y] \in Nat /\ f[x] <= g[y]
    BY <1>1, <1>2, <2>4, <2>5
  <2>10. ~good(A1, B1)
    <3> HIDE DEF A1, B1
    <3> QED BY <2>2, <2>7, <2>8, <2>9
  <2> HIDE DEF A1, B1, good
  <2>11. m - 1 \in Bad
    BY <2>5, <2>6, <2>10
  <2> QED BY <2>1, <2>11
<1>4. \A x \in S : h[x] \in T
  OBVIOUS
<1> QED BY <1>1, <1>3, <1>4

\* The sum of a sequence of numbers grows by what is appended.
LEMMA SumAppend ==
  ASSUME NEW s \in Seq(Nat), NEW e \in Nat
  PROVE  SumFunction(Append(s, e)) = SumFunction(s) + e
<1> DEFINE t == Append(s, e)
           n == Len(s) + 1
<1>1. /\ DOMAIN s = 1..Len(s) /\ Len(s) \in Nat /\ \A i \in DOMAIN s : s[i] \in Int
      /\ DOMAIN t = DOMAIN s \cup {n} /\ n \notin DOMAIN s /\ t[n] = e
      /\ \A i \in DOMAIN s : t[i] = s[i]
  OBVIOUS
<1>2. IsFiniteSet(DOMAIN s)
  BY <1>1, FS_Interval
<1>3. SumFunction(s) \in Int
  BY <1>1, <1>2, SumType DEF SumFunction
<1> HIDE DEF t, n
<1>4. SumFunction(t) = SumFunction(s) - (IF n \in DOMAIN s THEN s[n] ELSE 0) + t[n]
  <2>1. t[n] \in Int
    BY <1>1
  <2> QED BY <1>1, <1>2, <2>1, SumPut
<1>5. SumFunction(t) = SumFunction(s) + e
  BY <1>1, <1>3, <1>4
<1> QED BY <1>5 DEF t

\* Skipping k numbers the positions that are left.
LEMMA SkipOne ==
  ASSUME NEW n \in Nat, NEW k \in 1..n
  PROVE  \E h \in [1..(n - 1) -> (1..n) \ {k}] :
           /\ \A i \in 1..(n - 1) : h[i] = IF i < k THEN i ELSE i + 1
           /\ \A i, j \in 1..(n - 1) : h[i] = h[j] => i = j
           /\ \A j \in (1..n) \ {k} : \E i \in 1..(n - 1) : h[i] = j
<1> DEFINE h == [i \in 1..(n - 1) |-> IF i < k THEN i ELSE i + 1]
<1>1. h \in [1..(n - 1) -> (1..n) \ {k}]
  OBVIOUS
<1>2. \A i \in 1..(n - 1) : h[i] = IF i < k THEN i ELSE i + 1
  OBVIOUS
<1>3. \A i, j \in 1..(n - 1) : h[i] = h[j] => i = j
  OBVIOUS
<1>4. ASSUME NEW j \in (1..n) \ {k}
      PROVE  \E i \in 1..(n - 1) : h[i] = j
  <2>1. CASE j < k
    <3>1. j \in 1..(n - 1)
      BY <2>1
    <3> QED BY <2>1, <3>1
  <2>2. CASE j > k
    <3>1. j - 1 \in 1..(n - 1) /\ ~(j - 1 < k)
      BY <2>2
    <3>2. h[j - 1] = j
      BY <3>1
    <3> QED BY <3>1, <3>2
  <2> QED BY <2>1, <2>2
<1> HIDE DEF h
<1> QED BY <1>1, <1>2, <1>3, <1>4

\* Taking out one number takes it off the sum; h renames what is left.
LEMMA SumSkip ==
  ASSUME NEW s, NEW A, IsFiniteSet(A), \A x \in A : s[x] \in Int, NEW e \in A,
         NEW t, NEW D, IsFiniteSet(D), NEW h \in [D -> A \ {e}],
         \A x \in D : t[x] = s[h[x]],
         \A x, y \in D : h[x] = h[y] => x = y,
         \A y \in A \ {e} : \E x \in D : h[x] = y
  PROVE  SumFunctionOnSet(t, D) = SumFunctionOnSet(s, A) - s[e]
<1> DEFINE R == A \ {e}
<1>1. IsFiniteSet(R) /\ \A x \in R : s[x] \in Int
  BY FS_RemoveElement
<1>2. \A x \in D : t[x] \in Int /\ s[h[x]] = t[x]
  OBVIOUS
<1>3. SumFunctionOnSet(t, D) = SumFunctionOnSet(s, R)
  <2>1. h \in [D -> R] /\ \A y \in R : \E x \in D : h[x] = y
    OBVIOUS
  <2> HIDE DEF R
  <2> QED BY <1>1, <1>2, <2>1, SumRename
<1>4. SumFunctionOnSet(s, A) = s[e] + SumFunctionOnSet(s, R)
  BY SumRemove
<1>5. SumFunctionOnSet(s, R) \in Int
  <2> HIDE DEF R
  <2> QED BY <1>1, SumType
<1> HIDE DEF R
<1> QED BY <1>3, <1>4, <1>5

\* The sum of a sequence of numbers without the k-th.
LEMMA SumWithout ==
  ASSUME NEW s, s \in Seq(Nat), NEW k, k \in 1..Len(s), NEW t, t \in Seq(Nat),
         Len(t) = Len(s) - 1,
         \A i \in 1..(Len(s) - 1) : t[i] = IF i < k THEN s[i] ELSE s[i + 1]
  PROVE  SumFunction(t) = SumFunction(s) - s[k]
<1>1. /\ DOMAIN s = 1..Len(s) /\ Len(s) \in Nat /\ \A x \in DOMAIN s : s[x] \in Int
      /\ DOMAIN t = 1..(Len(s) - 1)
      /\ k \in DOMAIN s
  OBVIOUS
<1>2. IsFiniteSet(DOMAIN s) /\ IsFiniteSet(DOMAIN t)
  BY <1>1, FS_Interval
<1>3. \E h \in [1..(Len(s) - 1) -> (1..Len(s)) \ {k}] :
        /\ \A i \in 1..(Len(s) - 1) : h[i] = IF i < k THEN i ELSE i + 1
        /\ \A i, j \in 1..(Len(s) - 1) : h[i] = h[j] => i = j
        /\ \A j \in (1..Len(s)) \ {k} : \E i \in 1..(Len(s) - 1) : h[i] = j
  BY <1>1, SkipOne
<1>4. PICK h : /\ h \in [1..(Len(s) - 1) -> (1..Len(s)) \ {k}]
               /\ \A i \in 1..(Len(s) - 1) : h[i] = IF i < k THEN i ELSE i + 1
               /\ \A i, j \in 1..(Len(s) - 1) : h[i] = h[j] => i = j
               /\ \A j \in (1..Len(s)) \ {k} : \E i \in 1..(Len(s) - 1) : h[i] = j
  BY <1>3
<1>41. \A i, j \in DOMAIN t : h[i] = h[j] => i = j
  BY <1>1, <1>4
<1>42. \A j \in DOMAIN s \ {k} : \E i \in DOMAIN t : h[i] = j
  BY <1>1, <1>4, Zenon
<1>43. h \in [DOMAIN t -> DOMAIN s \ {k}]
  BY <1>1, <1>4, Zenon
<1>44. \A i \in DOMAIN t : h[i] = IF i < k THEN i ELSE i + 1
  BY <1>1, <1>4, Zenon
<1>5. \A x \in DOMAIN t : t[x] = s[h[x]]
  BY <1>1, <1>44
<1>6. ASSUME NEW A, NEW D, A = DOMAIN s, D = DOMAIN t
      PROVE  SumFunctionOnSet(t, D) = SumFunctionOnSet(s, A) - s[k]
  <2>1. IsFiniteSet(A) /\ IsFiniteSet(D) /\ (\A x \in A : s[x] \in Int) /\ k \in A
    BY <1>1, <1>2, <1>6
  <2>4. h \in [D -> A \ {k}]
    BY <1>43, <1>6
  <2>5. \A x \in D : t[x] = s[h[x]]
    BY <1>5, <1>6
  <2>6. \A x, y \in D : h[x] = h[y] => x = y
    BY <1>41, <1>6
  <2>7. \A y \in A \ {k} : \E x \in D : h[x] = y
    BY <1>42, <1>6
  <2> QED BY ONLY <2>1, <2>4, <2>5, <2>6, <2>7, SumSkip
<1> QED BY <1>6 DEF SumFunction

\* The sum of a sequence without its head.
LEMMA SumTail ==
  ASSUME NEW s, s \in Seq(Nat), s # <<>>
  PROVE  SumFunction(Tail(s)) = SumFunction(s) - Head(s)
<1>1. /\ Tail(s) \in Seq(Nat) /\ Len(Tail(s)) = Len(s) - 1
      /\ Head(s) = s[1]
      /\ \A i \in 1..(Len(s) - 1) : Tail(s)[i] = s[i + 1]
  OBVIOUS
<1>2. ASSUME NEW k, k = 1, NEW t, t = Tail(s)
      PROVE  SumFunction(t) = SumFunction(s) - s[k]
  <2>1. k \in 1..Len(s)
    BY <1>2
  <2>2. t \in Seq(Nat) /\ Len(t) = Len(s) - 1
    BY <1>1, <1>2
  <2>3. \A i \in 1..(Len(s) - 1) : t[i] = IF i < k THEN s[i] ELSE s[i + 1]
    BY <1>1, <1>2
  <2> QED BY <2>1, <2>2, <2>3, SumWithout
<1> QED BY <1>1, <1>2

\* Nothing sums to zero.
LEMMA EmptySum == SumFunction(<<>>) = 0
<1>1. SumFunction(<<>>) = SumFunctionOnSet(<<>>, {})
  BY DEF SumFunction
<1>2. SumFunctionOnSet(<<>>, {}) = 0
  BY SumPick, FS_EmptySet
<1> QED BY <1>1, <1>2

\* A sequence of naturals has a natural sum.
LEMMA SumOfSeq ==
  ASSUME NEW s, s \in Seq(Nat)
  PROVE  SumFunction(s) \in Nat
<1>1. IsFiniteSet(DOMAIN s) /\ \A x \in DOMAIN s : s[x] \in Nat
  BY FS_Interval
<1> QED BY <1>1, SumBounds
=============================================================================
