------------------------------ MODULE ListProofs ------------------------------
(* Facts about lists that the proofs about the services need: induction, folds, stable      *)
(* sorting, and going through a list keeping what is not like anything kept before.         *)
(* The provers cannot instantiate the induction theorems of the library, whose parameter is *)
(* an operator; here what is proved by induction is a set of numbers.                       *)
EXTENDS SequencesExt, FiniteSetTheorems, SequenceTheorems, WellFoundedInduction, TLAPS

-----------------------------------------------------------------------------
(* Induction.                                                              *)

\* A set with 0 and the successors of its members has all natural numbers: otherwise there
\* would be a least one it lacks.
LEMMA SetInduction ==
  ASSUME NEW S, 0 \in S, \A n \in Nat : n \in S => n + 1 \in S
  PROVE  Nat \subseteq S
<1> DEFINE T == Nat \ S
<1>1. SUFFICES ASSUME T # {} PROVE FALSE
  OBVIOUS
<1>2. PICK x \in T : \A y \in T : ~(<<y, x>> \in OpToRel(<, Nat))
  <2>1. T \subseteq Nat
    OBVIOUS
  <2> HIDE DEF T
  <2> QED
    BY <1>1, <2>1, NatLessThanWellFounded, WFMin
<1>3. x - 1 \in T /\ <<x - 1, x>> \in OpToRel(<, Nat)
  BY DEF OpToRel
<1> QED
  BY <1>2, <1>3

\* The same up to a bound.
LEMMA UpTo ==
  ASSUME NEW S, NEW n \in Nat, 0 \in S, \A k \in 0 .. n-1 : k \in S => k + 1 \in S
  PROVE  0 .. n \subseteq S
<1> DEFINE T == {k \in Nat : k <= n => k \in S}
<1>1. 0 \in T
  OBVIOUS
<1>2. \A k \in Nat : k \in T => k + 1 \in T
  OBVIOUS
<1>3. Nat \subseteq T
  <2> HIDE DEF T
  <2> QED
    BY <1>1, <1>2, SetInduction
<1> QED
  BY <1>3

LEMMA MaxOfUpTo ==
  ASSUME NEW n \in Nat
  PROVE  /\ Max(1 .. n+1) = n + 1
         /\ (1 .. n+1) \ {n + 1} = 1 .. n
         /\ 1 .. n+1 # {}
<1>1. n + 1 \in 1 .. n+1 /\ \A y \in 1 .. n+1 : n + 1 >= y
  OBVIOUS
<1>2. \A x \in 1 .. n+1 : (\A y \in 1 .. n+1 : x >= y) => x = n + 1
  OBVIOUS
<1> QED
  BY <1>1, <1>2 DEF Max

\* The largest of some of the numbers to n.
LEMMA MaxOfSome ==
  ASSUME NEW n \in Nat, NEW T \in SUBSET (1..n), T # {}
  PROVE  Max(T) \in T /\ \A y \in T : Max(T) >= y
<1> DEFINE Bounded == {k \in Nat : \A y \in T : y <= k}
<1>1. n \in Bounded
  OBVIOUS
<1>2. Bounded \subseteq Nat /\ Bounded # {}
  BY <1>1
<1>3. PICK m \in Bounded : \A y \in Bounded : ~(<<y, m>> \in OpToRel(<, Nat))
  <2> HIDE DEF Bounded
  <2> QED
    BY <1>2, NatLessThanWellFounded, WFMin
<1>4. m \in T
  <2>1. SUFFICES ASSUME m \notin T PROVE FALSE
    OBVIOUS
  <2>2. m \in Nat /\ \A y \in T : y \in Nat /\ y <= m /\ y # m /\ y > 0
    BY <2>1
  <2>3. m > 0 /\ \A y \in T : y <= m - 1
    <3>1. PICK y \in T : TRUE
      OBVIOUS
    <3>2. \A p, q \in Nat : p <= q /\ p # q => p <= q - 1
      OBVIOUS
    <3> QED
      BY <2>2, <3>1, <3>2
  <2>4. m - 1 \in Bounded /\ <<m - 1, m>> \in OpToRel(<, Nat)
    BY <2>2, <2>3 DEF OpToRel
  <2> QED
    BY <1>3, <2>4
<1>5. \E x \in T : \A y \in T : x >= y
  BY <1>4
<1> QED
  BY <1>5 DEF Max

-----------------------------------------------------------------------------
(* Folds.                                                                  *)

\* What FoldLeft makes of the items numbered T, where h[i] is what a step does with the i-th.
FoldsOf(F, n, base, h) ==
  \A T \in SUBSET (1..n) : F[T] = IF T = {} THEN base ELSE h[Max(T)][F[T \ {Max(T)}]]

\* The same as far as it is known to be in V.
FoldsWithin(I, n, V, base, h) ==
  /\ I[{}] = base
  /\ \A T \in SUBSET (1..n) :
       T # {} /\ I[T \ {Max(T)}] \in V => I[T] = h[Max(T)][I[T \ {Max(T)}]]

\* g takes these steps one after another.
Walks(g, n, base, h) == g[0] = base /\ \A k \in 1..n : g[k] = h[k][g[k - 1]]

\* The recursive function by which FoldLeft is defined exists.
LEMMA Iterates ==
  ASSUME NEW V, NEW base \in V, NEW n \in Nat, NEW h \in [1..n -> [V -> V]]
  PROVE  \E F \in [SUBSET (1..n) -> V] : FoldsOf(F, n, base, h)
<1> DEFINE Good(k) == \E F \in [SUBSET (1..k) -> V] :
                       \A T \in SUBSET (1..k) :
                         F[T] = IF T = {} THEN base ELSE h[Max(T)][F[T \ {Max(T)}]]
           S == {k \in Nat : Good(k)}
<1>1. 0 \in S
  <2>1. [T \in SUBSET (1..0) |-> base] \in [SUBSET (1..0) -> V]
    OBVIOUS
  <2>2. \A T \in SUBSET (1..0) : T = {}
    OBVIOUS
  <2> QED
    BY <2>1, <2>2
<1>2. ASSUME NEW k \in 0 .. n-1, k \in S
      PROVE  k + 1 \in S
  <2>0. k \in Nat /\ k + 1 \in Nat /\ k + 1 \in 1..n
    OBVIOUS
  <2>1. PICK F \in [SUBSET (1..k) -> V] :
          \A T \in SUBSET (1..k) :
            F[T] = IF T = {} THEN base ELSE h[Max(T)][F[T \ {Max(T)}]]
    BY <1>2
  <2> DEFINE G == [T \in SUBSET (1..k+1) |->
                     IF k + 1 \in T THEN h[k + 1][F[T \ {k + 1}]] ELSE F[T]]
  <2>2. \A T \in SUBSET (1..k+1) : /\ k + 1 \notin T => T \in SUBSET (1..k)
                                   /\ T \ {k + 1} \in SUBSET (1..k)
    BY <2>0
  <2>3. h[k + 1] \in [V -> V]
    BY <2>0
  <2>4. G \in [SUBSET (1..k+1) -> V]
    BY <2>2, <2>3
  <2>5. ASSUME NEW T \in SUBSET (1..k+1)
        PROVE  G[T] = IF T = {} THEN base ELSE h[Max(T)][G[T \ {Max(T)}]]
    <3>1. CASE T = {}
      <4>1. G[T] = F[T] /\ F[T] = base
        BY <2>1, <3>1
      <4> QED
        BY <3>1, <4>1
    <3>2. CASE T # {} /\ k + 1 \notin T
      <4>1. T \in SUBSET (1..k) /\ Max(T) \in T
        BY <2>0, <2>2, <3>2, MaxOfSome
      <4>2. T \ {Max(T)} \in SUBSET (1..k+1) /\ k + 1 \notin T \ {Max(T)}
        BY <3>2
      <4>3. G[T] = F[T] /\ G[T \ {Max(T)}] = F[T \ {Max(T)}]
        BY <3>2, <4>2
      <4>4. F[T] = h[Max(T)][F[T \ {Max(T)}]]
        BY <2>1, <3>2, <4>1
      <4> QED
        BY <3>2, <4>3, <4>4
    <3>3. CASE k + 1 \in T
      <4>1. Max(T) = k + 1
        <5>1. Max(T) \in T /\ Max(T) >= k + 1
          BY <2>0, <3>3, MaxOfSome
        <5>2. Max(T) \in 1..k+1
          BY <5>1
        <5> HIDE DEF Good
        <5>3. \A p \in 1..k+1 : p >= k + 1 => p = k + 1
          BY <2>0
        <5> QED
          BY <5>1, <5>2, <5>3
      <4>2. T \ {k + 1} \in SUBSET (1..k+1) /\ k + 1 \notin T \ {k + 1}
        OBVIOUS
      <4>3. G[T \ {k + 1}] = F[T \ {k + 1}]
        BY <4>2
      <4>4. G[T] = h[k + 1][F[T \ {k + 1}]]
        BY <3>3
      <4> QED
        BY <3>3, <4>1, <4>3, <4>4
    <3> QED
      BY <3>1, <3>2, <3>3
  <2>6. Good(k + 1)
    <3> HIDE DEF G
    <3> QED
      BY <2>4, <2>5
  <2> QED
    BY <2>0, <2>6
<1>3. n \in S
  <2>1. ASSUME NEW k \in 0 .. n-1, k \in S PROVE k + 1 \in S
    BY <1>2, <2>1
  <2> HIDE DEF S
  <2>2. 0 .. n \subseteq S
    BY <1>1, <2>1, UpTo
  <2> QED
    BY <2>2
<1> QED
  BY <1>3 DEF FoldsOf

\* What FoldLeft answers is the end of a path that takes one step for each item.
LEMMA Path ==
  ASSUME NEW V, NEW base \in V, NEW n \in Nat, NEW h \in [1..n -> [V -> V]], NEW I,
         FoldsWithin(I, n, V, base, h)
  PROVE  \E g \in [0..n -> V] : Walks(g, n, base, h) /\ g[n] = I[1..n]
<1> DEFINE S == {k \in Nat : I[1..k] \in V}
<1>1. 1..0 = {} /\ I[{}] = base /\ 0 \in S
  BY DEF FoldsWithin
<1>2. ASSUME NEW k \in 0 .. n-1, I[1..k] \in V
      PROVE  I[1..k+1] = h[k + 1][I[1..k]] /\ I[1..k+1] \in V
  <2>0. k \in Nat
    OBVIOUS
  <2>1. Max(1..k+1) = k + 1 /\ (1..k+1) \ {k + 1} = 1..k /\ 1..k+1 # {}
    BY <2>0, MaxOfUpTo
  <2>2. I[1..k+1] = h[k + 1][I[1..k]]
    BY <1>2, <2>1, 1..k+1 \in SUBSET (1..n) DEF FoldsWithin
  <2>3. h[k + 1] \in [V -> V]
    OBVIOUS
  <2> QED
    BY <1>2, <2>2, <2>3
<1>3. 0 .. n \subseteq S
  <2>1. ASSUME NEW k \in 0 .. n-1, k \in S PROVE k + 1 \in S
    BY <1>2, <2>1
  <2> HIDE DEF S
  <2> QED
    BY <1>1, <2>1, UpTo
<1> DEFINE g == [k \in 0..n |-> I[1..k]]
<1>4. g \in [0..n -> V]
  BY <1>3
<1>5. \A k \in 1..n : g[k] = h[k][g[k - 1]]
  <2>1. \A k \in 1..n : k - 1 \in 0 .. n-1 /\ (k - 1) + 1 = k
    OBVIOUS
  <2> QED
    BY <1>2, <1>3, <2>1
<1>6. g[0] = base /\ g[n] = I[1..n]
  BY <1>1
<1> QED
  BY <1>4, <1>5, <1>6 DEF Walks

\* F puts the first lists of s one after another.
Joins(F, s, n) == \A i \in 1..n : F[i] = IF i = 1 THEN s[i] ELSE F[i - 1] \o s[i]

\* The recursive function by which FlattenSeq is defined exists.
LEMMA Concatenates ==
  ASSUME NEW S, NEW n \in Nat, NEW s \in [1..n -> Seq(S)]
  PROVE  \E F \in [1..n -> Seq(S)] : Joins(F, s, n)
<1> DEFINE Good(k) == \E F \in [1..k -> Seq(S)] :
                        \A i \in 1..k : F[i] = IF i = 1 THEN s[i] ELSE F[i - 1] \o s[i]
           K == {k \in Nat : Good(k)}
<1>1. 0 \in K
  <2>1. [i \in 1..0 |-> <<>>] \in [1..0 -> Seq(S)]
    OBVIOUS
  <2>2. \A i \in 1..0 : FALSE
    OBVIOUS
  <2>3. Good(0)
    BY <2>1, <2>2, Zenon
  <2> QED
    BY <2>3
<1>2. ASSUME NEW k \in 0 .. n-1, k \in K
      PROVE  k + 1 \in K
  <2>0. k \in Nat /\ k + 1 \in 1..n /\ k + 1 \in Nat
    OBVIOUS
  <2>1. PICK F \in [1..k -> Seq(S)] :
          \A i \in 1..k : F[i] = IF i = 1 THEN s[i] ELSE F[i - 1] \o s[i]
    BY <1>2
  <2>2. PICK last \in Seq(S) : last = IF k = 0 THEN s[k + 1] ELSE F[k] \o s[k + 1]
    <3>1. s[k + 1] \in Seq(S)
      BY <2>0
    <3>2. CASE k = 0
      BY <3>1, <3>2
    <3>3. CASE k # 0
      <4>1. F[k] \in Seq(S)
        BY <2>0, <3>3
      <4>2. F[k] \o s[k + 1] \in Seq(S)
        BY <3>1, <4>1, ConcatProperties
      <4> QED
        BY <3>3, <4>2
    <3> QED
      BY <3>2, <3>3
  <2> DEFINE G == [i \in 1..k+1 |-> IF i = k + 1 THEN last ELSE F[i]]
  <2>3. G \in [1..k+1 -> Seq(S)]
    BY <2>0
  <2>4. ASSUME NEW i \in 1..k+1
        PROVE  G[i] = IF i = 1 THEN s[i] ELSE G[i - 1] \o s[i]
    <3>1. CASE i = k + 1
      <4>1. k # 0 => G[i - 1] = F[k]
        BY <2>0, <3>1
      <4>2. G[i] = last /\ (k = 0 <=> i = 1)
        BY <2>0, <3>1
      <4> QED
        BY <2>2, <3>1, <4>1, <4>2
    <3>2. CASE i # k + 1
      <4>1. i \in 1..k /\ G[i] = F[i] /\ (i # 1 => G[i - 1] = F[i - 1])
        BY <2>0, <3>2
      <4> QED
        BY <2>1, <4>1
    <3> QED
      BY <3>1, <3>2
  <2> HIDE DEF G
  <2>5. Good(k + 1)
    BY <2>3, <2>4
  <2> HIDE DEF Good
  <2> QED
    BY <2>0, <2>5
<1>3. n \in K
  <2>1. ASSUME NEW k \in 0 .. n-1, k \in K PROVE k + 1 \in K
    BY <1>2, <2>1
  <2> HIDE DEF K
  <2>2. 0 .. n \subseteq K
    BY <1>1, <2>1, UpTo
  <2> QED
    BY <2>2
<1> QED
  BY <1>3 DEF Joins

\* Its values are lists of the same kind of items.
LEMMA ConcatenatesType ==
  ASSUME NEW S, NEW n \in Nat, NEW s \in [1..n -> Seq(S)], NEW F, Joins(F, s, n)
  PROVE  \A i \in 1..n : F[i] \in Seq(S)
<1> DEFINE A == {k \in Nat : k \in 1..n => F[k] \in Seq(S)}
<1>1. 0 \in A
  OBVIOUS
<1>2. ASSUME NEW k \in 0 .. n-1, k \in A
      PROVE  k + 1 \in A
  <2>1. k \in Nat /\ k + 1 \in 1..n /\ k + 1 \in Nat /\ s[k + 1] \in Seq(S)
    OBVIOUS
  <2>2. CASE k = 0
    BY <2>1, <2>2 DEF Joins
  <2>3. CASE k # 0
    <3>1. F[k] \in Seq(S)
      BY <1>2, <2>1, <2>3
    <3>2. F[k] \o s[k + 1] \in Seq(S)
      BY <2>1, <3>1, ConcatProperties
    <3>3. F[k + 1] = F[k] \o s[k + 1]
      <4>1. k + 1 # 1 /\ (k + 1) - 1 = k
        BY <2>1, <2>3
      <4> QED
        BY <2>1, <4>1 DEF Joins
    <3> QED
      BY <2>1, <3>2, <3>3
  <2> QED
    BY <2>2, <2>3
<1>3. 0 .. n \subseteq A
  <2>1. ASSUME NEW k \in 0 .. n-1, k \in A PROVE k + 1 \in A
    BY <1>2, <2>1
  <2> HIDE DEF A
  <2> QED
    BY <1>1, <2>1, UpTo
<1> QED
  BY <1>3

\* Lists put one after another are a list of the same kind of items.
LEMMA Flattened ==
  ASSUME NEW S, NEW s \in Seq(Seq(S))
  PROVE  FlattenSeq(s) \in Seq(S)
<1>1. PICK n \in Nat : n = Len(s) /\ s \in [1..n -> Seq(S)]
  BY LenProperties
<1>2. CASE n = 0
  <2>1. s = <<>>
    BY <1>1, <1>2, EmptySeq
  <2>2. FlattenSeq(s) = s
    BY <1>1, <1>2 DEF FlattenSeq
  <2> QED
    BY <2>1, <2>2, EmptySeq
<1>3. CASE n # 0
  <2>1. PICK F \in [1..n -> Seq(S)] : Joins(F, s, n)
    BY <1>1, Concatenates
  <2> DEFINE flatten ==
               CHOOSE f : f = [i \in 1..Len(s) |-> IF i = 1 THEN s[i] ELSE f[i - 1] \o s[i]]
  <2>2. F = [i \in 1..Len(s) |-> IF i = 1 THEN s[i] ELSE F[i - 1] \o s[i]]
    BY <1>1, <2>1, SMTT(30) DEF Joins
  <2>3. flatten = [i \in 1..Len(s) |-> IF i = 1 THEN s[i] ELSE flatten[i - 1] \o s[i]]
    BY <2>2
  <2>4. FlattenSeq(s) = flatten[n]
    BY <1>1, <1>3 DEF FlattenSeq
  <2> HIDE DEF flatten
  <2>5. Joins(flatten, s, n)
    BY <1>1, <2>3 DEF Joins
  <2>6. \A i \in 1..n : flatten[i] \in Seq(S)
    BY <1>1, <2>5, ConcatenatesType
  <2> QED
    BY <1>3, <2>4, <2>6
<1> QED
  BY <1>2, <1>3

-----------------------------------------------------------------------------
(* Sorting.                                                                *)

\* In a strict total order of the numbers to n, those that go before i leave it a place of
\* its own, and all places to n are taken.
LEMMA Ranks ==
  ASSUME NEW n \in Nat, NEW R, NEW P \in [1..n -> Int],
         \A i \in 1..n : <<i, i>> \notin R,
         \A i, j, k \in 1..n : <<i, j>> \in R /\ <<j, k>> \in R => <<i, k>> \in R,
         \A i, j \in 1..n : i = j \/ <<i, j>> \in R \/ <<j, i>> \in R,
         \A i \in 1..n : P[i] = Cardinality({j \in 1..n : <<j, i>> \in R}) + 1
  PROVE  /\ \A i \in 1..n : P[i] \in 1..n
         /\ \A i, j \in 1..n : <<i, j>> \in R <=> P[i] < P[j]
         /\ \A k \in 1..n : \E i \in 1..n : P[i] = k
<1> DEFINE Below(i) == {j \in 1..n : <<j, i>> \in R}
<1>1. IsFiniteSet(1..n) /\ Cardinality(1..n) = n
  BY FS_Interval
<1>a. /\ \A i \in 1..n : Below(i) \in SUBSET (1..n) /\ i \notin Below(i)
      /\ \A i \in 1..n : P[i] = Cardinality(Below(i)) + 1
      /\ \A i, j \in 1..n : <<i, j>> \in R => Below(i) \cup {i} \in SUBSET Below(j)
  OBVIOUS
<1> HIDE DEF Below
<1>2. ASSUME NEW i \in 1..n
      PROVE  /\ IsFiniteSet(Below(i)) /\ Cardinality(Below(i)) \in Nat
             /\ Cardinality(Below(i) \cup {i}) = Cardinality(Below(i)) + 1
             /\ P[i] = Cardinality(Below(i) \cup {i})
  <2>1. IsFiniteSet(Below(i))
    BY <1>1, <1>a, FS_Subset
  <2>2. Cardinality(Below(i)) \in Nat
    BY <2>1, FS_CardinalityType
  <2>3. Cardinality(Below(i) \cup {i}) = Cardinality(Below(i)) + 1
    BY <1>a, <2>1, FS_AddElement
  <2> QED
    BY <1>a, <2>1, <2>2, <2>3
<1>3. ASSUME NEW i \in 1..n
      PROVE  P[i] \in 1..n
  <2>1. Below(i) \cup {i} \in SUBSET (1..n)
    BY <1>a
  <2>2. Cardinality(Below(i) \cup {i}) <= n
    BY <1>1, <2>1, FS_Subset
  <2> HIDE DEF Below
  <2>3. Cardinality(Below(i)) \in Nat
    BY <1>2
  <2> QED
    BY <1>2, <2>2, <2>3
<1>4. ASSUME NEW i \in 1..n, NEW j \in 1..n, <<i, j>> \in R
      PROVE  P[i] < P[j]
  <2>1. Below(i) \cup {i} \in SUBSET Below(j)
    BY <1>4, <1>a
  <2>2. Cardinality(Below(i) \cup {i}) <= Cardinality(Below(j))
    BY <1>2, <2>1, FS_Subset
  <2>3. Cardinality(Below(i)) \in Nat /\ Cardinality(Below(j)) \in Nat
    BY <1>2
  <2>4. Cardinality(Below(i) \cup {i}) = Cardinality(Below(i)) + 1
    BY <1>2
  <2>5. P[i] = Cardinality(Below(i)) + 1 /\ P[j] = Cardinality(Below(j)) + 1
    BY <1>a
  <2> QED
    BY <2>2, <2>3, <2>4, <2>5
<1>5. ASSUME NEW i \in 1..n, NEW j \in 1..n
      PROVE  <<i, j>> \in R <=> P[i] < P[j]
  <2>1. P[i] \in Int /\ P[j] \in Int
    OBVIOUS
  <2>2. <<i, j>> \in R => P[i] < P[j]
    BY <1>4
  <2>3. <<j, i>> \in R => P[j] < P[i]
    BY <1>4
  <2>4. i = j => P[i] = P[j]
    OBVIOUS
  <2> QED
    BY <2>1, <2>2, <2>3, <2>4
<1>6. P \in Injection(1..n, 1..n)
  <2>1. P \in [1..n -> 1..n]
    BY <1>3
  <2>2. \A i, j \in 1..n : P[i] = P[j] => i = j
    BY <1>5
  <2> QED
    BY <2>1, <2>2 DEF Injection, IsInjective
<1>7. P \in Surjection(1..n, 1..n)
  BY <1>1, <1>6, FS_Injection
<1>8. \A k \in 1..n : \E i \in 1..n : P[i] = k
  BY <1>7 DEF Surjection
<1> QED
  BY <1>3, <1>5, <1>8

\* i goes before j: by a first key, then by a second, else as they came.
Before(k, l, i, j) ==
  \/ k[i] < k[j]
  \/ k[i] = k[j] /\ l[i] < l[j]
  \/ k[i] = k[j] /\ l[i] = l[j] /\ i < j

\* O is the order of the numbers to n by two keys: all of them, each before those after it.
Sorts(O, n, k, l) ==
  /\ O \in [1..n -> 1..n]
  /\ \A i \in 1..n : \E m \in 1..n : O[m] = i
  /\ \A a, b \in 1..n : a < b => Before(k, l, O[a], O[b])

LEMMA BeforeIsOrder ==
  ASSUME NEW n \in Nat, NEW k \in [1..n -> Int], NEW l \in [1..n -> Int]
  PROVE  /\ \A i \in 1..n : ~Before(k, l, i, i)
         /\ \A i, j, m \in 1..n : Before(k, l, i, j) /\ Before(k, l, j, m) => Before(k, l, i, m)
         /\ \A i, j \in 1..n : i = j \/ Before(k, l, i, j) \/ Before(k, l, j, i)
         /\ \A i, j \in 1..n : ~(Before(k, l, i, j) /\ Before(k, l, j, i))
<1>1. \A i \in 1..n : k[i] \in Int /\ l[i] \in Int /\ i \in Int
  OBVIOUS
<1> QED
  BY <1>1, SMTT(30) DEF Before

\* The items at the places that their predecessors leave them are in order.
LEMMA PlacesSort ==
  ASSUME NEW n \in Nat, NEW k \in [1..n -> Int], NEW l \in [1..n -> Int],
         NEW P \in [1..n -> Int], NEW O,
         \A i \in 1..n : P[i] = Cardinality({j \in 1..n : Before(k, l, j, i)}) + 1,
         O = [m \in 1..n |-> CHOOSE i \in 1..n : P[i] = m]
  PROVE  Sorts(O, n, k, l)
<1> DEFINE R == {p \in (1..n) \X (1..n) : Before(k, l, p[1], p[2])}
<1>1. \A i, j \in 1..n : <<i, j>> \in R <=> Before(k, l, i, j)
  OBVIOUS
<1>2. \A i \in 1..n : {j \in 1..n : <<j, i>> \in R} = {j \in 1..n : Before(k, l, j, i)}
  BY <1>1
<1> HIDE DEF R
<1>3. /\ \A i \in 1..n : <<i, i>> \notin R
      /\ \A i, j, m \in 1..n : <<i, j>> \in R /\ <<j, m>> \in R => <<i, m>> \in R
      /\ \A i, j \in 1..n : i = j \/ <<i, j>> \in R \/ <<j, i>> \in R
      /\ \A i \in 1..n : P[i] = Cardinality({j \in 1..n : <<j, i>> \in R}) + 1
  BY <1>1, <1>2, BeforeIsOrder
<1>4. /\ \A i \in 1..n : P[i] \in 1..n
      /\ \A i, j \in 1..n : <<i, j>> \in R <=> P[i] < P[j]
      /\ \A m \in 1..n : \E i \in 1..n : P[i] = m
  BY <1>3, Ranks
<1>5. \A m \in 1..n : O[m] \in 1..n /\ P[O[m]] = m
  BY <1>4
<1>6. \A i \in 1..n : P[i] \in 1..n /\ O[P[i]] = i
  <2>1. \A i, j \in 1..n : P[i] = P[j] => i = j
    <3>1. \A i \in 1..n : P[i] \in Int
      OBVIOUS
    <3> QED
      BY <1>3, <1>4, <3>1
  <2> QED
    BY <1>4, <1>5, <2>1
<1>7. \A a, b \in 1..n : a < b => Before(k, l, O[a], O[b])
  <2>1. ASSUME NEW a \in 1..n, NEW b \in 1..n, a < b
        PROVE  Before(k, l, O[a], O[b])
    <3>1. P[O[a]] < P[O[b]]
      BY <1>5, <2>1
    <3>2. <<O[a], O[b]>> \in R
      BY <1>4, <1>5, <3>1
    <3> QED
      BY <1>1, <1>5, <3>2
  <2> QED
    BY <2>1
<1>8. O \in [1..n -> 1..n]
  <2>1. \A m \in 1..n : O[m] \in 1..n
    BY <1>5
  <2> QED
    BY <2>1
<1>9. \A i \in 1..n : \E m \in 1..n : O[m] = i
  BY <1>6
<1> QED
  BY <1>7, <1>8, <1>9 DEF Sorts

\* An order has no two at one place.
LEMMA SortsApart ==
  ASSUME NEW n \in Nat, NEW k \in [1..n -> Int], NEW l \in [1..n -> Int], NEW O, Sorts(O, n, k, l)
  PROVE  \A a, b \in 1..n : a # b => O[a] # O[b]
<1>1. O \in [1..n -> 1..n] /\ \A a, b \in 1..n : a < b => Before(k, l, O[a], O[b])
  BY DEF Sorts
<1>2. \A a, b \in 1..n : a < b => O[a] # O[b]
  BY <1>1, BeforeIsOrder
<1>3. \A a, b \in 1..n : a = b \/ a < b \/ b < a
  OBVIOUS
<1> QED
  BY <1>2, <1>3

\* A list in another order.
LEMMA Rearranged ==
  ASSUME NEW D, NEW n \in Nat, NEW s \in [1..n -> D], NEW O \in [1..n -> 1..n],
         NEW t, t = [m \in 1..n |-> s[O[m]]]
  PROVE  t \in Seq(D) /\ Len(t) = n /\ \A m \in 1..n : t[m] = s[O[m]] /\ t[m] \in D
<1>1. t \in [1..n -> D]
  OBVIOUS
<1> QED
  BY <1>1

\* An increasing function of the numbers to n to themselves is the identity.
LEMMA IncreasingIsIdentity ==
  ASSUME NEW n \in Nat, NEW r \in [1..n -> 1..n],
         \A a, b \in 1..n : a < b => r[a] < r[b]
  PROVE  \A a \in 1..n : r[a] = a
<1> DEFINE Up == {a \in Nat : a \in 1..n => r[a] >= a}
           Down == {d \in Nat : n - d \in 1..n => r[n - d] <= n - d}
<1>1. 0 \in Up
  OBVIOUS
<1>2. ASSUME NEW a \in 0 .. n-1, a \in Up
      PROVE  a + 1 \in Up
  <2>1. CASE a = 0
    <3>1. r[1] \in 1..n
      BY <2>1
    <3> QED
      BY <2>1, <3>1
  <2>2. CASE a # 0
    <3>1. a \in 1..n /\ a + 1 \in 1..n /\ r[a] \in Int /\ r[a + 1] \in Int
      BY <2>2
    <3>2. r[a] >= a /\ r[a] < r[a + 1]
      BY <1>2, <3>1
    <3>3. \A p, q, c \in Int : p >= c /\ p < q => q >= c + 1
      OBVIOUS
    <3>4. r[a + 1] >= a + 1
      BY <3>1, <3>2, <3>3
    <3> QED
      BY <3>1, <3>4
  <2> QED
    BY <2>1, <2>2
<1>3. 0 .. n \subseteq Up
  <2>1. ASSUME NEW a \in 0 .. n-1, a \in Up PROVE a + 1 \in Up
    BY <1>2, <2>1
  <2> HIDE DEF Up
  <2> QED
    BY <1>1, <2>1, UpTo
<1>4. 0 \in Down
  <2>1. n \in 1..n => r[n] <= n
    OBVIOUS
  <2> QED
    BY <2>1
<1>5. ASSUME NEW d \in 0 .. n-1, d \in Down
      PROVE  d + 1 \in Down
  <2>1. CASE n - (d + 1) \in 1..n
    <3>1. PICK b \in Int : b = n - (d + 1) /\ b \in 1..n /\ b + 1 \in 1..n /\ n - d = b + 1
      BY <2>1
    <3>2. r[b] \in Int /\ r[b + 1] \in Int
      BY <3>1
    <3>3. r[b + 1] <= b + 1 /\ r[b] < r[b + 1]
      BY <1>5, <3>1
    <3>4. \A p, q, c \in Int : q <= c + 1 /\ p < q => p <= c
      OBVIOUS
    <3>5. r[b] <= b
      BY <3>1, <3>2, <3>3, <3>4
    <3> QED
      BY <3>1, <3>5
  <2>2. CASE n - (d + 1) \notin 1..n
    BY <2>2
  <2> QED
    BY <2>1, <2>2
<1>6. 0 .. n \subseteq Down
  <2>1. ASSUME NEW d \in 0 .. n-1, d \in Down PROVE d + 1 \in Down
    BY <1>5, <2>1
  <2> HIDE DEF Down
  <2> QED
    BY <1>4, <2>1, UpTo
<1>7. ASSUME NEW a \in 1..n
      PROVE  r[a] = a
  <2>1. r[a] >= a
    BY <1>3
  <2>2. n - a \in 0..n /\ n - (n - a) = a
    OBVIOUS
  <2>3. r[a] <= a
    BY <1>6, <2>2
  <2> QED
    BY <2>1, <2>3
<1> QED
  BY <1>7

\* O is the order by two keys of numbers that are in that order.
SortsSorted(O, n, k, l) ==
  /\ n \in Nat /\ k \in [1..n -> Int] /\ l \in [1..n -> Int]
  /\ Sorts(O, n, k, l)
  /\ \A a, b \in 1..n : a < b => Before(k, l, a, b)

\* What is in order already stays as it is.
LEMMA SortedStays ==
  ASSUME NEW O, NEW n, NEW k, NEW l, SortsSorted(O, n, k, l)
  PROVE  \A a \in 1..n : O[a] = a
<1> n \in Nat /\ k \in [1..n -> Int] /\ l \in [1..n -> Int]
  BY DEF SortsSorted
<1>1. O \in [1..n -> 1..n] /\ \A p, q \in 1..n : p < q => Before(k, l, p, q)
  BY DEF Sorts, SortsSorted
<1>2. \A a, b \in 1..n : a < b => O[a] < O[b]
  <2>1. ASSUME NEW a \in 1..n, NEW b \in 1..n, a < b
        PROVE  O[a] < O[b]
    <3>1. O[a] \in 1..n /\ O[b] \in 1..n /\ Before(k, l, O[a], O[b])
      BY <1>1, <2>1 DEF Sorts, SortsSorted
    <3>2. O[a] # O[b] /\ ~(O[b] < O[a])
      BY <1>1, <3>1, BeforeIsOrder
    <3> QED
      BY <3>1, <3>2
  <2> QED
    BY <2>1
<1> QED
  BY <1>1, <1>2, IncreasingIsIdentity

-----------------------------------------------------------------------------
(* Keeping what is not like anything kept before.                          *)

\* e numbers the items among the first k of s that make the list t, where an item was dropped
\* if it is in Bad or like one that was kept before it.
Sieved(e, t, k, s, Bad, Alike) ==
  /\ e \in Seq(1 .. Len(s))
  /\ Len(t) = Len(e)
  /\ \A m \in 1..Len(e) : e[m] <= k /\ t[m] = s[e[m]] /\ s[e[m]] \notin Bad
  /\ \A a, b \in 1..Len(e) : a < b => e[a] < e[b] /\ <<s[e[b]], s[e[a]]>> \notin Alike
  /\ \A i \in 1..k : \/ s[i] \in Bad
                     \/ \E m \in 1..Len(e) : e[m] = i \/ (e[m] < i /\ <<s[i], s[e[m]]>> \in Alike)

\* Dropping the next item.
LEMMA SieveDrops ==
  ASSUME NEW Bad, NEW Alike, NEW s, NEW e, NEW t, NEW k \in Nat, Len(s) \in Nat,
         Sieved(e, t, k, s, Bad, Alike),
         s[k + 1] \in Bad \/ \E m \in 1..Len(e) : <<s[k + 1], s[e[m]]>> \in Alike
  PROVE  Sieved(e, t, k + 1, s, Bad, Alike)
<1>1. e \in Seq(1 .. Len(s)) /\ Len(t) = Len(e)
  BY DEF Sieved
<1>2. \A m \in 1..Len(e) : e[m] \in 1 .. Len(s) /\ e[m] <= k /\ e[m] < k + 1 /\ e[m] <= k + 1
  BY <1>1, LenProperties DEF Sieved
<1>3. \A i \in 1..k+1 : i \in 1..k \/ i = k + 1
  OBVIOUS
<1>4. \A m \in 1..Len(e) : e[m] <= k + 1 /\ t[m] = s[e[m]] /\ s[e[m]] \notin Bad
  BY <1>2 DEF Sieved
<1>5. \A a, b \in 1..Len(e) : a < b => e[a] < e[b] /\ <<s[e[b]], s[e[a]]>> \notin Alike
  BY DEF Sieved
<1>6. \A i \in 1..k+1 : \/ s[i] \in Bad
                        \/ \E m \in 1..Len(e) : e[m] = i \/ (e[m] < i /\ <<s[i], s[e[m]]>> \in Alike)
  <2>1. SUFFICES ASSUME NEW i \in 1..k+1, s[i] \notin Bad
                 PROVE  \E m \in 1..Len(e) : e[m] = i \/ (e[m] < i /\ <<s[i], s[e[m]]>> \in Alike)
    OBVIOUS
  <2>2. CASE i \in 1..k
    BY <2>1, <2>2 DEF Sieved
  <2>3. CASE i = k + 1
    BY <1>2, <2>1, <2>3
  <2> QED
    BY <1>3, <2>2, <2>3
<1> QED
  BY <1>1, <1>4, <1>5, <1>6 DEF Sieved

\* Keeping it.
LEMMA SieveKeeps ==
  ASSUME NEW Bad, NEW Alike, NEW s, NEW e, NEW t, NEW f, NEW u, NEW k \in Nat,
         Len(s) \in Nat, Len(e) \in Nat, k + 1 \in 1 .. Len(s),
         Sieved(e, t, k, s, Bad, Alike),
         s[k + 1] \notin Bad,
         \A m \in 1..Len(e) : <<s[k + 1], s[e[m]]>> \notin Alike,
         f \in Seq(1 .. Len(s)), Len(f) = Len(e) + 1,
         f[Len(e) + 1] = k + 1, \A m \in 1..Len(e) : f[m] = e[m],
         Len(u) = Len(e) + 1,
         u[Len(e) + 1] = s[k + 1], \A m \in 1..Len(e) : u[m] = t[m]
  PROVE  Sieved(f, u, k + 1, s, Bad, Alike)
<1>1. /\ \A m \in 1..Len(f) : m \in 1..Len(e) \/ m = Len(e) + 1
      /\ \A m \in 1..Len(e) : m \in 1..Len(f)
      /\ Len(e) + 1 \in 1..Len(f)
      /\ \A a, b \in 1..Len(f) : a < b => a \in 1..Len(e)
      /\ \A i \in 1..k+1 : i \in 1..k \/ i = k + 1
  OBVIOUS
<1>2. \A m \in 1..Len(e) : /\ e[m] \in 1 .. Len(s) /\ e[m] <= k /\ e[m] < k + 1 /\ e[m] <= k + 1
                           /\ t[m] = s[e[m]] /\ s[e[m]] \notin Bad
  <2>1. e \in Seq(1 .. Len(s))
    BY DEF Sieved
  <2>2. \A m \in 1..Len(e) : e[m] \in 1 .. Len(s)
    BY <2>1, LenProperties, SMTT(30)
  <2>3. \A m \in 1..Len(e) : e[m] <= k /\ t[m] = s[e[m]] /\ s[e[m]] \notin Bad
    BY DEF Sieved
  <2>4. \A p \in Int : p <= k => p < k + 1 /\ p <= k + 1
    OBVIOUS
  <2> QED
    BY <2>2, <2>3, <2>4
<1>3. ASSUME NEW m \in 1..Len(f)
      PROVE  f[m] <= k + 1 /\ u[m] = s[f[m]] /\ s[f[m]] \notin Bad
  <2>1. CASE m \in 1..Len(e)
    BY <1>2, <2>1
  <2>2. CASE m = Len(e) + 1
    BY <2>2
  <2> QED
    BY <1>1, <2>1, <2>2
<1>4. ASSUME NEW a \in 1..Len(f), NEW b \in 1..Len(f), a < b
      PROVE  f[a] < f[b] /\ <<s[f[b]], s[f[a]]>> \notin Alike
  <2>1. a \in 1..Len(e) /\ f[a] = e[a]
    BY <1>1, <1>4
  <2>2. CASE b \in 1..Len(e)
    <3>1. f[b] = e[b]
      BY <2>2
    <3>2. e[a] < e[b] /\ <<s[e[b]], s[e[a]]>> \notin Alike
      BY <1>4, <2>1, <2>2 DEF Sieved
    <3> QED
      BY <2>1, <3>1, <3>2
  <2>3. CASE b = Len(e) + 1
    <3>1. f[b] = k + 1 /\ e[a] < k + 1
      BY <1>2, <2>1, <2>3
    <3> QED
      BY <2>1, <3>1
  <2> QED
    BY <1>1, <2>2, <2>3
<1>5. ASSUME NEW i \in 1..k+1, s[i] \notin Bad
      PROVE  \E m \in 1..Len(f) : f[m] = i \/ (f[m] < i /\ <<s[i], s[f[m]]>> \in Alike)
  <2>1. CASE i = k + 1
    BY <1>1, <2>1
  <2>2. CASE i \in 1..k
    <3>1. PICK m \in 1..Len(e) : e[m] = i \/ (e[m] < i /\ <<s[i], s[e[m]]>> \in Alike)
      BY <1>5, <2>2 DEF Sieved
    <3>2. m \in 1..Len(f) /\ f[m] = e[m]
      BY <1>1
    <3> QED
      BY <3>1, <3>2
  <2> QED
    BY <1>1, <2>1, <2>2
<1> QED
  BY <1>3, <1>4, <1>5 DEF Sieved

\* A list gone through item by item, where an item is dropped if it is in Bad or like one that
\* was kept: no two that are kept are alike, and what is dropped is in Bad or like one kept
\* before it.
LEMMA Sieve ==
  ASSUME NEW D, NEW Bad, NEW Alike, NEW s \in Seq(D), NEW g \in [0..Len(s) -> Seq(D)],
         g[0] = <<>>,
         \A k \in 1..Len(s) :
           g[k] = IF s[k] \in Bad \/ \E m \in DOMAIN g[k - 1] : <<s[k], g[k - 1][m]>> \in Alike
                  THEN g[k - 1] ELSE Append(g[k - 1], s[k])
  PROVE  \E e : Sieved(e, g[Len(s)], Len(s), s, Bad, Alike)
<1>1. PICK n \in Nat : n = Len(s) /\ \A i \in 1..n : s[i] \in D
  BY LenProperties
<1> DEFINE K == {k \in Nat : \E e : Sieved(e, g[k], k, s, Bad, Alike)}
<1>2. 0 \in K
  <2>1. <<>> \in Seq(1..n) /\ Len(<<>>) = 0 /\ g[0] = <<>> /\ 1..0 = {}
    BY EmptySeq
  <2>2. Sieved(<<>>, g[0], 0, s, Bad, Alike)
    BY <1>1, <2>1 DEF Sieved
  <2> QED
    BY <2>2
<1>3. ASSUME NEW k \in 0 .. n-1, k \in K
      PROVE  k + 1 \in K
  <2>1. PICK e : Sieved(e, g[k], k, s, Bad, Alike)
    BY <1>3
  <2>2. /\ k \in Nat /\ k + 1 \in Nat /\ k + 1 \in 1..n /\ (k + 1) - 1 = k /\ s[k + 1] \in D
        /\ k \in 0 .. Len(s) /\ k + 1 \in 1 .. Len(s)
    BY <1>1
  <2>3. g[k] \in Seq(D) /\ e \in Seq(1..n) /\ Len(g[k]) = Len(e)
    BY <1>1, <2>1, <2>2 DEF Sieved
  <2>4. DOMAIN g[k] = 1..Len(e) /\ Len(e) \in Nat
    BY <2>3, LenProperties
  <2>5. \A m \in 1..Len(e) : g[k][m] = s[e[m]]
    BY <2>1 DEF Sieved
  <2> DEFINE Drop == s[k + 1] \in Bad \/ \E m \in 1..Len(e) : <<s[k + 1], s[e[m]]>> \in Alike
  <2>6. g[k + 1] = IF Drop THEN g[k] ELSE Append(g[k], s[k + 1])
    <3>1. g[k + 1] = IF s[k + 1] \in Bad \/ \E m \in DOMAIN g[k] : <<s[k + 1], g[k][m]>> \in Alike
                     THEN g[k] ELSE Append(g[k], s[k + 1])
      BY <2>2
    <3> QED
      BY <2>4, <2>5, <3>1
  <2>7. CASE Drop
    <3>1. Sieved(e, g[k], k + 1, s, Bad, Alike)
      BY <1>1, <2>1, <2>2, <2>7, SieveDrops
    <3> QED
      BY <2>2, <2>6, <2>7, <3>1
  <2>8. CASE ~Drop
    <3>1. PICK f \in Seq(1..n) : /\ Len(f) = Len(e) + 1
                                 /\ f[Len(e) + 1] = k + 1 /\ \A m \in 1..Len(e) : f[m] = e[m]
      <4>1. k + 1 \in 1..n /\ e \in Seq(1..n)
        BY <2>2, <2>3
      <4>2. Append(e, k + 1) \in Seq(1..n)
        BY <4>1, AppendProperties
      <4>3. /\ Len(Append(e, k + 1)) = Len(e) + 1
            /\ Append(e, k + 1)[Len(e) + 1] = k + 1
            /\ \A m \in 1..Len(e) : Append(e, k + 1)[m] = e[m]
        BY <4>1, AppendProperties
      <4> QED
        BY <4>2, <4>3
    <3>2. /\ Len(g[k + 1]) = Len(e) + 1 /\ g[k + 1][Len(e) + 1] = s[k + 1]
          /\ \A m \in 1..Len(e) : g[k + 1][m] = g[k][m]
      BY <2>2, <2>3, <2>6, <2>8, AppendProperties, SMTT(30)
    <3>3. s[k + 1] \notin Bad /\ \A m \in 1..Len(e) : <<s[k + 1], s[e[m]]>> \notin Alike
      BY <2>8
    <3>4. Sieved(f, g[k + 1], k + 1, s, Bad, Alike)
      BY <1>1, <2>1, <2>2, <2>4, <3>1, <3>2, <3>3, SieveKeeps
    <3> QED
      BY <2>2, <3>4
  <2> QED
    BY <2>7, <2>8
<1>4. n \in K
  <2>1. ASSUME NEW k \in 0 .. n-1, k \in K PROVE k + 1 \in K
    BY <1>3, <2>1
  <2> HIDE DEF K
  <2>2. 0 .. n \subseteq K
    BY <1>2, <2>1, UpTo
  <2> QED
    BY <2>2
<1> QED
  BY <1>1, <1>4

\* What a step of going through s makes of a list of those kept.
SieveStep(kept, d, Bad, Alike) ==
  IF d \in Bad \/ \E m \in DOMAIN kept : <<d, kept[m]>> \in Alike THEN kept ELSE Append(kept, d)

\* F[T] is what going through the items of s numbered T keeps.
SieveOf(F, s, Bad, Alike) ==
  \A T \in SUBSET (1 .. Len(s)) :
    /\ T = {} => F[T] = <<>>
    /\ T # {} => /\ Max(T) \in 1 .. Len(s)
                 /\ F[T] = SieveStep(F[T \ {Max(T)}], s[Max(T)], Bad, Alike)

\* The recursive function by which going through s with FoldLeft is defined exists.
LEMMA SieveIterates ==
  ASSUME NEW D, NEW Bad, NEW Alike, NEW s \in Seq(D)
  PROVE  \E F \in [SUBSET (1 .. Len(s)) -> Seq(D)] : SieveOf(F, s, Bad, Alike)
<1> DEFINE h == [i \in 1 .. Len(s) |-> [kept \in Seq(D) |-> SieveStep(kept, s[i], Bad, Alike)]]
<1>1. Len(s) \in Nat /\ \A i \in 1 .. Len(s) : s[i] \in D
  BY LenProperties
<1>2. \A i \in 1 .. Len(s) : \A kept \in Seq(D) : SieveStep(kept, s[i], Bad, Alike) \in Seq(D)
  BY <1>1, AppendProperties DEF SieveStep
<1>3. h \in [1 .. Len(s) -> [Seq(D) -> Seq(D)]]
  BY <1>2
<1>4. <<>> \in Seq(D)
  BY EmptySeq
<1>5. \A i \in 1 .. Len(s) : \A kept \in Seq(D) : h[i][kept] = SieveStep(kept, s[i], Bad, Alike)
  OBVIOUS
<1> HIDE DEF h
<1>6. PICK F \in [SUBSET (1 .. Len(s)) -> Seq(D)] :
        FoldsOf(F, Len(s), <<>>, h)
  BY <1>1, <1>3, <1>4, Iterates
<1>7. ASSUME NEW T \in SUBSET (1 .. Len(s)), T # {}
      PROVE  /\ Max(T) \in 1 .. Len(s)
             /\ h[Max(T)][F[T \ {Max(T)}]] = SieveStep(F[T \ {Max(T)}], s[Max(T)], Bad, Alike)
  <2>1. Max(T) \in 1 .. Len(s)
    BY <1>1, <1>7, MaxOfSome
  <2>2. F[T \ {Max(T)}] \in Seq(D)
    OBVIOUS
  <2> QED
    BY <1>5, <2>1, <2>2
<1> QED
  BY <1>6, <1>7 DEF FoldsOf, SieveOf

\* I is that function, as far as it is known to give lists of items of D.
GoesThrough(I, D, s, Bad, Alike) ==
  /\ I[{}] = <<>>
  /\ \A T \in SUBSET (1 .. Len(s)) : T # {} /\ I[T \ {Max(T)}] \in Seq(D) =>
       I[T] = SieveStep(I[T \ {Max(T)}], s[Max(T)], Bad, Alike)

\* What it answers.
LEMMA SieveFold ==
  ASSUME NEW D, NEW Bad, NEW Alike, NEW s \in Seq(D), NEW I, GoesThrough(I, D, s, Bad, Alike)
  PROVE  /\ I[1 .. Len(s)] \in Seq(D)
         /\ \E e : Sieved(e, I[1 .. Len(s)], Len(s), s, Bad, Alike)
<1> DEFINE h == [i \in 1 .. Len(s) |-> [kept \in Seq(D) |-> SieveStep(kept, s[i], Bad, Alike)]]
<1>1. Len(s) \in Nat /\ \A i \in 1 .. Len(s) : s[i] \in D
  BY LenProperties
<1>2. \A i \in 1 .. Len(s) : \A kept \in Seq(D) : SieveStep(kept, s[i], Bad, Alike) \in Seq(D)
  BY <1>1, AppendProperties DEF SieveStep
<1>3. h \in [1 .. Len(s) -> [Seq(D) -> Seq(D)]]
  BY <1>2
<1>4. <<>> \in Seq(D)
  BY EmptySeq
<1>5. \A i \in 1 .. Len(s) : \A kept \in Seq(D) : h[i][kept] = SieveStep(kept, s[i], Bad, Alike)
  OBVIOUS
<1> HIDE DEF h
<1>6. FoldsWithin(I, Len(s), Seq(D), <<>>, h)
  <2>1. \A T \in SUBSET (1 .. Len(s)) : T # {} => Max(T) \in 1 .. Len(s)
    BY <1>1, MaxOfSome
  <2> QED
    BY <1>5, <2>1 DEF FoldsWithin, GoesThrough
<1>7. PICK g \in [0 .. Len(s) -> Seq(D)] : Walks(g, Len(s), <<>>, h) /\ g[Len(s)] = I[1 .. Len(s)]
  <2>1. PICK n \in Nat : n = Len(s)
    BY <1>1
  <2>2. PICK V : V = Seq(D)
    OBVIOUS
  <2>3. PICK base \in V : base = <<>>
    BY <1>4, <2>2
  <2>4. h \in [1..n -> [V -> V]] /\ FoldsWithin(I, n, V, base, h)
    BY <1>3, <1>6, <2>1, <2>2, <2>3
  <2>5. \E g \in [0..n -> V] : Walks(g, n, base, h) /\ g[n] = I[1..n]
    BY ONLY <2>4, n \in Nat, base \in V, Path, SMTT(30)
  <2> QED
    BY <2>1, <2>2, <2>3, <2>5
<1>8. \A k \in 1 .. Len(s) : g[k] = SieveStep(g[k - 1], s[k], Bad, Alike)
  <2> SUFFICES ASSUME NEW k \in 1 .. Len(s) PROVE g[k] = SieveStep(g[k - 1], s[k], Bad, Alike)
    OBVIOUS
  <2>1. k - 1 \in 0 .. Len(s)
    BY <1>1
  <2>2. g[k - 1] \in Seq(D)
    BY <2>1
  <2> QED
    BY <1>5, <1>7, <2>2 DEF Walks
<1>9. \E e : Sieved(e, g[Len(s)], Len(s), s, Bad, Alike)
  BY <1>7, <1>8, Sieve DEF SieveStep, Walks
<1>10. g[Len(s)] \in Seq(D)
  BY <1>1
<1> QED
  BY <1>7, <1>9, <1>10

\* Where nothing is to be dropped everything is kept.
LEMMA SieveKeepsAll ==
  ASSUME NEW D, NEW Bad, NEW Alike, NEW s \in Seq(D), NEW t \in Seq(D), NEW e,
         Sieved(e, t, Len(s), s, Bad, Alike),
         \A i \in 1 .. Len(s) : s[i] \notin Bad,
         \A i, j \in 1 .. Len(s) : j < i => <<s[i], s[j]>> \notin Alike
  PROVE  t = s
<1>1. PICK n \in Nat : n = Len(s) /\ s \in [1..n -> D]
  BY LenProperties
<1>2. PICK w \in Nat : /\ w = Len(e) /\ e \in [1..w -> 1..n]
                       /\ w = Len(t) /\ t \in [1..w -> D]
  BY <1>1, LenProperties DEF Sieved
<1>3. \A a, b \in 1..w : a < b => e[a] < e[b]
  BY <1>2 DEF Sieved
<1>4. \A i \in 1..n : \E m \in 1..w : e[m] = i
  <2> SUFFICES ASSUME NEW i \in 1..n PROVE \E m \in 1..w : e[m] = i
    OBVIOUS
  <2>1. PICK m \in 1..w : e[m] = i \/ (e[m] < i /\ <<s[i], s[e[m]]>> \in Alike)
    BY <1>1, <1>2 DEF Sieved
  <2>2. e[m] \in 1..n
    BY <1>2
  <2> QED
    BY <1>1, <2>1, <2>2
<1>5. w = n
  <2>1. \A a, b \in 1..w : e[a] = e[b] => a = b
    <3>1. \A a \in 1..w : e[a] \in Int
      BY <1>2
    <3>2. \A a, b \in 1..w : a = b \/ a < b \/ b < a
      OBVIOUS
    <3> QED
      BY <1>3, <3>1, <3>2
  <2>2. e \in Bijection(1..w, 1..n)
    BY <1>2, <1>4, <2>1 DEF Bijection, Injection, Surjection, IsInjective
  <2>3. IsFiniteSet(1..w) /\ Cardinality(1..w) = w /\ Cardinality(1..n) = n
    BY FS_Interval
  <2>4. Cardinality(1..n) = Cardinality(1..w)
    <3>1. ExistsBijection(1..w, 1..n)
      BY <2>2 DEF ExistsBijection
    <3> QED
      BY <2>3, <3>1, FS_Bijection
  <2> QED
    BY <2>3, <2>4
<1>6. \A m \in 1..n : e[m] = m
  BY <1>2, <1>3, <1>5, IncreasingIsIdentity
<1>7. \A m \in 1..n : t[m] = s[m]
  BY <1>2, <1>5, <1>6 DEF Sieved
<1> QED
  BY <1>1, <1>2, <1>5, <1>7, SeqEqual

\* The numbers to n are in the order of two keys, those alike in the order of a third.
InOrderOf(n, k, l, c) ==
  \A a, b \in 1..n : a < b => \/ k[a] < k[b]
                              \/ k[a] = k[b] /\ l[a] < l[b]
                              \/ k[a] = k[b] /\ l[a] = l[b] /\ c[a] <= c[b]

\* They are put in the order of the third and then of the two, which are K and M by then.
SortsAgain(O, Q, n, k, l, c, none, K, M) ==
  /\ n \in Nat
  /\ k \in [1..n -> Int] /\ l \in [1..n -> Int] /\ c \in [1..n -> Int] /\ none \in [1..n -> {0}]
  /\ Sorts(O, n, c, none)
  /\ Sorts(Q, n, K, M)
  /\ K = [i \in 1..n |-> k[O[i]]]
  /\ M = [i \in 1..n |-> l[O[i]]]
  /\ InOrderOf(n, k, l, c)

\* Items that are in the order of two keys, and among those alike in the order of a third,
\* stay so when they are put in the order of the third and then of the two.
LEMMA SortedTwice ==
  ASSUME NEW O, NEW Q, NEW n, NEW k, NEW l, NEW c, NEW none, NEW K, NEW M,
         SortsAgain(O, Q, n, k, l, c, none, K, M)
  PROVE  \A a \in 1..n : O[Q[a]] = a
<1> n \in Nat /\ k \in [1..n -> Int] /\ l \in [1..n -> Int] /\ c \in [1..n -> Int] /\ none \in [1..n -> {0}]
  BY DEF SortsAgain
<1>0. /\ Sorts(O, n, c, none) /\ Sorts(Q, n, K, M) /\ InOrderOf(n, k, l, c)
      /\ K = [i \in 1..n |-> k[O[i]]] /\ M = [i \in 1..n |-> l[O[i]]]
  BY DEF SortsAgain
<1>1. O \in [1..n -> 1..n] /\ Q \in [1..n -> 1..n]
  BY <1>0 DEF Sorts
<1> DEFINE r == [a \in 1..n |-> O[Q[a]]]
<1>2. r \in [1..n -> 1..n]
  BY <1>1
<1>3. ASSUME NEW a \in 1..n, NEW b \in 1..n, a < b
      PROVE  r[a] < r[b]
  <2>1. PICK p, q \in 1..n : p = Q[a] /\ q = Q[b]
    BY <1>1
  <2>2. PICK x, y \in 1..n : x = O[p] /\ y = O[q] /\ r[a] = x /\ r[b] = y
    BY <1>1, <2>1
  <2>3. \/ k[x] < k[y]
        \/ k[x] = k[y] /\ l[x] < l[y]
        \/ k[x] = k[y] /\ l[x] = l[y] /\ p < q
    <3>1. K[p] = k[x] /\ K[q] = k[y] /\ M[p] = l[x] /\ M[q] = l[y]
      BY <1>0, <2>2
    <3>2. Before(K, M, p, q)
      BY <1>0, <1>3, <2>1 DEF Sorts
    <3> QED
      BY <3>1, <3>2 DEF Before
  <2>4. p < q => \/ c[x] < c[y]
                 \/ c[x] = c[y] /\ x < y
    <3>1. ASSUME p < q PROVE Before(c, none, x, y)
      BY <1>0, <2>2, <3>1 DEF Sorts
    <3>2. none[x] = 0 /\ none[y] = 0
      OBVIOUS
    <3> QED
      BY <3>1, <3>2 DEF Before
  <2>5. /\ k[x] \in Int /\ k[y] \in Int /\ l[x] \in Int /\ l[y] \in Int
        /\ c[x] \in Int /\ c[y] \in Int /\ x \in Int /\ y \in Int
    OBVIOUS
  <2>6. x = y \/ x < y \/ y < x
    BY <2>5
  <2>7. y < x => \/ k[y] < k[x]
                 \/ k[y] = k[x] /\ l[y] < l[x]
                 \/ k[y] = k[x] /\ l[y] = l[x] /\ c[y] <= c[x]
    BY <1>0 DEF InOrderOf
  <2>8. x # y
    BY <2>3, <2>4, <2>5
  <2>9. ~(y < x)
    BY <2>3, <2>4, <2>5, <2>7
  <2> QED
    BY <2>2, <2>6, <2>8, <2>9
<1>4. \A a \in 1..n : r[a] = a
  BY <1>2, <1>3, IncreasingIsIdentity
<1> QED
  BY <1>4
=============================================================================
