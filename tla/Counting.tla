------------------------------ MODULE Counting ------------------------------
(***************************************************************************)
(* Facts about numbers and finite sets that the proofs about the space     *)
(* managers need: division, least elements, and the ranks of the elements  *)
(* of a set, by which reserveBlocks decides what it takes.                 *)
(***************************************************************************)
EXTENDS Integers, FiniteSets, FiniteSetTheorems, WellFoundedInduction, TLAPS

(* Quotient and rest. *)
LEMMA DivFacts ==
  ASSUME NEW m \in Nat, NEW k \in Nat \ {0}
  PROVE  /\ m \div k \in Nat
         /\ k * (m \div k) <= m
         /\ m < k * (m \div k) + k
         /\ m % k \in 0 .. k - 1
  OBVIOUS

(* A product is monotone: what nonlinear arithmetic needs to be told. *)
LEMMA TimesMonotone ==
  ASSUME NEW a \in Nat, NEW b \in Nat, NEW k \in Nat, a <= b
  PROVE  k * a <= k * b
  OBVIOUS

(* How many pieces of k hold l. *)
LEMMA CeilFacts ==
  ASSUME NEW l \in Nat, NEW k \in Nat \ {0}
  PROVE  LET c == (l + k - 1) \div k IN
         /\ c \in Nat /\ l <= k * c /\ k * c < l + k
         /\ \A m \in Nat : k * m < l <=> m < c
         /\ \A m \in Nat : (k * m + l + k - 1) \div k = m + c
<1> DEFINE c == (l + k - 1) \div k
<1>1. /\ c \in Nat /\ k * c \in Nat /\ k * c <= l + k - 1
      /\ l + k - 1 < k * c + k
  <2>1. l + k - 1 \in Nat
    OBVIOUS
  <2>2. c \in Nat /\ k * c <= l + k - 1 /\ l + k - 1 < k * c + k
    BY <2>1, DivFacts
  <2> HIDE DEF c
  <2> QED
    BY <2>2
<1>2. \A m \in Nat : (k * m + l + k - 1) \div k = m + c
  OBVIOUS
<1> HIDE DEF c
<1>3. l <= k * c /\ k * c < l + k
  BY <1>1
<1>4. ASSUME NEW m \in Nat PROVE k * m < l <=> m < c
  <2>1. k * m \in Nat
    OBVIOUS
  <2>2. ASSUME m < c PROVE k * m < l
    <3>1. m + 1 \in Nat /\ m + 1 <= c
      BY <1>1, <2>2
    <3>2. k * (m + 1) <= k * c
      BY <1>1, <3>1, TimesMonotone
    <3>3. k * (m + 1) = k * m + k
      OBVIOUS
    <3> QED
      BY <1>1, <1>3, <2>1, <3>2, <3>3
  <2>3. ASSUME m >= c PROVE k * m >= l
    <3>1. k * c <= k * m
      BY <1>1, <2>3, TimesMonotone
    <3> QED
      BY <1>1, <1>3, <2>1, <3>1
  <2> QED
    BY <1>1, <2>1, <2>2, <2>3
<1> QED
  BY <1>1, <1>2, <1>3, <1>4 DEF c

(* Every set on which a number is defined has an element with the least. *)
LEMMA LeastExists ==
  ASSUME NEW S, S # {}, NEW f \in [S -> Nat]
  PROVE  \E x \in S : \A y \in S : f[x] <= f[y]
<1> DEFINE T == {f[x] : x \in S}
<1>1. T \subseteq Nat /\ T # {}
  OBVIOUS
<1> DEFINE R == {ss \in Nat \X Nat : ss[1] < ss[2]}
<1>2. IsWellFoundedOn(R, Nat)
  BY NatLessThanWellFounded DEF OpToRel
<1>3. PICK m \in T : \A n \in T : ~(<<n, m>> \in R)
  BY <1>1, <1>2, WFMin
<1>4. ASSUME NEW n \in T PROVE m <= n
  <2>1. ~(n < m)
    BY <1>1, <1>3
  <2> QED
    BY <2>1, <1>1
<1> QED
  BY <1>4

Below(S, b) == {c \in S : c < b}

(* The elements of a finite set of numbers have the ranks 0, 1, 2 and so on. *)
LEMMA RankFacts ==
  ASSUME NEW S \in SUBSET Nat, IsFiniteSet(S)
  PROVE  LET f == [b \in S |-> Cardinality(Below(S, b))] IN
         /\ f \in [S -> 0 .. Cardinality(S) - 1]
         /\ \A b, c \in S : b # c => f[b] # f[c]
         /\ \A k \in 0 .. Cardinality(S) - 1 : \E b \in S : f[b] = k
<1> DEFINE f == [b \in S |-> Cardinality(Below(S, b))]
           n == Cardinality(S)
<1>1. n \in Nat
  BY FS_CardinalityType
<1>2. ASSUME NEW b \in S
      PROVE  /\ IsFiniteSet(Below(S, b)) /\ Cardinality(Below(S, b)) \in Nat
             /\ Cardinality(Below(S, b)) < n
  <2>1. Below(S, b) \in SUBSET S /\ b \notin Below(S, b)
    BY DEF Below
  <2>2. IsFiniteSet(Below(S, b)) /\ Cardinality(Below(S, b)) <= n
        /\ (n = Cardinality(Below(S, b)) => S = Below(S, b))
    BY <2>1, FS_Subset
  <2>3. Cardinality(Below(S, b)) \in Nat
    BY <2>2, FS_CardinalityType
  <2>4. S # Below(S, b)
    BY <2>1
  <2> HIDE DEF n
  <2> QED
    BY <1>1, <2>2, <2>3, <2>4
<1>3. ASSUME NEW b \in S, NEW c \in S, b < c
      PROVE  Cardinality(Below(S, b)) < Cardinality(Below(S, c))
  <2>1. Below(S, b) \in SUBSET Below(S, c) /\ b \in Below(S, c) /\ b \notin Below(S, b)
    <3>1. \A x \in S : x < b => x < c
      <4>1. \A x \in S : x \in Nat
        OBVIOUS
      <4> QED
        BY <1>3, <4>1
    <3>2. ~(b < b)
      OBVIOUS
    <3> QED
      BY <1>3, <3>1, <3>2 DEF Below
  <2>2. Cardinality(Below(S, b)) <= Cardinality(Below(S, c))
        /\ (Cardinality(Below(S, c)) = Cardinality(Below(S, b)) => Below(S, c) = Below(S, b))
    BY <1>2, <2>1, FS_Subset
  <2> QED
    BY <1>2, <2>1, <2>2
<1>4. f \in [S -> 0 .. n - 1]
  <2>1. \A b \in S : Cardinality(Below(S, b)) \in 0 .. n - 1
    <3> HIDE DEF n
    <3> QED
      BY <1>1, <1>2
  <2> HIDE DEF n
  <2> QED
    BY <2>1
<1>5. \A b, c \in S : b # c => f[b] # f[c]
  <2>1. SUFFICES ASSUME NEW b \in S, NEW c \in S, b # c PROVE f[b] # f[c]
    OBVIOUS
  <2>2. b < c \/ c < b
    BY <2>1
  <2>3. f[b] \in Nat /\ f[c] \in Nat
    BY <1>2
  <2>4. f[b] < f[c] \/ f[c] < f[b]
    BY <1>3, <2>2
  <2> QED
    BY <2>3, <2>4
<1> HIDE DEF f
<1>6. IsFiniteSet(0 .. n - 1) /\ Cardinality(0 .. n - 1) = n
  <2> HIDE DEF n
  <2> QED
    BY <1>1, FS_Interval
<1>7. f \in Injection(S, 0 .. n - 1)
  BY <1>4, <1>5 DEF Injection, IsInjective
<1>8. f \in Surjection(S, 0 .. n - 1)
  BY <1>6, <1>7, FS_Injection
<1>9. \A k \in 0 .. n - 1 : \E b \in S : f[b] = k
  BY <1>8 DEF Surjection
<1> QED
  BY <1>4, <1>5, <1>9 DEF f

(* A set has k elements of rank less than k, unless it is smaller. *)
LEMMA FirstOnes ==
  ASSUME NEW S \in SUBSET Nat, IsFiniteSet(S), NEW k \in 0 .. Cardinality(S)
  PROVE  Cardinality({b \in S : Cardinality(Below(S, b)) < k}) = k
<1> DEFINE R == {b \in S : Cardinality(Below(S, b)) < k}
           f == [b \in S |-> Cardinality(Below(S, b))]
           g == [b \in R |-> f[b]]
           n == Cardinality(S)
<1>1. n \in Nat /\ k \in Nat /\ k <= n
  <2>1. n \in Nat
    BY FS_CardinalityType
  <2> QED
    BY <2>1
<1>2. /\ f \in [S -> 0 .. n - 1]
      /\ \A b, c \in S : b # c => f[b] # f[c]
      /\ \A m \in 0 .. n - 1 : \E b \in S : f[b] = m
  BY RankFacts
<1>3. R = {b \in S : f[b] < k}
  OBVIOUS
<1> HIDE DEF R, f, n
<1>4. g \in [R -> 0 .. k - 1]
  <2>1. ASSUME NEW b \in R PROVE f[b] \in 0 .. k - 1
    <3>1. f[b] \in 0 .. n - 1 /\ f[b] < k
      BY <1>2, <1>3
    <3> QED
      BY <1>1, <3>1
  <2> QED
    BY <2>1
<1>5. \A b, c \in R : b # c => g[b] # g[c]
  BY <1>2, <1>3
<1>6. \A m \in 0 .. k - 1 : \E b \in R : g[b] = m
  <2>1. SUFFICES ASSUME NEW m \in 0 .. k - 1 PROVE \E b \in R : g[b] = m
    OBVIOUS
  <2>2. m \in 0 .. n - 1 /\ m < k
    BY <1>1
  <2>3. PICK b \in S : f[b] = m
    BY <1>2, <2>2
  <2>4. b \in R
    BY <1>3, <2>2, <2>3
  <2> QED
    BY <2>3, <2>4
<1> HIDE DEF g
<1>7. g \in Bijection(R, 0 .. k - 1)
  BY <1>4, <1>5, <1>6 DEF Bijection, Injection, Surjection, IsInjective
<1>8. ExistsBijection(R, 0 .. k - 1)
  BY <1>7 DEF ExistsBijection
<1>9. IsFiniteSet(R)
  <2>1. R \in SUBSET S
    BY <1>3
  <2> QED
    BY <2>1, FS_Subset
<1>10. Cardinality(0 .. k - 1) = Cardinality(R)
  BY <1>8, <1>9, FS_Bijection
<1>11. Cardinality(0 .. k - 1) = k
  BY <1>1, FS_Interval
<1> QED
  BY <1>10, <1>11 DEF R

(* Pieces of k taken from the first one on, until l is met: as many as l needs,
   if there are enough. *)
LEMMA TakeCount ==
  ASSUME NEW S \in SUBSET Nat, IsFiniteSet(S), NEW k \in Nat \ {0}, NEW l \in Nat,
         l <= k * Cardinality(S)
  PROVE  Cardinality({b \in S : k * Cardinality(Below(S, b)) < l}) = (l + k - 1) \div k
<1> DEFINE c == (l + k - 1) \div k
           n == Cardinality(S)
<1>1. n \in Nat /\ k * n \in Nat /\ ~(k * n < l)
  <2>1. n \in Nat
    BY FS_CardinalityType
  <2> HIDE DEF n
  <2>2. k * n \in Nat
    BY <2>1
  <2> QED
    BY <2>1, <2>2 DEF n
<1>2. c \in Nat /\ \A m \in Nat : k * m < l <=> m < c
  BY CeilFacts
<1> HIDE DEF c, n
<1>3. c \in 0 .. n
  BY <1>1, <1>2
<1>4. ASSUME NEW b \in S PROVE Cardinality(Below(S, b)) \in Nat
  <2>1. Below(S, b) \in SUBSET S
    BY DEF Below
  <2> QED
    BY <2>1, FS_Subset, FS_CardinalityType
<1>5. {b \in S : k * Cardinality(Below(S, b)) < l}
        = {b \in S : Cardinality(Below(S, b)) < c}
  BY <1>2, <1>4
<1>6. Cardinality({b \in S : Cardinality(Below(S, b)) < c}) = c
  BY <1>3, FirstOnes DEF n
<1> QED
  BY <1>5, <1>6 DEF c

=============================================================================
