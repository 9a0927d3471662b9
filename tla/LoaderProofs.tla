---------------------------- MODULE LoaderProofs ----------------------------
(***************************************************************************)
(* What a load returns, for files of any length, samples and limits of any *)
(* size, chunks of any length and any clock and features.                  *)
(***************************************************************************)
EXTENDS TwinLoaders, FiniteSetTheorems, SequenceTheorems, WellFoundedInduction, TLAPS

-----------------------------------------------------------------------------
(* Sorting, and what is spread evenly *)

Distinct(s) == \A i, j \in DOMAIN s : s[i] = s[j] => i = j

\* s has every element of S once.
Enumerates(s, S) ==
  /\ s \in Seq(S) /\ Len(s) = Cardinality(S)
  /\ Distinct(s)
  /\ \A x \in S : \E k \in DOMAIN s : s[k] = x

\* The sets Up[i] grow along a chain, and t has its elements in that order.
Chain(S, Up) ==
  /\ \A i \in S : Up[i] \in SUBSET S /\ i \in Up[i]
  /\ \A i, j \in S : \/ i = j
                     \/ Up[i] \subseteq Up[j] /\ j \notin Up[i]
                     \/ Up[j] \subseteq Up[i] /\ i \notin Up[j]

Climbs(t, S, Up) ==
  /\ t = [k \in 1..Cardinality(S) |-> t[k]]
  /\ \A k \in 1..Cardinality(S) : (\E i \in S : Cardinality(Up[i]) = k) =>
       t[k] \in S /\ Cardinality(Up[t[k]]) = k

LEMMA ChainOrders ==
  ASSUME NEW S, IsFiniteSet(S), NEW Up, Chain(S, Up), NEW t, Climbs(t, S, Up)
  PROVE  /\ Enumerates(t, S)
         /\ \A k, l \in DOMAIN t : k < l => t[l] \notin Up[t[k]]
<1> DEFINE n == Cardinality(S)
           rank == [i \in S |-> Cardinality(Up[i])]
<1>1. n \in Nat /\ IsFiniteSet(1..n) /\ Cardinality(1..n) = n
  BY FS_CardinalityType, FS_Interval
<1>2. ASSUME NEW i \in S
      PROVE  IsFiniteSet(Up[i]) /\ Cardinality(Up[i]) \in 1..n
  <2>0. Up[i] \in SUBSET S /\ i \in Up[i]
    BY DEF Chain
  <2>1. IsFiniteSet(Up[i]) /\ Cardinality(Up[i]) <= n
    BY <2>0, FS_Subset
  <2>2. Cardinality(Up[i]) \in Nat /\ Cardinality(Up[i]) # 0
    BY <2>0, <2>1, FS_CardinalityType, FS_EmptySet
  <2> QED
    BY <2>1, <2>2, <1>1
<1>3. ASSUME NEW i \in S, NEW j \in S, Up[i] \subseteq Up[j], j \notin Up[i]
      PROVE  Cardinality(Up[i]) < Cardinality(Up[j])
  <2>1. Cardinality(Up[i]) <= Cardinality(Up[j]) /\ Cardinality(Up[i]) # Cardinality(Up[j])
    <3>1. Up[i] # Up[j]
      BY <1>3 DEF Chain
    <3> QED
      BY <1>2, <1>3, <3>1, FS_Subset
  <2>2. Cardinality(Up[i]) \in Int /\ Cardinality(Up[j]) \in Int
    BY <1>2
  <2> QED
    BY <2>1, <2>2
<1>4. ASSUME NEW i \in S, NEW j \in S, Cardinality(Up[i]) = Cardinality(Up[j]) PROVE i = j
  <2> SUFFICES ASSUME i # j PROVE FALSE
    OBVIOUS
  <2>1. Cardinality(Up[i]) < Cardinality(Up[j]) \/ Cardinality(Up[j]) < Cardinality(Up[i])
    BY <1>3 DEF Chain
  <2> QED
    BY <1>2, <1>4, <2>1
<1>5. rank \in [S -> 1..n]
  BY <1>2
<1>6. rank \in Injection(S, 1..n)
  BY <1>4, <1>5 DEF Injection, IsInjective
<1>7. rank \in Surjection(S, 1..n)
  BY <1>1, <1>6, FS_Injection
<1>8. \A k \in 1..n : \E i \in S : Cardinality(Up[i]) = k
  BY <1>7 DEF Surjection
<1>9. \A k \in 1..n : t[k] \in S /\ Cardinality(Up[t[k]]) = k
  BY <1>8 DEF Climbs
<1>10. t \in [1..n -> S]
  BY <1>9 DEF Climbs
<1> HIDE DEF n, rank
<1>11. t \in Seq(S) /\ Len(t) = n /\ DOMAIN t = 1..n
  BY <1>1, <1>10
<1>12. Distinct(t)
  BY <1>9, <1>11 DEF Distinct
<1>13. \A x \in S : \E k \in DOMAIN t : t[k] = x
  BY <1>2, <1>4, <1>9, <1>11
<1>14. ASSUME NEW k \in 1..n, NEW l \in 1..n, k < l, t[l] \in Up[t[k]] PROVE FALSE
  <2>1. t[k] \in S /\ t[l] \in S /\ t[k] # t[l]
    BY <1>9, <1>14
  <2>2. Up[t[l]] \subseteq Up[t[k]] /\ t[k] \notin Up[t[l]]
    BY <1>14, <2>1 DEF Chain
  <2>3. Cardinality(Up[t[l]]) < Cardinality(Up[t[k]])
    BY <1>3, <2>1, <2>2
  <2> QED
    BY <1>9, <1>14, <2>3
<1> QED
  BY <1>11, <1>12, <1>13, <1>14 DEF Enumerates, n

LEMMA InOrderFacts ==
  ASSUME NEW S \in SUBSET Int, IsFiniteSet(S)
  PROVE  /\ Enumerates(InOrder(S), S)
         /\ \A k, l \in DOMAIN InOrder(S) : k < l => InOrder(S)[k] < InOrder(S)[l]
<1> DEFINE Up == [i \in S |-> {j \in S : j <= i}]
<1>1. Chain(S, Up)
  <2>1. ASSUME NEW i \in S, NEW j \in S, i < j
        PROVE  Up[i] \subseteq Up[j] /\ j \notin Up[i]
    <3>1. \A k \in S : k <= i => k <= j
      BY <2>1
    <3>2. ~(j <= i)
      BY <2>1
    <3> QED
      BY <3>1, <3>2
  <2>2. \A i, j \in S : i < j \/ j < i \/ i = j
    OBVIOUS
  <2> QED
    BY <2>1, <2>2 DEF Chain
<1>2. Climbs(InOrder(S), S, Up)
  <2>1. InOrder(S) = [k \in 1..Cardinality(S) |-> CHOOSE i \in S : Cardinality({j \in S : j <= i}) = k]
    BY DEF InOrder
  <2>2. \A k \in 1..Cardinality(S) :
          InOrder(S)[k] = CHOOSE i \in S : Cardinality({j \in S : j <= i}) = k
    BY <2>1
  <2>3. ASSUME NEW k \in 1..Cardinality(S), \E i \in S : Cardinality({j \in S : j <= i}) = k
        PROVE  InOrder(S)[k] \in S /\ Cardinality({j \in S : j <= InOrder(S)[k]}) = k
    BY <2>2, <2>3
  <2> QED
    BY <2>1, <2>3 DEF Climbs
<1>4. \A i, j \in S : j \notin Up[i] => i < j
  OBVIOUS
<1> HIDE DEF Up
<1>5. /\ Enumerates(InOrder(S), S)
      /\ \A k, l \in DOMAIN InOrder(S) : k < l => InOrder(S)[l] \notin Up[InOrder(S)[k]]
  BY <1>1, <1>2, ChainOrders
<1>6. \A k \in DOMAIN InOrder(S) : InOrder(S)[k] \in S
  BY <1>5 DEF Enumerates
<1> QED
  BY <1>4, <1>5, <1>6

LEMMA SortByFacts ==
  ASSUME NEW S \in SUBSET Int, IsFiniteSet(S), NEW key, \A i \in S : key[i] \in Int
  PROVE  /\ Enumerates(SortBy(S, key), S)
         /\ \A k, l \in DOMAIN SortBy(S, key) : k < l =>
              LET i == SortBy(S, key)[k]
                  j == SortBy(S, key)[l]
              IN key[i] < key[j] \/ (key[i] = key[j] /\ i < j)
<1> DEFINE Up == [i \in S |-> Upto(S, key, i)]
<1>2. ASSUME NEW i \in S, NEW j \in S, i # j
      PROVE  \/ Up[i] \subseteq Up[j] /\ j \notin Up[i]
             \/ Up[j] \subseteq Up[i] /\ i \notin Up[j]
  <2>1. key[i] \in Int /\ key[j] \in Int /\ i \in Int /\ j \in Int
    OBVIOUS
  <2>2. ASSUME key[i] < key[j] \/ (key[i] = key[j] /\ i < j)
        PROVE  Up[i] \subseteq Up[j] /\ j \notin Up[i]
    <3>2. ASSUME NEW k \in S, k \in Upto(S, key, i) PROVE k \in Upto(S, key, j)
      <4>1. key[k] \in Int /\ k \in Int /\ (key[k] < key[i] \/ (key[k] = key[i] /\ k <= i))
        BY <3>2 DEF Upto
      <4>2. key[k] < key[j] \/ (key[k] = key[j] /\ k <= j)
        BY <2>1, <2>2, <4>1
      <4> QED
        BY <4>2 DEF Upto
    <3>3. j \notin Upto(S, key, i)
      BY <2>1, <2>2 DEF Upto
    <3> QED
      BY <3>2, <3>3 DEF Upto
  <2>3. ASSUME key[j] < key[i] \/ (key[i] = key[j] /\ j < i)
        PROVE  Up[j] \subseteq Up[i] /\ i \notin Up[j]
    <3>2. ASSUME NEW k \in S, k \in Upto(S, key, j) PROVE k \in Upto(S, key, i)
      <4>1. key[k] \in Int /\ k \in Int /\ (key[k] < key[j] \/ (key[k] = key[j] /\ k <= j))
        BY <3>2 DEF Upto
      <4>2. key[k] < key[i] \/ (key[k] = key[i] /\ k <= i)
        BY <2>1, <2>3, <4>1
      <4> QED
        BY <4>2 DEF Upto
    <3>3. i \notin Upto(S, key, j)
      BY <2>1, <2>3 DEF Upto
    <3> QED
      BY <3>2, <3>3 DEF Upto
  <2>4. \/ key[i] < key[j] \/ (key[i] = key[j] /\ i < j)
        \/ key[j] < key[i] \/ (key[i] = key[j] /\ j < i)
    BY <1>2, <2>1
  <2> QED
    BY <2>2, <2>3, <2>4
<1>3. Chain(S, Up)
  <2>1. \A i \in S : Up[i] \in SUBSET S /\ i \in Up[i]
    BY DEF Upto
  <2> QED
    BY <1>2, <2>1 DEF Chain
<1>4. Climbs(SortBy(S, key), S, Up)
  <2>1. SortBy(S, key) =
          [k \in 1..Cardinality(S) |-> CHOOSE i \in S : Cardinality(Upto(S, key, i)) = k]
    BY DEF SortBy
  <2>2. \A k \in 1..Cardinality(S) :
          SortBy(S, key)[k] = CHOOSE i \in S : Cardinality(Upto(S, key, i)) = k
    BY <2>1
  <2>3. ASSUME NEW k \in 1..Cardinality(S), \E i \in S : Cardinality(Upto(S, key, i)) = k
        PROVE  SortBy(S, key)[k] \in S /\ Cardinality(Upto(S, key, SortBy(S, key)[k])) = k
    BY <2>2, <2>3
  <2> QED
    BY <2>1, <2>3 DEF Climbs
<1>5. \A i, j \in S : j \notin Up[i] => key[i] < key[j] \/ (key[i] = key[j] /\ i < j)
  BY DEF Upto
<1> HIDE DEF Up
<1>6. /\ Enumerates(SortBy(S, key), S)
      /\ \A k, l \in DOMAIN SortBy(S, key) : k < l => SortBy(S, key)[l] \notin Up[SortBy(S, key)[k]]
  BY <1>3, <1>4, ChainOrders
<1>7. \A k \in DOMAIN SortBy(S, key) : SortBy(S, key)[k] \in S
  BY <1>6 DEF Enumerates
<1> QED
  BY <1>5, <1>6, <1>7

LEMMA Quotient ==
  ASSUME NEW x \in Nat, NEW d \in Nat \ {0}
  PROVE  x \div d \in Nat /\ d * (x \div d) <= x /\ x < d * (x \div d) + d
<1>1. x \div d \in Int
  OBVIOUS
<1>2. x = d * (x \div d) + (x % d) /\ x % d \in 0..d - 1
  OBVIOUS
<1>3. x \div d >= 0
  OBVIOUS
<1> QED
  BY <1>1, <1>2, <1>3

\* Indices that are spread over M + 1, or over M, never meet.
LEMMA Spread ==
  ASSUME NEW M \in Nat, NEW d \in Nat \ {0}, d <= M, NEW j \in Nat, NEW k \in Nat
  PROVE  /\ k * M \in Nat /\ (k * M) \div d \in Nat
         /\ k <= d => (k * M) \div d <= M
         /\ k < d => (k * M) \div d < M
         /\ j < k => (j * M) \div d < (k * M) \div d
<1> DEFINE x == j * M
           y == k * M
           p == x \div d
           q == y \div d
<1>1. x \in Nat /\ y \in Nat
  OBVIOUS
<1>2. /\ p \in Nat /\ d * p <= x /\ x < d * p + d
      /\ q \in Nat /\ d * q <= y /\ y < d * q + d
  BY <1>1, Quotient
<1>3. ASSUME k <= d PROVE q <= M
  <2>1. y <= d * M
    BY <1>3
  <2>2. d * q <= d * M
    BY <1>1, <1>2, <2>1
  <2> HIDE DEF q
  <2> QED
    BY <1>2, <2>2
<1>4. ASSUME k < d PROVE q < M
  <2>1. y < d * M
    BY <1>4
  <2>2. d * q < d * M
    BY <1>1, <1>2, <2>1
  <2> HIDE DEF q
  <2> QED
    BY <1>2, <2>2
<1>5. ASSUME j < k PROVE p < q
  <2>1. y >= x + M
    BY <1>5
  <2>2. y >= d * p + d
    BY <1>1, <1>2, <2>1
  <2> HIDE DEF p, q, x, y
  <2>3. d * q + d > d * p + d
    BY <1>1, <1>2, <2>2
  <2> QED
    BY <1>2, <2>3
<1> QED
  BY <1>1, <1>2, <1>3, <1>4, <1>5

LEMMA SeqSuperset ==
  ASSUME NEW S, NEW T, S \subseteq T, NEW s \in Seq(S)
  PROVE  s \in Seq(T)
<1>1. Len(s) \in Nat /\ s \in [1..Len(s) -> T]
  OBVIOUS
<1> QED
  BY <1>1

\* What holds at 0, and at n + 1 if at n, holds up to a bound.
LEMMA Ascent ==
  ASSUME NEW S, 0 \in S, NEW n \in Nat, \A m \in 0..(n - 1) : m \in S => m + 1 \in S
  PROVE  \A m \in 0..n : m \in S
<1> DEFINE R == OpToRel(<, Nat)
           B == {m \in 0..n : m \notin S}
<1> SUFFICES ASSUME B # {} PROVE FALSE
  OBVIOUS
<1>1. B \subseteq Nat
  OBVIOUS
<1>2. \E x \in B : \A y \in B : ~(<<y, x>> \in R)
  <2> HIDE DEF R, B
  <2>1. IsWellFoundedOn(R, Nat)
    BY NatLessThanWellFounded DEF R
  <2> QED
    BY <1>1, <2>1, WFMin
<1>3. PICK x \in B : \A y \in B : ~(<<y, x>> \in R)
  BY <1>2
<1>4. \A y \in B : ~(y < x)
  BY <1>1, <1>3 DEF OpToRel
<1>5. x \in 0..n /\ x \notin S /\ x # 0
  OBVIOUS
<1>6. x - 1 \in 0..(n - 1) /\ x - 1 \in 0..n /\ x - 1 < x /\ (x - 1) + 1 = x
  BY <1>5
<1>7. x - 1 \in S
  BY <1>4, <1>6
<1> QED
  BY <1>5, <1>6, <1>7

-----------------------------------------------------------------------------
(* The loaders.  A timed load reads its files in the order of their numbers,  *)
(* and the rows of a file in the order of the file.                          *)

LEMMA MinPair ==
  ASSUME NEW a \in Int, NEW b \in Int
  PROVE  Min({a, b}) = IF a <= b THEN a ELSE b
BY DEF Min

\* t is a sequence of elements of S, each greater than the one before it.
Ascends(t, S) ==
  /\ t \in Seq(S)
  /\ \A k, l \in DOMAIN t : k < l => t[k] < t[l]

LEMMA InOrderAscends ==
  ASSUME NEW S \in SUBSET Int, IsFiniteSet(S)
  PROVE  Ascends(InOrder(S), S)
BY InOrderFacts DEF Ascends, Enumerates

LEMMA IdentityAscends ==
  ASSUME NEW n \in Nat
  PROVE  Ascends([i \in 1..n |-> i], 1..n)
<1>1. [i \in 1..n |-> i] \in Seq(1..n)
  OBVIOUS
<1> QED
  BY <1>1 DEF Ascends

LEMMA PrefixAscends ==
  ASSUME NEW S \in SUBSET Int, NEW t, Ascends(t, S), NEW n \in 0..Len(t)
  PROVE  /\ Ascends(SubSeq(t, 1, n), S) /\ Len(SubSeq(t, 1, n)) = n
         /\ \A k \in 1..n : SubSeq(t, 1, n)[k] = t[k]
<1>1. t \in Seq(S) /\ n <= Len(t) /\ n \in Nat /\ Len(t) \in Nat /\ DOMAIN t = 1..Len(t)
  BY DEF Ascends
<1>2. /\ SubSeq(t, 1, n) \in Seq(S) /\ Len(SubSeq(t, 1, n)) = n
      /\ \A k \in 1..n : SubSeq(t, 1, n)[k] = t[k]
  BY <1>1
<1> QED
  BY <1>1, <1>2 DEF Ascends

LEMMA AscendsThrough ==
  ASSUME NEW S \in SUBSET Int, NEW t, Ascends(t, S), NEW u, Ascends(u, DOMAIN t)
  PROVE  Ascends([k \in DOMAIN u |-> t[u[k]]], S)
<1> DEFINE v == [k \in DOMAIN u |-> t[u[k]]]
<1>1. t \in Seq(S) /\ u \in Seq(DOMAIN t)
  BY DEF Ascends
<1>2. v \in Seq(S)
  BY <1>1
<1>3. ASSUME NEW k \in DOMAIN v, NEW l \in DOMAIN v, k < l PROVE v[k] < v[l]
  <2>1. u[k] \in DOMAIN t /\ u[l] \in DOMAIN t /\ u[k] < u[l]
    BY <1>1, <1>3 DEF Ascends
  <2> QED
    BY <2>1 DEF Ascends
<1> QED
  BY <1>2, <1>3 DEF Ascends

\* An even choice of positions ascends, and leaves none out when there is no target.
LEMMA EvenAscends ==
  ASSUME NEW total \in Nat, NEW target, target \in Nat \ {0} \/ target = None
  PROVE  Ascends(EvenlySpaced(total, target), 0..(total - 1))
<1> DEFINE e == EvenlySpaced(total, target)
<1>1. CASE target = None \/ target >= total \/ total = 0
  <2>1. e = [i \in 1..total |-> i - 1]
    BY <1>1 DEF EvenlySpaced
  <2>2. [i \in 1..total |-> i - 1] \in Seq(0..(total - 1))
    OBVIOUS
  <2> QED
    BY <2>1, <2>2 DEF Ascends
<1>2. CASE ~(target = None \/ target >= total \/ total = 0)
  <2>1. target \in Nat \ {0} /\ target <= total /\ total # 0
    BY <1>2
  <2> DEFINE at(i) == ((i - 1) * total) \div target
  <2>2. e = [i \in 1..target |-> Min({total - 1, at(i)})]
    BY <1>2 DEF EvenlySpaced
  <2>3. ASSUME NEW i \in 1..target PROVE at(i) \in 0..(total - 1) /\ e[i] = at(i)
    <3>1. i - 1 \in Nat /\ i - 1 < target
      BY <2>1
    <3>2. at(i) \in Nat /\ at(i) < total
      BY <2>1, <3>1, Spread
    <3>3. e[i] = Min({total - 1, at(i)})
      BY <2>2
    <3> HIDE DEF at
    <3>4. Min({total - 1, at(i)}) = at(i)
      BY <3>2, MinPair
    <3> HIDE DEF e
    <3> QED
      BY <3>2, <3>3, <3>4
  <2>4. ASSUME NEW i \in 1..target, NEW j \in 1..target, i < j PROVE at(i) < at(j)
    <3>1. i - 1 \in Nat /\ j - 1 \in Nat /\ i - 1 < j - 1
      BY <2>4
    <3> QED
      BY <2>1, <3>1, Spread
  <2>5. DOMAIN e = 1..target
    BY <2>2
  <2> HIDE DEF at, e
  <2>6. e = [i \in 1..target |-> e[i]]
    BY <2>2
  <2>7. e \in Seq(0..(total - 1))
    BY <2>1, <2>3, <2>6
  <2>8. Ascends(e, 0..(total - 1))
    BY <2>3, <2>4, <2>5, <2>7 DEF Ascends
  <2> QED
    BY <2>8 DEF e
<1> QED
  BY <1>1, <1>2

LEMMA AscendsWider ==
  ASSUME NEW S, NEW T, S \subseteq T, NEW t, Ascends(t, S)
  PROVE  Ascends(t, T)
BY SeqSuperset DEF Ascends

LEMMA Joined ==
  ASSUME NEW S, NEW s \in Seq(S), NEW t \in Seq(S)
  PROVE  /\ s \o t \in Seq(S) /\ Len(s \o t) = Len(s) + Len(t)
         /\ DOMAIN (s \o t) = 1..(Len(s) + Len(t))
         /\ \A i \in 1..Len(s) : (s \o t)[i] = s[i]
         /\ \A k \in 1..Len(t) : (s \o t)[Len(s) + k] = t[k]
OBVIOUS

LEMMA JoinedTimes ==
  ASSUME NEW n, NEW m, NEW s \in Seq(Nat), NEW t \in Seq(Nat), Len(s) = n, Len(t) = m
  PROVE  /\ s \o t \in Seq(Nat) /\ Len(s \o t) = n + m
         /\ \A i \in 1..n : (s \o t)[i] = s[i]
         /\ \A k \in 1..m : (s \o t)[n + k] = t[k]
<1>1. s \o t \in Seq(Nat) /\ Len(s \o t) = Len(s) + Len(t)
  OBVIOUS
<1>2. \A i \in 1..Len(s) : (s \o t)[i] = s[i]
  OBVIOUS
<1>3. \A k \in 1..Len(t) : (s \o t)[Len(s) + k] = t[k]
  OBVIOUS
<1> QED
  BY <1>1, <1>2, <1>3

LEMMA Element ==
  ASSUME NEW S, NEW s \in Seq(S), NEW k \in DOMAIN s
  PROVE  s[k] \in S
OBVIOUS


Bound == (Nat \ {0}) \cup {None}

\* What a call is; it does not change.
LoadInv ==
  /\ load.name \in DOMAIN Loaders
  /\ load.files \in Seq(Seq(Values \cup {"header", "flow"})) /\ Len(load.files) \in {1, 2}
  /\ \A f \in DOMAIN load.files : Len(load.files[f]) <= MaxRows[f]
  /\ load.layout \in Layouts
  /\ load.size \in Bound /\ load.stride \in Bound /\ load.limit \in Nat \cup {None}
  /\ load.known \in BOOLEAN /\ load.columns \in BOOLEAN /\ load.timed \in BOOLEAN

LEMMA LoaderFacts ==
  ASSUME load.name \in DOMAIN Loaders
  PROVE  /\ Timed => /\ Loader.paths \in {"all", "known"} /\ Loader.orders = "load"
                     /\ Loader.cut \in {"always", "before", "spread"}
                     /\ Loader.sample \in {"stride", "even"}
         /\ Loader.cut = "spread" => Loader.sample = "even"
         /\ Loader.unique => Loader.orders = "file"
<1>1. load.name \in {"cicids2018", "cicddos2019", "cicids2017", "unsw_nb15", "nsl_kdd",
                     "dohbrw2020", "dnsexf2021", "ciciot2023"}
  BY DEF Loaders
<1>2. CASE load.name = "cicids2018"
  <2>1. Loader = Cicids2018
    BY <1>2 DEF Loader, Loaders
  <2>2. Cicids2018.orders = "load" /\ Cicids2018.cut = "always" /\ Cicids2018.sample = "stride" /\ Cicids2018.paths = "all" /\ ~Cicids2018.unique
    BY DEF Cicids2018
  <2> QED
    BY <2>1, <2>2 DEF Timed
<1>3. CASE load.name = "cicddos2019"
  <2>1. Loader = Cicddos2019
    BY <1>3 DEF Loader, Loaders
  <2>2. Cicddos2019.orders = "load" /\ Cicddos2019.cut = "before" /\ Cicddos2019.sample = "stride" /\ Cicddos2019.paths = "all" /\ ~Cicddos2019.unique
    BY DEF Cicddos2019
  <2> QED
    BY <2>1, <2>2 DEF Timed
<1>4. CASE load.name = "cicids2017"
  <2>1. Loader = Cicids2017
    BY <1>4 DEF Loader, Loaders
  <2>2. Cicids2017.orders = "nobody" /\ Cicids2017.cut = "row" /\ Cicids2017.sample = "head" /\ ~Cicids2017.unique
    BY DEF Cicids2017
  <2> QED
    BY <2>1, <2>2 DEF Timed
<1>5. CASE load.name = "unsw_nb15"
  <2>1. Loader = UnswNb15
    BY <1>5 DEF Loader, Loaders
  <2>2. UnswNb15.orders = "nobody" /\ UnswNb15.cut = "row" /\ UnswNb15.sample = "head" /\ ~UnswNb15.unique
    BY DEF UnswNb15
  <2> QED
    BY <2>1, <2>2 DEF Timed
<1>6. CASE load.name = "nsl_kdd"
  <2>1. Loader = NslKdd
    BY <1>6 DEF Loader, Loaders
  <2>2. NslKdd.orders = "nobody" /\ NslKdd.cut = "none" /\ NslKdd.sample = "none" /\ ~NslKdd.unique
    BY DEF NslKdd
  <2> QED
    BY <2>1, <2>2 DEF Timed
<1>7. CASE load.name = "dohbrw2020"
  <2>1. Loader = DohBrw2020
    BY <1>7 DEF Loader, Loaders
  <2>2. DohBrw2020.orders = "file" /\ DohBrw2020.cut = "end" /\ DohBrw2020.sample = "head" /\ ~DohBrw2020.unique
    BY DEF DohBrw2020
  <2> QED
    BY <2>1, <2>2 DEF Timed
<1>8. CASE load.name = "dnsexf2021"
  <2>1. Loader = DnsExf2021
    BY <1>8 DEF Loader, Loaders
  <2>2. DnsExf2021.orders = "file" /\ DnsExf2021.cut = "row" /\ DnsExf2021.sample = "head" /\ DnsExf2021.unique
    BY DEF DnsExf2021
  <2> QED
    BY <2>1, <2>2 DEF Timed
<1>9. CASE load.name = "ciciot2023"
  <2>1. Loader = Ciciot2023
    BY <1>9 DEF Loader, Loaders
  <2>2. Ciciot2023.orders = "load" /\ Ciciot2023.cut = "spread" /\ Ciciot2023.sample = "even" /\ Ciciot2023.paths = "known" /\ ~Ciciot2023.unique
    BY DEF Ciciot2023
  <2> QED
    BY <2>1, <2>2 DEF Timed
<1> QED
  BY <1>1, <1>2, <1>3, <1>4, <1>5, <1>6, <1>7, <1>8, <1>9

\* A timed load reads files in the order of their numbers.
LEMMA FilesAscend ==
  ASSUME LoadInv, Timed
  PROVE  Ascends(ToRead, DOMAIN load.files)
<1> DEFINE n == Len(load.files)
<1>1. n \in Nat /\ DOMAIN load.files = 1..n
  BY DEF LoadInv
<1>2. Loader.paths \in {"all", "known"}
  BY LoaderFacts DEF LoadInv
<1>3. CASE Loader.paths = "all"
  <2>1. ToRead = [f \in 1..n |-> f]
    BY <1>3 DEF ToRead, AllFiles
  <2> HIDE DEF n
  <2> QED
    BY <1>1, <2>1, IdentityAscends
<1>4. CASE Loader.paths = "known"
  <2> DEFINE S == {f \in DOMAIN load.files : f = 2 \/ load.known}
  <2>1. ToRead = InOrder(S)
    BY <1>4 DEF ToRead, KnownFiles
  <2>2. IsFiniteSet(1..n)
    BY <1>1, FS_Interval
  <2>3. S \in SUBSET (1..n) /\ S \in SUBSET Int
    BY <1>1
  <2>4. IsFiniteSet(S)
    BY <2>2, <2>3, FS_Subset
  <2> HIDE DEF S, n
  <2>5. Ascends(ToRead, S)
    BY <2>1, <2>3, <2>4, InOrderAscends
  <2>6. ToRead \in Seq(1..n)
    <3>1. ToRead \in Seq(S)
      BY <2>5 DEF Ascends
    <3> QED
      BY <2>3, <3>1, SeqSuperset
  <2> QED
    BY <1>1, <2>5, <2>6 DEF Ascends
<1> QED
  BY <1>2, <1>3, <1>4

\* The order of reading, in a timed load
ReadBefore(r, q) == r[1] < q[1] \/ (r[1] = q[1] /\ r[2] < q[2])

LEMMA EarlierIs ==
  ASSUME LoadInv, Timed, NEW k \in DOMAIN ToRead, NEW l \in DOMAIN ToRead, NEW p, NEW q,
         ReadBefore(<<ToRead[k], p>>, <<ToRead[l], q>>)
  PROVE  Earlier(<<ToRead[k], p>>, <<ToRead[l], q>>)
<1>1. Ascends(ToRead, DOMAIN load.files) /\ DOMAIN load.files \in SUBSET Int
  BY FilesAscend DEF LoadInv
<1>2. \A i \in DOMAIN ToRead : ToRead[i] \in Int /\ i \in Int
  BY <1>1 DEF Ascends
<1>3. \A i, j \in DOMAIN ToRead : i < j => ToRead[i] < ToRead[j]
  BY <1>1 DEF Ascends
<1>4. ASSUME NEW i \in DOMAIN ToRead, NEW j \in DOMAIN ToRead, ToRead[i] = ToRead[j] PROVE i = j
  BY <1>2, <1>3, <1>4
<1>5. ASSUME NEW i \in DOMAIN ToRead PROVE FilePlace(ToRead[i]) = i
  BY <1>4 DEF FilePlace
<1>6. Loader.orders = "load"
  BY LoaderFacts DEF LoadInv
<1>7. CASE ToRead[k] < ToRead[l]
  <2>1. k < l
    BY <1>2, <1>3, <1>7
  <2> QED
    BY <1>5, <2>1 DEF Earlier
<1>8. CASE ToRead[k] = ToRead[l] /\ p < q
  BY <1>6, <1>8 DEF Earlier
<1> QED
  BY <1>7, <1>8 DEF ReadBefore

LEMMA CapType ==
  ASSUME LoadInv
  PROVE  /\ Cap \in Nat \cup {None}
         /\ Cap = 0 => load.limit = 0
BY DEF LoadInv, Cap


\* Where Take finds a limit, it has room.
RoomInv == Cap # None /\ Loader.cut \notin {"end", "spread"} => Len(loaded) <= Cap

\* What Take adds: of the rows picked some, in their order.
LEMMA Taken ==
  ASSUME LoadInv, RoomInv, NEW f, NEW picked \in Seq(Nat), NEW T, loaded \in Seq(T),
         Take(f, picked)
  PROVE  \E taken : /\ Ascends(taken, DOMAIN picked)
                    /\ loaded' = loaded \o [k \in 1..Len(taken) |-> LoadedRow(f, picked[taken[k]])]
                    /\ times' = IF Timed THEN times \o [k \in 1..Len(taken) |-> Clock(f, picked[taken[k]])]
                                ELSE times
                    /\ Cap # None /\ Loader.cut \notin {"end", "spread"} =>
                         Len(loaded) + Len(taken) <= Cap
<1> DEFINE room == IF Cap = None \/ Loader.cut \in {"end", "spread"} THEN Len(picked)
                   ELSE Cap - Len(loaded)
           W == {i \in DOMAIN picked : Wanted(f, picked, i)}
           wanted == InOrder(W)
           n == Min({room, Len(wanted)})
           taken == SubSeq(wanted, 1, n)
<1>1. Len(picked) \in Nat /\ Len(loaded) \in Nat /\ DOMAIN picked = 1..Len(picked)
  OBVIOUS
<1>2. room \in Nat
  BY <1>1, CapType DEF RoomInv
<1>3. W \in SUBSET DOMAIN picked /\ W \in SUBSET Int /\ IsFiniteSet(W)
  <2>1. IsFiniteSet(1..Len(picked))
    BY <1>1, FS_Interval
  <2>2. W \in SUBSET (1..Len(picked))
    BY <1>1
  <2> QED
    BY <1>1, <2>1, <2>2, FS_Subset
<1>4. /\ loaded' = loaded \o [k \in 1..Len(taken) |-> LoadedRow(f, picked[taken[k]])]
      /\ times' = IF Timed THEN times \o [k \in 1..Len(taken) |-> Clock(f, picked[taken[k]])]
                  ELSE times
  BY DEF Take
<1> HIDE DEF W
<1>5. Ascends(wanted, W)
  BY <1>3, InOrderAscends
<1>6. Len(wanted) \in Nat
  BY <1>5 DEF Ascends
<1>7. n \in 0..Len(wanted) /\ n <= room
  <2> HIDE DEF room, wanted
  <2> QED
    BY <1>2, <1>6, MinPair
<1> HIDE DEF n, wanted
<1>8. Ascends(taken, W) /\ Len(taken) = n
  BY <1>3, <1>5, <1>7, PrefixAscends
<1>9. Ascends(taken, DOMAIN picked)
  BY <1>3, <1>8, SeqSuperset DEF Ascends
<1>10. Cap # None /\ Loader.cut \notin {"end", "spread"} => Len(loaded) + Len(taken) <= Cap
  BY <1>1, <1>2, <1>7, <1>8, CapType
<1> HIDE DEF taken
<1> QED
  BY <1>4, <1>9, <1>10

\* The positions that ReadChunk picks
LEMMA PickedAscends ==
  ASSUME NEW f, seen \in Nat, kept \in Nat, NEW until \in Nat, load.size \in Bound,
         ~(load.stride = None /\ load.size # None /\ kept >= load.size)
  PROVE  Ascends(Picked(f, until), seen..(until - 1))
<1> DEFINE S == {p \in seen..(until - 1) : p % Stride(f) = 0}
           picked == InOrder(S)
           n == Min({Len(picked), load.size - kept})
<1>1. IsFiniteSet(seen..(until - 1))
  BY FS_Interval
<1>2. S \in SUBSET (seen..(until - 1)) /\ S \in SUBSET Int
  OBVIOUS
<1>3. Ascends(picked, S)
  BY <1>1, <1>2, FS_Subset, InOrderAscends
<1>4. Picked(f, until) = IF load.size = None \/ load.stride # None THEN picked ELSE SubSeq(picked, 1, n)
  BY DEF Picked
<1> HIDE DEF S, picked, n
<1>5. Len(picked) \in Nat
  BY <1>3 DEF Ascends
<1>6. CASE load.size = None \/ load.stride # None
  BY <1>2, <1>3, <1>4, <1>6, SeqSuperset DEF Ascends
<1>7. CASE ~(load.size = None \/ load.stride # None)
  <2>1. load.size - kept \in Nat
    BY <1>7 DEF Bound
  <2>2. n \in 0..Len(picked)
    BY <1>5, <2>1, MinPair DEF n
  <2>3. Ascends(SubSeq(picked, 1, n), S)
    BY <1>2, <1>3, <2>2, PrefixAscends
  <2>4. Picked(f, until) = SubSeq(picked, 1, n)
    BY <1>4, <1>7
  <2>5. Ascends(SubSeq(picked, 1, n), seen..(until - 1))
    BY <1>2, <2>3, AscendsWider
  <2> QED
    BY <2>4, <2>5
<1> QED
  BY <1>6, <1>7


\* The rows that a file may give.
LoadedRows == {LoadedRow(f, p) : f \in Files, p \in Nat}

PlaceOf(r) == <<r.file, r.pos>>

\* A row of a file that is read
FromFile(r) == \E k \in DOMAIN ToRead : r.file = ToRead[k] /\ r.pos \in 0..(Length(r.file) - 1)

\* A row before the place that has been reached
Behind(r) ==
  /\ file > 0
  /\ r.file < At \/ (r.file = At /\ (pc = "chunk" => r.pos < seen))

\* The rows of a load and their times, in the order of reading
Parallel ==
  /\ loaded \in Seq(LoadedRows) /\ times \in Seq(Nat) /\ Len(times) = Len(loaded)
  /\ \A i \in DOMAIN loaded : FromFile(loaded[i])
  /\ \A i \in DOMAIN loaded : times[i] = Clock(loaded[i].file, loaded[i].pos)

InReadingOrder ==
  \A i, j \in DOMAIN loaded : i < j => ReadBefore(PlaceOf(loaded[i]), PlaceOf(loaded[j]))

\* What is true of a timed load while it reads, and when it is done.
Reading ==
  /\ file \in 0..Len(ToRead) /\ seen \in Nat /\ kept \in Nat
  /\ pc = "chunk" => /\ file > 0 /\ seen <= Length(At)
                     /\ Loader.sample = "even" => seen = 0
  /\ RoomInv /\ Parallel /\ InReadingOrder
  /\ pc \in {"next", "chunk"} => \A i \in DOMAIN loaded : Behind(loaded[i])

\* What is returned
Rows == loaded \in Seq(LoadedRows) /\ times \in Seq(Nat)

TimedInv == /\ pc \in {"next", "chunk", "sort", "done", "raised"}
            /\ Timed => IF pc = "done" THEN TimesFollow /\ Rows ELSE Reading

LEMMA FileFacts ==
  ASSUME LoadInv, NEW f \in DOMAIN load.files
  PROVE  /\ f \in Files /\ f \in Int /\ Length(f) \in Nat
         /\ \A p \in 0..(Length(f) - 1) : Clock(f, p) \in Nat
<1>1. f \in Files /\ f \in Int /\ load.files[f] \in Seq(Values \cup {"header", "flow"})
  BY DEF LoadInv, Files
<1>2. Length(f) \in Nat /\ Length(f) <= MaxRows[f] /\ MaxRows[f] \in Nat
  BY <1>1, LoaderAssumption DEF LoadInv, Length, Files
<1>3. load.layout.clock[f] \in Seq(Nat) /\ Len(load.layout.clock[f]) >= MaxRows[f]
  BY <1>1, LoaderAssumption DEF LoadInv, Files
<1>4. ASSUME NEW p \in 0..(Length(f) - 1) PROVE Clock(f, p) \in Nat
  <2>1. p + 1 \in 1..Len(load.layout.clock[f])
    BY <1>2, <1>3
  <2> QED
    BY <1>3, <2>1 DEF Clock
<1> QED
  BY <1>1, <1>2, <1>4

\* What a load is about stays.
LEMMA LoadStays ==
  ASSUME load' = load
  PROVE  /\ LoadInv' = LoadInv /\ ToRead' = ToRead /\ Loader' = Loader /\ Cap' = Cap
         /\ Timed' = Timed /\ LoadedRows' = LoadedRows
         /\ \A f : Length(f)' = Length(f)
         /\ \A f, p : Clock(f, p)' = Clock(f, p)
         /\ \A r : FromFile(r)' = FromFile(r)
<1>1. Loader' = Loader
  BY DEF Loader
<1>2. ToRead' = ToRead
  BY <1>1 DEF ToRead, AllFiles, KnownFiles, KnownFirst, KnownOrElse
<1>3. Cap' = Cap /\ LoadInv' = LoadInv /\ Timed' = Timed
  BY <1>1 DEF Cap, LoadInv, Timed
<1>4. \A f, p : LoadedRow(f, p)' = LoadedRow(f, p)
  BY <1>1 DEF LoadedRow, Class, FirstClass, OwnClass, Named, Label
<1>5. LoadedRows' = LoadedRows
  BY <1>4 DEF LoadedRows
<1>6. \A f : Length(f)' = Length(f)
  BY DEF Length
<1>7. \A f, p : Clock(f, p)' = Clock(f, p)
  BY DEF Clock
<1>8. \A r : FromFile(r)' = FromFile(r)
  BY <1>2, <1>6 DEF FromFile
<1> QED
  BY <1>1, <1>2, <1>3, <1>5, <1>6, <1>7, <1>8

\* Rows that are taken from a file go on where the others end.
LEMMA TakeStep ==
  ASSUME LoadInv, Timed, Reading, pc = "chunk",
         NEW picked, NEW until \in Nat, seen <= until, until <= Length(At),
         Ascends(picked, seen..(until - 1)), Take(At, picked), load' = load
  PROVE  /\ RoomInv' /\ Parallel' /\ InReadingOrder'
         /\ \A i \in DOMAIN loaded' :
              loaded'[i].file < At \/ (loaded'[i].file = At /\ loaded'[i].pos < until)
<1>1. /\ loaded \in Seq(LoadedRows) /\ times \in Seq(Nat) /\ Len(times) = Len(loaded)
      /\ file \in DOMAIN ToRead /\ seen \in Nat
  <2>1. Ascends(ToRead, DOMAIN load.files)
    BY FilesAscend
  <2>2. ToRead \in Seq(DOMAIN load.files)
    BY <2>1 DEF Ascends
  <2> QED
    BY <2>2 DEF Reading, Parallel
<1>2. At \in DOMAIN load.files
  BY <1>1, FilesAscend DEF At, Ascends
<1>3. /\ At \in Files /\ At \in Int /\ Length(At) \in Nat
      /\ \A p \in 0..(Length(At) - 1) : Clock(At, p) \in Nat
  BY <1>2, FileFacts
<1>4. picked \in Seq(seen..(until - 1)) /\ seen..(until - 1) \subseteq Nat
      /\ seen..(until - 1) \subseteq 0..(Length(At) - 1)
  BY <1>1, <1>3 DEF Ascends
<1>5. picked \in Seq(Nat) /\ RoomInv
  BY <1>4, SeqSuperset DEF Reading
<1>6. PICK taken :
        /\ Ascends(taken, DOMAIN picked)
        /\ loaded' = loaded \o [k \in 1..Len(taken) |-> LoadedRow(At, picked[taken[k]])]
        /\ times' = IF Timed THEN times \o [k \in 1..Len(taken) |-> Clock(At, picked[taken[k]])]
                    ELSE times
        /\ Cap # None /\ Loader.cut \notin {"end", "spread"} => Len(loaded) + Len(taken) <= Cap
  BY <1>1, <1>5, Taken
<1> DEFINE pos == [k \in DOMAIN taken |-> picked[taken[k]]]
           n == Len(loaded)
           m == Len(taken)
<1>7. Ascends(pos, seen..(until - 1))
  <2>1. seen..(until - 1) \in SUBSET Int
    OBVIOUS
  <2> QED
    BY <1>6, <2>1, AscendsThrough
<1>8. n \in Nat /\ m \in Nat /\ DOMAIN taken = 1..m /\ DOMAIN loaded = 1..n
  BY <1>1, <1>6 DEF Ascends
<1>9. /\ loaded' = loaded \o [k \in 1..m |-> LoadedRow(At, pos[k])]
      /\ times' = times \o [k \in 1..m |-> Clock(At, pos[k])]
  BY <1>6, <1>8
<1> HIDE DEF pos, m
<1>10. \A k \in 1..m : pos[k] \in seen..(until - 1) /\ pos[k] \in Nat /\ pos[k] \in 0..(Length(At) - 1)
  <2>1. pos \in Seq(seen..(until - 1)) /\ DOMAIN pos = 1..m
    BY <1>7, <1>8 DEF Ascends, pos
  <2>2. \A k \in 1..m : pos[k] \in seen..(until - 1)
    BY <2>1, Element
  <2> QED
    BY <1>4, <2>2
<1>11. ASSUME NEW k \in 1..m PROVE /\ LoadedRow(At, pos[k]) \in LoadedRows
                                  /\ LoadedRow(At, pos[k]).file = At
                                  /\ LoadedRow(At, pos[k]).pos = pos[k]
                                  /\ Clock(At, pos[k]) \in Nat
  BY <1>3, <1>10 DEF LoadedRows, LoadedRow
<1> DEFINE more == [k \in 1..m |-> LoadedRow(At, pos[k])]
           later == [k \in 1..m |-> Clock(At, pos[k])]
<1>12. more \in Seq(LoadedRows) /\ later \in Seq(Nat) /\ Len(more) = m /\ Len(later) = m
  BY <1>8, <1>11
<1>13. /\ loaded' \in Seq(LoadedRows) /\ Len(loaded') = n + m /\ DOMAIN loaded' = 1..(n + m)
       /\ times' \in Seq(Nat) /\ Len(times') = n + m
       /\ \A i \in 1..n : loaded'[i] = loaded[i] /\ times'[i] = times[i]
       /\ \A k \in 1..m : loaded'[n + k] = more[k] /\ times'[n + k] = later[k]
  <2>1. loaded' = loaded \o more /\ times' = times \o later
    BY <1>9
  <2>2. Len(times) = n /\ Len(loaded) = n
    BY <1>1
  <2> HIDE DEF more, later, n
  <2>3. /\ loaded \o more \in Seq(LoadedRows) /\ Len(loaded \o more) = n + m
        /\ DOMAIN (loaded \o more) = 1..(n + m)
        /\ \A i \in 1..n : (loaded \o more)[i] = loaded[i]
        /\ \A k \in 1..m : (loaded \o more)[n + k] = more[k]
    BY <1>1, <1>12, <2>2, Joined
  <2>4. /\ times \o later \in Seq(Nat) /\ Len(times \o later) = n + m
        /\ \A i \in 1..n : (times \o later)[i] = times[i]
        /\ \A k \in 1..m : (times \o later)[n + k] = later[k]
    BY <1>1, <1>12, <2>2, JoinedTimes
  <2> QED
    BY <2>1, <2>3, <2>4
<1>14. \A k \in 1..m : /\ loaded'[n + k].file = At /\ loaded'[n + k].pos = pos[k]
                       /\ times'[n + k] = Clock(At, pos[k])
  BY <1>11, <1>13
<1>15. \A i \in 1..(n + m) : i \in 1..n \/ \E k \in 1..m : i = n + k
  <2>1. \A i \in 1..(n + m) : i \in 1..n \/ (i - n \in 1..m /\ i = n + (i - n))
    BY <1>8
  <2> QED
    BY <2>1
<1>16. /\ ToRead' = ToRead /\ Timed /\ Cap' = Cap /\ Loader' = Loader /\ LoadedRows' = LoadedRows
       /\ \A f, p : Clock(f, p)' = Clock(f, p)
       /\ \A r : FromFile(r)' = FromFile(r)
  BY LoadStays
<1>17. RoomInv'
  BY <1>6, <1>13, <1>16 DEF RoomInv
<1> HIDE DEF n
<1>18. Parallel'
  <2>1. ASSUME NEW i \in 1..(n + m)
        PROVE  FromFile(loaded'[i]) /\ times'[i] = Clock(loaded'[i].file, loaded'[i].pos)
    <3>1. CASE i \in 1..n
      BY <1>8, <1>13, <3>1 DEF Reading, Parallel
    <3>2. CASE \E k \in 1..m : i = n + k
      <4>1. PICK k \in 1..m : i = n + k
        BY <3>2
      <4>2. loaded'[i].file = At /\ loaded'[i].pos = pos[k] /\ times'[i] = Clock(At, pos[k])
        BY <1>14, <4>1
      <4>3. At = ToRead[file] /\ pos[k] \in 0..(Length(At) - 1)
        BY <1>10 DEF At
      <4> QED
        BY <1>1, <4>2, <4>3 DEF FromFile
    <3> QED
      BY <1>15, <3>1, <3>2
  <2> QED
    BY <1>13, <1>16, <2>1 DEF Parallel
<1>20. \A i \in DOMAIN loaded' :
         loaded'[i].file < At \/ (loaded'[i].file = At /\ loaded'[i].pos < until)
  <2>1. ASSUME NEW i \in 1..n
        PROVE  loaded[i].file < At \/ (loaded[i].file = At /\ loaded[i].pos < seen)
    BY <1>8, <2>1 DEF Reading, Behind
  <2>2. ASSUME NEW i \in 1..n PROVE loaded[i].pos \in Nat
    <3>1. loaded[i] \in LoadedRows
      BY <1>1, <1>8
    <3> QED
      BY <3>1 DEF LoadedRows, LoadedRow
  <2>3. ASSUME NEW i \in 1..(n + m)
        PROVE  loaded'[i].file < At \/ (loaded'[i].file = At /\ loaded'[i].pos < until)
    <3>1. CASE i \in 1..n
      <4>1. loaded'[i] = loaded[i]
        BY <1>13, <3>1
      <4> QED
        BY <1>1, <2>1, <2>2, <3>1, <4>1
    <3>3. CASE \E k \in 1..m : i = n + k
      <4>1. PICK k \in 1..m : i = n + k
        BY <3>3
      <4>2. loaded'[i].file = At /\ loaded'[i].pos = pos[k] /\ pos[k] \in seen..(until - 1)
        BY <1>10, <1>14, <4>1
      <4> QED
        BY <1>1, <4>2
    <3> QED
      BY <1>15, <3>1, <3>3
  <2> QED
    BY <1>13, <2>3
<1>19. InReadingOrder'
  <2> SUFFICES ASSUME NEW i \in 1..(n + m), NEW j \in 1..(n + m), i < j
               PROVE  ReadBefore(PlaceOf(loaded'[i]), PlaceOf(loaded'[j]))
    BY <1>13 DEF InReadingOrder, ReadBefore, PlaceOf
  <2>1. CASE i \in 1..n /\ j \in 1..n
    BY <1>8, <1>13, <2>1 DEF Reading, InReadingOrder
  <2>2. CASE i \in 1..n /\ \E k \in 1..m : j = n + k
    <3>1. PICK k \in 1..m : j = n + k
      BY <2>2
    <3>2. loaded'[j].file = At /\ loaded'[j].pos = pos[k] /\ pos[k] \in seen..(until - 1)
      BY <1>10, <1>14, <3>1
    <3>3. loaded'[i] = loaded[i] /\ loaded[i].pos \in Nat
          /\ (loaded[i].file < At \/ (loaded[i].file = At /\ loaded[i].pos < seen))
      <4>1. loaded[i] \in LoadedRows
        BY <1>1, <1>8, <2>2
      <4>2. loaded[i].pos \in Nat
        BY <4>1 DEF LoadedRows, LoadedRow
      <4> QED
        BY <1>8, <1>13, <2>2, <4>2 DEF Reading, Behind
    <3>4. loaded[i].pos < seen => loaded[i].pos < pos[k]
      BY <1>1, <3>2, <3>3
    <3> QED
      BY <3>2, <3>3, <3>4 DEF ReadBefore, PlaceOf
  <2>3. CASE \E k, l \in 1..m : i = n + k /\ j = n + l
    <3>1. PICK k \in 1..m, l \in 1..m : i = n + k /\ j = n + l
      BY <2>3
    <3>2. k < l
      BY <1>8, <3>1
    <3>3. pos[k] < pos[l]
      <4>1. DOMAIN pos = 1..m
        BY <1>8 DEF pos
      <4> QED
        BY <1>7, <3>2, <4>1 DEF Ascends
    <3>4. loaded'[i].file = At /\ loaded'[i].pos = pos[k] /\ loaded'[j].file = At /\ loaded'[j].pos = pos[l]
      BY <1>14, <3>1
    <3> QED
      BY <3>3, <3>4 DEF ReadBefore, PlaceOf
  <2>4. \/ i \in 1..n /\ j \in 1..n
        \/ i \in 1..n /\ \E k \in 1..m : j = n + k
        \/ \E k, l \in 1..m : i = n + k /\ j = n + l
    <3>1. i \in 1..n \/ \E k \in 1..m : i = n + k
      BY <1>15
    <3>2. j \in 1..n \/ \E k \in 1..m : j = n + k
      BY <1>15
    <3>3. i \notin 1..n => j \notin 1..n
      BY <1>8
    <3> QED
      BY <3>1, <3>2, <3>3
  <2> QED
    BY <2>1, <2>2, <2>3, <2>4
<1> QED
  BY <1>17, <1>18, <1>19, <1>20

LEMMA InitTimed ==
  ASSUME LoadersInit
  PROVE  LoadInv /\ TimedInv
<1>1. PICK name \in DOMAIN Loaders :
        \E one \in Contents(name, MaxRows[1]), two \in Contents(name, MaxRows[2]) :
        \E known, columns \in BOOLEAN, opt \in Options(name), layout \in Layouts :
          Called(name, one, two, known, columns, opt, layout)
  BY DEF LoadersInit
<1>0. PICK one \in Contents(name, MaxRows[1]), two \in Contents(name, MaxRows[2]),
           known \in BOOLEAN, columns \in BOOLEAN, opt \in Options(name), layout \in Layouts :
        Called(name, one, two, known, columns, opt, layout)
  BY <1>1
<1> DEFINE L == Values \cup {"header", "flow"}
<1>2. Loaders[name].labels \subseteq L
  <2>1. name \in {"cicids2018", "cicddos2019", "cicids2017", "unsw_nb15", "nsl_kdd",
                  "dohbrw2020", "dnsexf2021", "ciciot2023"}
    BY DEF Loaders
  <2>2. /\ Cicids2018.labels \subseteq L /\ Cicddos2019.labels \subseteq L
        /\ Cicids2017.labels \subseteq L /\ UnswNb15.labels \subseteq L
        /\ NslKdd.labels \subseteq L /\ DohBrw2020.labels \subseteq L
        /\ DnsExf2021.labels \subseteq L /\ Ciciot2023.labels \subseteq L
    BY DEF Cicids2018, Cicddos2019, Cicids2017, UnswNb15, NslKdd, DohBrw2020, DnsExf2021,
           Ciciot2023, Values
  <2> HIDE DEF L
  <2> QED
    BY <2>1, <2>2 DEF Loaders
<1>3. MaxRows[1] \in Nat /\ MaxRows[2] \in Nat
  BY LoaderAssumption
<1>4. ASSUME NEW n \in Nat, NEW c \in Contents(name, n)
      PROVE  c \in Seq(L) /\ Len(c) <= n
  <2>1. PICK k \in 0..n : c \in [1..k -> Loaders[name].labels]
    BY <1>4 DEF Contents
  <2>2. c \in [1..k -> L]
    BY <1>2, <2>1
  <2> HIDE DEF L
  <2> QED
    BY <2>1, <2>2
<1> HIDE DEF L
<1>5. one \in Seq(L) /\ two \in Seq(L) /\ Len(one) <= MaxRows[1] /\ Len(two) <= MaxRows[2]
  BY <1>3, <1>4
<1>6. /\ load.name = name /\ load.known = known /\ load.columns = columns /\ load.layout = layout
      /\ load.files = (IF two = <<>> THEN <<one>> ELSE <<one, two>>)
      /\ load.size = opt.size /\ load.stride = opt.stride /\ load.limit = opt.limit
      /\ load.timed = opt.timed
  BY <1>0 DEF Called
<1>7. /\ load.files \in Seq(Seq(L)) /\ Len(load.files) \in {1, 2}
      /\ \A f \in DOMAIN load.files : Len(load.files[f]) <= MaxRows[f]
  <2>1. CASE two = <<>>
    <3>1. load.files = <<one>>
      BY <1>6, <2>1
    <3> QED
      BY <1>5, <3>1
  <2>2. CASE two # <<>>
    <3>1. load.files = <<one, two>>
      BY <1>6, <2>2
    <3> QED
      BY <1>5, <3>1
  <2> QED
    BY <2>1, <2>2
<1>8. /\ opt.size \in Bound /\ opt.stride \in Bound /\ opt.limit \in Nat \cup {None}
      /\ opt.timed \in BOOLEAN
  BY LoaderAssumption DEF Options, Bound
<1>9. LoadInv
  BY <1>6, <1>7, <1>8 DEF LoadInv, L
<1>10. pc = "next" /\ file = 0 /\ seen = 0 /\ kept = 0 /\ loaded = <<>> /\ times = <<>>
  BY DEF LoadersInit
<1>11. ASSUME Timed PROVE Reading
  <2>1. ToRead \in Seq(DOMAIN load.files)
    BY <1>9, <1>11, FilesAscend DEF Ascends
  <2>2. RoomInv
    <3>1. Cap \in Nat \cup {None}
      BY <1>9, CapType
    <3>2. Len(loaded) = 0
      BY <1>10
    <3> QED
      BY <3>1, <3>2 DEF RoomInv
  <2>3. DOMAIN loaded = {} /\ Len(times) = Len(loaded) /\ loaded \in Seq(LoadedRows) /\ times \in Seq(Nat)
    BY <1>10
  <2>4. Parallel /\ InReadingOrder
    BY <2>3 DEF Parallel, InReadingOrder
  <2> QED
    BY <1>10, <2>1, <2>2, <2>3, <2>4 DEF Reading
<1> QED
  BY <1>9, <1>10, <1>11 DEF TimedInv

\* What stays with the rows
LEMMA RowsStay ==
  ASSUME load' = load, loaded' = loaded, times' = times
  PROVE  RoomInv' = RoomInv /\ Parallel' = Parallel /\ InReadingOrder' = InReadingOrder
<1>1. RoomInv' = RoomInv
  BY LoadStays DEF RoomInv
<1>2. Parallel' = Parallel
  BY LoadStays DEF Parallel
<1>3. InReadingOrder' = InReadingOrder
  BY DEF InReadingOrder, PlaceOf, ReadBefore
<1> QED
  BY <1>1, <1>2, <1>3

LEMMA AtFacts ==
  ASSUME LoadInv, Timed, Reading, file > 0
  PROVE  /\ file \in DOMAIN ToRead /\ At \in DOMAIN load.files
         /\ Length(At) \in Nat
<1>1. ToRead \in Seq(DOMAIN load.files)
  BY FilesAscend DEF Ascends
<1>2. file \in DOMAIN ToRead
  BY <1>1 DEF Reading
<1>3. ToRead[file] \in DOMAIN load.files
  BY <1>1, <1>2, Element
<1> QED
  BY <1>2, <1>3, FileFacts DEF At

LEMMA OpenTimed ==
  ASSUME LoadInv, TimedInv, Open
  PROVE  TimedInv'
<1>1. pc = "next" /\ load' = load /\ loaded' = loaded /\ times' = times
  BY DEF Open, gathered
<1>2. Timed' = Timed /\ ToRead' = ToRead /\ Loader' = Loader
  BY <1>1, LoadStays
<1>3. pc' \in {"sort", "raised", "chunk"}
  BY DEF Open
<1>4. ASSUME Timed PROVE Reading'
  <2>0. Reading
    BY <1>1, <1>4 DEF TimedInv
  <2>1. RoomInv' /\ Parallel' /\ InReadingOrder'
    BY <1>1, <2>0, RowsStay DEF Reading
  <2>2. CASE pc' = "sort" /\ UNCHANGED <<file, seen, kept>>
    BY <1>2, <2>0, <2>1, <2>2 DEF Reading
  <2>3. CASE ~(file >= Len(ToRead)) /\ file' = file + 1 /\ seen' = 0 /\ kept' = 0
             /\ pc' \in {"raised", "chunk"}
    <3>1. Ascends(ToRead, DOMAIN load.files)
      BY <1>4, FilesAscend
    <3>2. ToRead \in Seq(DOMAIN load.files) /\ Len(ToRead) \in Nat /\ DOMAIN ToRead = 1..Len(ToRead)
      BY <3>1 DEF Ascends
    <3>3. file \in Nat /\ file' \in 1..Len(ToRead)
      BY <2>0, <2>3, <3>2 DEF Reading
    <3>4. ToRead[file'] \in DOMAIN load.files
      BY <3>2, <3>3, Element
    <3>5. At' = ToRead[file']
      BY <1>2 DEF At
    <3>6. Length(At)' \in Nat
      BY <1>1, <3>4, <3>5, FileFacts DEF Length
    <3>7. ASSUME NEW i \in DOMAIN loaded PROVE loaded[i].file < At' /\ file' > 0
      <4>1. Behind(loaded[i])
        BY <1>1, <2>0 DEF Reading
      <4>2. file \in DOMAIN ToRead /\ file' \in DOMAIN ToRead /\ file < file'
        BY <2>3, <3>2, <3>3, <4>1 DEF Behind
      <4>3. At < At'
        BY <3>1, <3>5, <4>2 DEF At, Ascends
      <4>4. At \in Int /\ At' \in Int
        <5>1. At \in DOMAIN load.files
          BY <3>2, <4>2, Element DEF At
        <5> QED
          BY <3>4, <3>5, <5>1, FileFacts
      <4>5. loaded[i].file \in Int
        <5>1. loaded \in Seq(LoadedRows)
          BY <2>0 DEF Reading, Parallel
        <5>2. loaded[i] \in LoadedRows
          BY <5>1, Element
        <5> QED
          BY <5>2 DEF LoadedRows, LoadedRow, Files
      <4> QED
        BY <1>1, <3>3, <4>1, <4>3, <4>4, <4>5 DEF Behind
    <3>8. \A i \in DOMAIN loaded' : Behind(loaded[i])'
      BY <1>1, <3>7 DEF Behind
    <3> QED
      BY <1>1, <1>2, <2>1, <2>3, <3>2, <3>3, <3>6, <3>8 DEF Reading, Behind
  <2> QED
    BY <2>2, <2>3 DEF Open
<1> QED
  BY <1>2, <1>3, <1>4 DEF TimedInv

LEMMA EndOfFileTimed ==
  ASSUME LoadInv, TimedInv, EndOfFile
  PROVE  TimedInv'
<1>1. /\ pc = "chunk" /\ pc' = "next" /\ load' = load /\ loaded' = loaded /\ times' = times
      /\ file' = file /\ seen' = seen /\ kept' = kept
  BY DEF EndOfFile, gathered
<1>2. Timed' = Timed /\ ToRead' = ToRead /\ Loader' = Loader /\ At' = At
  BY <1>1, LoadStays DEF At
<1>3. ASSUME Timed PROVE Reading'
  <2>1. Reading
    BY <1>1, <1>3 DEF TimedInv
  <2>2. RoomInv' /\ Parallel' /\ InReadingOrder'
    BY <1>1, <2>1, RowsStay DEF Reading
  <2>3. \A i \in DOMAIN loaded : Behind(loaded[i])
    BY <1>1, <2>1 DEF Reading
  <2>4. \A i \in DOMAIN loaded' : Behind(loaded[i])'
    BY <1>1, <1>2, <2>3 DEF Behind
  <2> QED
    BY <1>1, <1>2, <2>1, <2>2, <2>4 DEF Reading
<1> QED
  BY <1>1, <1>2, <1>3 DEF TimedInv

LEMMA ReadChunkTimed ==
  ASSUME LoadInv, TimedInv, ReadChunk
  PROVE  TimedInv'
<1> DEFINE until == Min({seen + Chunk, Length(At)})
           picked == Picked(At, until)
<1>1. /\ pc = "chunk" /\ pc' = pc /\ load' = load /\ file' = file /\ seen' = until
      /\ kept' = kept + Len(picked) /\ Loader.sample = "stride" /\ seen < Length(At)
      /\ ~(load.stride = None /\ load.size # None /\ kept >= load.size)
      /\ Take(At, picked)
  BY DEF ReadChunk
<1>2. Timed' = Timed /\ ToRead' = ToRead /\ Loader' = Loader /\ At' = At /\ Length(At)' = Length(At)
  <2>1. Timed' = Timed /\ ToRead' = ToRead /\ Loader' = Loader
    BY <1>1, LoadStays
  <2> QED
    BY <1>1, <2>1 DEF At, Length
<1>3. ASSUME Timed PROVE Reading'
  <2>1. Reading /\ file > 0
    BY <1>1, <1>3 DEF TimedInv, Reading
  <2>2. file \in 0..Len(ToRead) /\ seen \in Nat /\ kept \in Nat /\ load.size \in Bound
    BY <2>1 DEF Reading, LoadInv
  <2>3. Length(At) \in Nat
    BY <1>3, <2>1, AtFacts
  <2>4. Chunk \in Nat \ {0}
    BY LoaderAssumption
  <2>5. until \in Nat /\ seen <= until /\ until <= Length(At)
    <3>1. Min({seen + Chunk, Length(At)}) = IF seen + Chunk <= Length(At) THEN seen + Chunk ELSE Length(At)
      BY <2>2, <2>3, <2>4, MinPair
    <3> QED
      BY <1>1, <2>2, <2>3, <2>4, <3>1
  <2> HIDE DEF until
  <2>6. Ascends(picked, seen..(until - 1))
    BY <1>1, <2>2, <2>5, PickedAscends
  <2>7. Len(picked) \in Nat
    BY <2>6 DEF Ascends
  <2> HIDE DEF picked
  <2>8. /\ RoomInv' /\ Parallel' /\ InReadingOrder'
        /\ \A i \in DOMAIN loaded' :
             loaded'[i].file < At \/ (loaded'[i].file = At /\ loaded'[i].pos < until)
    BY <1>1, <1>3, <2>1, <2>5, <2>6, TakeStep
  <2>9. \A i \in DOMAIN loaded' : Behind(loaded[i])'
    BY <1>1, <1>2, <2>1, <2>8 DEF Behind
  <2> QED
    BY <1>1, <1>2, <2>1, <2>2, <2>3, <2>5, <2>7, <2>8, <2>9 DEF Reading
<1> QED
  BY <1>1, <1>2, <1>3 DEF TimedInv

LEMMA ReadFileTimed ==
  ASSUME LoadInv, TimedInv, ReadFile
  PROVE  TimedInv'
<1> DEFINE picked == Sample(At)
<1>1. /\ pc = "chunk" /\ pc' = "next" /\ load' = load /\ file' = file /\ seen' = Length(At)
      /\ kept' = Len(picked) /\ Loader.sample # "stride" /\ Take(At, picked)
  BY DEF ReadFile
<1>2. Timed' = Timed /\ ToRead' = ToRead /\ Loader' = Loader /\ At' = At
  <2>1. Timed' = Timed /\ ToRead' = ToRead /\ Loader' = Loader
    BY <1>1, LoadStays
  <2> QED
    BY <1>1, <2>1 DEF At
<1>3. ASSUME Timed PROVE Reading'
  <2>1. Reading /\ file > 0
    BY <1>1, <1>3 DEF TimedInv, Reading
  <2>2. Loader.sample = "even" /\ Loader.orders = "load" /\ seen = 0
    BY <1>1, <1>3, <2>1, LoaderFacts DEF Reading, LoadInv
  <2>3. Length(At) \in Nat
    BY <1>3, <2>1, AtFacts
  <2>4. picked = EvenlySpaced(Length(At), load.size)
    BY <2>2 DEF Sample
  <2>5. load.size \in Nat \ {0} \/ load.size = None
    BY DEF LoadInv, Bound
  <2>6. Ascends(picked, 0..(Length(At) - 1))
    BY <2>3, <2>4, <2>5, EvenAscends
  <2>7. Len(picked) \in Nat
    BY <2>6 DEF Ascends
  <2> HIDE DEF picked
  <2>8. Ascends(picked, seen..(Length(At) - 1)) /\ seen <= Length(At) /\ Length(At) <= Length(At)
    BY <2>2, <2>3, <2>6
  <2>9. /\ RoomInv' /\ Parallel' /\ InReadingOrder'
        /\ \A i \in DOMAIN loaded' :
             loaded'[i].file < At \/ (loaded'[i].file = At /\ loaded'[i].pos < Length(At))
    BY <1>1, <1>3, <2>1, <2>3, <2>8, TakeStep
  <2>10. \A i \in DOMAIN loaded' : Behind(loaded[i])'
    BY <1>1, <1>2, <2>1, <2>9 DEF Behind
  <2> QED
    BY <1>1, <1>2, <2>1, <2>3, <2>7, <2>9, <2>10 DEF Reading
<1> QED
  BY <1>1, <1>2, <1>3 DEF TimedInv

\* Which of the sorted rows a timed load returns: some, in their order.
LEMMA KeepAscends ==
  ASSUME LoadInv, Timed, NEW n \in Nat, ~(Loader.cut = "spread" /\ Cap = 0 /\ n # 0)
  PROVE  LET keep == CASE Loader.cut = "spread" /\ Cap # 0 ->
                            [i \in DOMAIN EvenlySpaced(n, Cap) |-> EvenlySpaced(n, Cap)[i] + 1]
                       [] Loader.cut = "end" /\ Cap # None -> [i \in 1..Min({Cap, n}) |-> i]
                       [] OTHER -> [i \in 1..n |-> i]
         IN Ascends(keep, 1..n)
<1> DEFINE e == EvenlySpaced(n, Cap)
           keep == CASE Loader.cut = "spread" /\ Cap # 0 -> [i \in DOMAIN e |-> e[i] + 1]
                     [] Loader.cut = "end" /\ Cap # None -> [i \in 1..Min({Cap, n}) |-> i]
                     [] OTHER -> [i \in 1..n |-> i]
<1> SUFFICES Ascends(keep, 1..n)
  OBVIOUS
<1>1. Loader.cut \in {"always", "before", "spread"}
  BY LoaderFacts DEF LoadInv
<1>2. CASE Loader.cut = "spread" /\ Cap # 0
  <2>1. Cap \in Nat \ {0} \/ Cap = None
    BY <1>2, CapType
  <2>2. Ascends(e, 0..(n - 1))
    BY <2>1, EvenAscends
  <2>3. keep = [i \in DOMAIN e |-> e[i] + 1]
    BY <1>2
  <2> HIDE DEF e, keep
  <2>4. e \in Seq(0..(n - 1)) /\ Len(e) \in Nat /\ DOMAIN e = 1..Len(e)
    BY <2>2 DEF Ascends
  <2>5. ASSUME NEW i \in DOMAIN e PROVE e[i] \in 0..(n - 1) /\ e[i] \in Int /\ keep[i] = e[i] + 1 /\ keep[i] \in 1..n
    <3>1. e[i] \in 0..(n - 1)
      BY <2>4, Element
    <3> QED
      BY <2>3, <3>1
  <2>6. keep \in Seq(1..n)
    BY <2>3, <2>4, <2>5
  <2>7. DOMAIN keep = DOMAIN e
    BY <2>3
  <2>8. ASSUME NEW k \in DOMAIN e, NEW l \in DOMAIN e, k < l PROVE keep[k] < keep[l]
    <3>1. e[k] < e[l]
      BY <2>2, <2>8 DEF Ascends
    <3> QED
      BY <2>5, <3>1
  <2> QED
    BY <2>6, <2>7, <2>8 DEF Ascends
<1>3. CASE ~(Loader.cut = "spread" /\ Cap # 0)
  <2>1. keep = [i \in 1..n |-> i]
    BY <1>1, <1>3
  <2> HIDE DEF keep
  <2> QED
    BY <2>1, IdentityAscends
<1> QED
  BY <1>2, <1>3

LEMMA ReturnTimed ==
  ASSUME LoadInv, TimedInv, Return
  PROVE  TimedInv'
<1>1. pc = "sort" /\ load' = load /\ file' = file /\ seen' = seen /\ kept' = kept
      /\ pc' \in {"raised", "done"}
  BY DEF Return
<1>2. /\ Timed' = Timed /\ ToRead' = ToRead /\ Loader' = Loader
      /\ \A f, p : Clock(f, p)' = Clock(f, p)
  BY <1>1, LoadStays
<1>3. ASSUME Timed, pc' = "raised" PROVE Reading'
  <2>1. loaded' = loaded /\ times' = times
    BY <1>3 DEF Return
  <2>2. Reading
    BY <1>1, <1>3 DEF TimedInv
  <2>3. RoomInv' /\ Parallel' /\ InReadingOrder'
    BY <1>1, <2>1, <2>2, RowsStay DEF Reading
  <2> QED
    BY <1>1, <1>2, <1>3, <2>2, <2>3 DEF Reading
<1>4. ASSUME Timed, pc' = "done" PROVE TimesFollow' /\ Rows'
  <2> DEFINE n == Len(loaded)
             order == SortBy(DOMAIN loaded, times)
             e == EvenlySpaced(n, Cap)
             keep == CASE Loader.cut = "spread" /\ Cap # 0 -> [i \in DOMAIN e |-> e[i] + 1]
                       [] Loader.cut = "end" /\ Cap # None -> [i \in 1..Min({Cap, n}) |-> i]
                       [] OTHER -> [i \in 1..n |-> i]
  <2>1. Parallel /\ InReadingOrder
    BY <1>1, <1>4 DEF TimedInv, Reading
  <2>2. /\ loaded \in Seq(LoadedRows) /\ n \in Nat /\ DOMAIN loaded = 1..n
        /\ times \in Seq(Nat) /\ Len(times) = n /\ DOMAIN times = 1..n
    BY <2>1 DEF Parallel
  <2>3. /\ ~(Loader.cut = "spread" /\ Cap = 0 /\ loaded # <<>>)
        /\ loaded' = [i \in DOMAIN keep |-> loaded[order[keep[i]]]]
        /\ times' = [i \in DOMAIN keep |-> times[order[keep[i]]]]
    BY <1>4, <2>2 DEF Return
  <2>4. n # 0 => loaded # <<>>
    BY <2>2
  <2>5. Ascends(keep, 1..n)
    BY <1>4, <2>2, <2>3, <2>4, KeepAscends
  <2> HIDE DEF keep
  <2>6. /\ Enumerates(order, 1..n)
        /\ \A k, l \in DOMAIN order : k < l =>
             \/ times[order[k]] < times[order[l]]
             \/ times[order[k]] = times[order[l]] /\ order[k] < order[l]
    <3>1. IsFiniteSet(1..n) /\ 1..n \in SUBSET Int
      BY <2>2, FS_Interval
    <3>2. \A i \in 1..n : times[i] \in Int
      BY <2>2, Element
    <3>3. order = SortBy(1..n, times)
      BY <2>2
    <3> HIDE DEF order, n
    <3> DEFINE o == SortBy(1..n, times)
    <3>4. /\ Enumerates(o, 1..n)
          /\ \A k, l \in DOMAIN o : k < l =>
               times[o[k]] < times[o[l]] \/ (times[o[k]] = times[o[l]] /\ o[k] < o[l])
      BY <3>1, <3>2, SortByFacts
    <3> QED
      BY <3>3, <3>4
  <2> HIDE DEF order
  <2>7. order \in Seq(1..n) /\ DOMAIN order = 1..n
    <3> HIDE DEF n
    <3>1. Cardinality(1..n) = n
      BY <2>2, FS_Interval
    <3> QED
      BY <2>2, <2>6, <3>1 DEF Enumerates
  <2>8. keep \in Seq(1..n) /\ Len(keep) \in Nat /\ DOMAIN keep = 1..Len(keep)
    BY <2>5 DEF Ascends
  <2> DEFINE at(i) == order[keep[i]]
  <2>9. ASSUME NEW i \in DOMAIN keep PROVE keep[i] \in 1..n /\ at(i) \in 1..n
    <3>1. keep[i] \in 1..n
      BY <2>8, Element
    <3> HIDE DEF n
    <3> QED
      BY <2>7, <3>1, Element
  <2>10. /\ Len(loaded') = Len(keep) /\ Len(times') = Len(keep) /\ DOMAIN loaded' = DOMAIN keep
         /\ \A i \in DOMAIN keep : loaded'[i] = loaded[at(i)] /\ times'[i] = times[at(i)]
    BY <2>3, <2>8
  <2> HIDE DEF at, n
  <2>11. ASSUME NEW i \in DOMAIN keep
         PROVE  times'[i] = Clock(loaded'[i].file, loaded'[i].pos)
    BY <2>1, <2>2, <2>9, <2>10 DEF Parallel
  <2>12. ASSUME NEW i \in DOMAIN keep, NEW j \in DOMAIN keep, i < j
         PROVE  \/ times'[i] < times'[j]
                \/ times'[i] = times'[j] /\ Earlier(PlaceOf(loaded'[i]), PlaceOf(loaded'[j]))
    <3>1. keep[i] < keep[j]
      BY <2>5, <2>12 DEF Ascends
    <3>2. times[at(i)] < times[at(j)] \/ (times[at(i)] = times[at(j)] /\ at(i) < at(j))
      BY <2>6, <2>7, <2>9, <3>1 DEF at
    <3>3. ASSUME at(i) < at(j) PROVE Earlier(PlaceOf(loaded[at(i)]), PlaceOf(loaded[at(j)]))
      <4>1. ReadBefore(PlaceOf(loaded[at(i)]), PlaceOf(loaded[at(j)]))
        BY <2>1, <2>2, <2>9, <3>3 DEF InReadingOrder
      <4>2. PICK k \in DOMAIN ToRead : loaded[at(i)].file = ToRead[k]
        BY <2>1, <2>2, <2>9 DEF Parallel, FromFile
      <4>3. PICK l \in DOMAIN ToRead : loaded[at(j)].file = ToRead[l]
        BY <2>1, <2>2, <2>9 DEF Parallel, FromFile
      <4> QED
        BY <1>4, <4>1, <4>2, <4>3, EarlierIs DEF PlaceOf
    <3> QED
      BY <2>10, <3>2, <3>3
  <2>13. \A r, q : Earlier(r, q)' = Earlier(r, q)
    BY <1>2 DEF Earlier, FilePlace
  <2>14. TimesFollow'
    BY <2>10, <2>11, <2>12, <2>13, <1>2 DEF TimesFollow, PlaceOf
  <2>15. Rows'
    <3>1. \A i \in 1..n : loaded[i] \in LoadedRows /\ times[i] \in Nat
      BY <2>2, Element
    <3>2. loaded' = [i \in 1..Len(keep) |-> loaded'[i]] /\ times' = [i \in 1..Len(keep) |-> times'[i]]
      BY <2>3, <2>8
    <3>3. \A i \in 1..Len(keep) : loaded'[i] \in LoadedRows /\ times'[i] \in Nat
      BY <2>8, <2>9, <2>10, <3>1
    <3>4. loaded' \in Seq(LoadedRows) /\ times' \in Seq(Nat)
      BY <2>8, <3>2, <3>3
    <3>5. LoadedRows' = LoadedRows
      BY <1>1, LoadStays
    <3> QED
      BY <3>4, <3>5 DEF Rows
  <2> QED
    BY <2>14, <2>15
<1> QED
  BY <1>1, <1>2, <1>3, <1>4 DEF TimedInv

LEMMA LoadersStart == LoadersInit => LoadInv /\ TimedInv
BY InitTimed

LEMMA LoadersStep == LoadInv /\ TimedInv /\ [LoadersNext]_loaderVars => (LoadInv /\ TimedInv)'
<1> SUFFICES ASSUME LoadInv, TimedInv, [LoadersNext]_loaderVars
             PROVE  LoadInv' /\ TimedInv'
  OBVIOUS
<1>1. load' = load
  BY DEF LoadersNext, Open, EndOfFile, ReadChunk, ReadFile, Return, loaderVars
<1>2. LoadInv'
  BY <1>1, LoadStays
<1>3. TimedInv'
  <2>1. CASE UNCHANGED loaderVars
    <3>1. /\ pc' = pc /\ file' = file /\ seen' = seen /\ kept' = kept
          /\ loaded' = loaded /\ times' = times
      BY <2>1 DEF loaderVars, reading, gathered
    <3>2. /\ Timed' = Timed /\ ToRead' = ToRead /\ Loader' = Loader /\ LoadedRows' = LoadedRows
          /\ (\A f : Length(f)' = Length(f)) /\ (\A f, p : Clock(f, p)' = Clock(f, p))
      BY <1>1, LoadStays
    <3>3. At' = At
      BY <3>1, <3>2 DEF At
    <3>4. \A r : Behind(r)' = Behind(r)
      BY <3>1, <3>3 DEF Behind
    <3>5. Reading' = Reading
      BY <1>1, <3>1, <3>2, <3>3, <3>4, RowsStay DEF Reading, Length
    <3>6. TimesFollow' = TimesFollow
      <4>1. \A r, q : Earlier(r, q)' = Earlier(r, q)
        BY <3>2 DEF Earlier, FilePlace
      <4> QED
        BY <3>1, <3>2, <4>1 DEF TimesFollow
    <3>7. Rows' = Rows
      BY <3>1, <3>2 DEF Rows
    <3> QED
      BY <3>1, <3>2, <3>5, <3>6, <3>7 DEF TimedInv
  <2> QED
    BY <2>1, OpenTimed, EndOfFileTimed, ReadChunkTimed, ReadFileTimed, ReturnTimed DEF LoadersNext
<1> QED
  BY <1>2, <1>3

\* The times that a loader returns are those of its rows, row by row, and ascend; rows
\* of one time are in the order in which they were read: the sort by (time, place) at
\* the end of every load_*_timed keeps the two lists together and is stable.
THEOREM TimesFollowHolds == LoadersSpec => []TimesFollow
<1>1. LoadInv /\ TimedInv => TimesFollow
  BY DEF TimedInv, TimesFollow
<1> QED
  BY <1>1, LoadersStart, LoadersStep, PTL DEF LoadersSpec

-----------------------------------------------------------------------------
(* The intervals of an attack *)

\* The span about an attack at x
Span(x) == <<x - Guard, x + Guard>>

Around(t, x) == x - Guard <= t /\ t <= x + Guard

\* f[k] are the intervals of the first k attacks.
Merges(a, f, n) == f = [k \in 0..n |-> IF k = 0 THEN <<>> ELSE Merge(f[k - 1], Span(a[k]))]

Covered(t, m) == \E p \in DOMAIN m : m[p][1] <= t /\ t <= m[p][2]

\* The intervals m of the first k attacks begin one after another, the last one ends
\* with the last attack, and together they are the spans.
Tells(a, k, m) ==
  /\ m \in Seq(Int \X Int)
  /\ \A p, q \in DOMAIN m : p < q => m[p][1] < m[q][1]
  /\ m = <<>> <=> k = 0
  /\ m # <<>> => m[Len(m)][1] <= a[k] - Guard /\ m[Len(m)][2] = a[k] + Guard
  /\ \A t \in Int : Covered(t, m) <=> \E j \in 1..k : Around(t, a[j])

LEMMA MaxPair ==
  ASSUME NEW x \in Int, NEW y \in Int
  PROVE  Max({x, y}) = IF x >= y THEN x ELSE y
BY DEF Max

LEMMA MergeTells ==
  ASSUME NEW a, NEW k \in Nat, \A j \in 1..(k + 1) : a[j] \in Int,
         k > 0 => a[k] < a[k + 1], NEW m, Tells(a, k, m)
  PROVE  Tells(a, k + 1, Merge(m, Span(a[k + 1])))
<1> DEFINE b == a[k + 1]
           n == Len(m)
           new == Merge(m, Span(b))
<1>1. b \in Int /\ Guard \in Nat /\ m \in Seq(Int \X Int) /\ n \in Nat /\ DOMAIN m = 1..n
  BY LoaderAssumption DEF Tells
<1>2. \A t \in Int : (\E j \in 1..(k + 1) : Around(t, a[j])) <=> (\E j \in 1..k : Around(t, a[j])) \/ Around(t, b)
  <2>1. \A j \in 1..(k + 1) : j \in 1..k \/ j = k + 1
    OBVIOUS
  <2>2. \A j \in 1..k : j \in 1..(k + 1)
    OBVIOUS
  <2>3. k + 1 \in 1..(k + 1)
    OBVIOUS
  <2> QED
    BY <2>1, <2>2, <2>3
<1> HIDE DEF b, n
<1>3. CASE m # <<>> /\ b - Guard <= m[n][2]
  <2>1. n \in 1..n /\ k # 0 /\ k > 0
    BY <1>1, <1>3 DEF n, Tells
  <2>2. /\ m[n] \in Int \X Int /\ m[n][1] \in Int /\ m[n][2] \in Int
        /\ m[n][1] <= a[k] - Guard /\ m[n][2] = a[k] + Guard
    BY <1>1, <1>3, <2>1 DEF n, Tells
  <2>3. a[k] \in Int /\ a[k] < b
    <3>1. k \in 1..(k + 1)
      BY <2>1
    <3> QED
      BY <2>1, <3>1 DEF b
  <2>4. Max({m[n][2], b + Guard}) = b + Guard
    <3>1. m[n][2] \in Int /\ b + Guard \in Int
      BY <1>1, <2>2
    <3>2. Max({m[n][2], b + Guard}) = IF m[n][2] >= b + Guard THEN m[n][2] ELSE b + Guard
      BY <3>1, MaxPair
    <3>3. ~(m[n][2] >= b + Guard)
      BY <1>1, <2>2, <2>3
    <3> QED
      BY <3>2, <3>3
  <2>5. new = [m EXCEPT ![n][2] = Max({m[n][2], b + Guard})]
    BY <1>3 DEF Merge, Span, n
  <2> HIDE DEF new
  <2>6. new = [m EXCEPT ![n] = <<m[n][1], b + Guard>>]
    <3>1. [m[n] EXCEPT ![2] = b + Guard] = <<m[n][1], b + Guard>>
      BY <2>2
    <3> QED
      BY <2>4, <2>5, <3>1
  <2>7. /\ new \in Seq(Int \X Int) /\ Len(new) = n /\ DOMAIN new = 1..n
        /\ \A p \in 1..n : new[p] = IF p = n THEN <<m[n][1], b + Guard>> ELSE m[p]
    <3>1. <<m[n][1], b + Guard>> \in Int \X Int
      BY <1>1, <2>2
    <3> QED
      BY <1>1, <2>1, <2>6, <3>1 DEF n
  <2>8. \A p \in 1..n : new[p][1] = m[p][1] /\ (p # n => new[p][2] = m[p][2])
    BY <2>7
  <2>9. new[n][1] = m[n][1] /\ new[n][2] = b + Guard
    BY <2>1, <2>7
  <2>10. \A p, q \in DOMAIN new : p < q => new[p][1] < new[q][1]
    BY <1>1, <2>7, <2>8 DEF Tells
  <2>11. new # <<>> /\ k + 1 # 0
    BY <2>1, <2>7
  <2>12. new[n][1] <= b - Guard
    BY <1>1, <2>2, <2>3, <2>9
  <2>13. ASSUME NEW t \in Int PROVE Covered(t, new) <=> Covered(t, m) \/ Around(t, b)
    <3>1. ASSUME Covered(t, new) PROVE Covered(t, m) \/ Around(t, b)
      <4>1. PICK p \in 1..n : new[p][1] <= t /\ t <= new[p][2]
        BY <2>7, <3>1 DEF Covered
      <4>2. CASE p # n
        BY <1>1, <2>8, <4>1, <4>2 DEF Covered
      <4>3. CASE p = n
        <5>1. m[n][1] <= t /\ t <= b + Guard
          BY <2>9, <4>1, <4>3
        <5>2. CASE t <= m[n][2]
          BY <1>1, <2>1, <5>1, <5>2 DEF Covered
        <5>3. CASE t > m[n][2]
          BY <1>1, <1>3, <2>2, <5>1, <5>3 DEF Around
        <5> QED
          BY <2>2, <5>2, <5>3
      <4> QED
        BY <4>2, <4>3
    <3>2. ASSUME Covered(t, m) PROVE Covered(t, new)
      <4>1. PICK p \in 1..n : m[p][1] <= t /\ t <= m[p][2]
        BY <1>1, <3>2 DEF Covered
      <4>2. CASE p # n
        BY <2>7, <2>8, <4>1, <4>2 DEF Covered
      <4>3. CASE p = n
        <5>1. new[n][1] <= t /\ t <= new[n][2]
          BY <1>1, <2>2, <2>3, <2>9, <4>1, <4>3
        <5> QED
          BY <2>1, <2>7, <5>1 DEF Covered
      <4> QED
        BY <4>2, <4>3
    <3>3. ASSUME Around(t, b) PROVE Covered(t, new)
      <4>1. new[n][1] <= t /\ t <= new[n][2]
        BY <1>1, <2>2, <2>9, <2>12, <3>3 DEF Around
      <4> QED
        BY <2>1, <2>7, <4>1 DEF Covered
    <3> QED
      BY <3>1, <3>2, <3>3
  <2>14. \A t \in Int : Covered(t, m) <=> \E j \in 1..k : Around(t, a[j])
    BY DEF Tells
  <2>15. \A t \in Int : Covered(t, new) <=> \E j \in 1..(k + 1) : Around(t, a[j])
    BY <1>2, <2>13, <2>14
  <2>16. Tells(a, k + 1, new)
    BY <2>7, <2>9, <2>10, <2>11, <2>12, <2>15 DEF Tells, b
  <2> QED
    BY <2>16 DEF new, b
<1>4. CASE ~(m # <<>> /\ b - Guard <= m[n][2])
  <2>1. new = Append(m, Span(b))
    BY <1>4 DEF Merge, Span, n
  <2>2. Span(b) \in Int \X Int /\ Span(b)[1] = b - Guard /\ Span(b)[2] = b + Guard
    BY <1>1 DEF Span
  <2> HIDE DEF new
  <2>3. /\ new \in Seq(Int \X Int) /\ Len(new) = n + 1 /\ DOMAIN new = 1..(n + 1)
        /\ \A p \in 1..n : new[p] = m[p]
        /\ new[n + 1] = Span(b)
    BY <1>1, <2>1, <2>2 DEF n
  <2>4. \A p \in 1..(n + 1) : p \in 1..n \/ p = n + 1
    BY <1>1
  <2>5. n + 1 \in 1..(n + 1) /\ \A p \in 1..n : p \in 1..(n + 1)
    BY <1>1
  <2>6. ASSUME NEW p \in 1..n PROVE m[p][1] \in Int /\ m[p][1] < b - Guard
    <3>1. \A q \in 1..n : m[q] \in Int \X Int
      BY <1>1 DEF n
    <3>2. n \in 1..n /\ m # <<>> /\ k > 0
      BY <1>1 DEF n, Tells
    <3>3. m[n][1] <= a[k] - Guard /\ a[k] \in Int /\ a[k] < b
      <4>1. k \in 1..(k + 1)
        BY <3>2
      <4> QED
        BY <3>2, <4>1 DEF Tells, n, b
    <3>4. p < n => m[p][1] < m[n][1]
      BY <1>1, <3>2 DEF Tells
    <3>5. m[p][1] \in Int /\ m[n][1] \in Int
      BY <3>1, <3>2
    <3>6. p = n \/ p < n
      BY <1>1
    <3>7. m[n][1] < b - Guard
      BY <1>1, <3>3, <3>5
    <3>8. CASE p = n
      BY <3>5, <3>7, <3>8
    <3>9. CASE p < n
      BY <1>1, <3>4, <3>5, <3>7, <3>9
    <3> QED
      BY <3>6, <3>8, <3>9
  <2>7. ASSUME NEW p \in 1..(n + 1), NEW q \in 1..(n + 1), p < q PROVE new[p][1] < new[q][1]
    <3>1. p \in 1..n
      BY <1>1, <2>7
    <3>2. CASE q \in 1..n
      BY <1>1, <2>3, <2>7, <3>1, <3>2 DEF Tells
    <3>3. CASE q = n + 1
      BY <2>2, <2>3, <2>6, <3>1, <3>3
    <3> QED
      BY <2>4, <3>2, <3>3
  <2>8. new # <<>> /\ k + 1 # 0
    BY <1>1, <2>3
  <2>9. new[Len(new)][1] <= b - Guard /\ new[Len(new)][2] = b + Guard
    BY <1>1, <2>2, <2>3
  <2>10. ASSUME NEW t \in Int PROVE Covered(t, new) <=> Covered(t, m) \/ Around(t, b)
    <3>1. Around(t, b) <=> new[n + 1][1] <= t /\ t <= new[n + 1][2]
      BY <2>2, <2>3 DEF Around
    <3> QED
      BY <1>1, <2>3, <2>4, <2>5, <3>1 DEF Covered
  <2>11. \A t \in Int : Covered(t, m) <=> \E j \in 1..k : Around(t, a[j])
    BY DEF Tells
  <2>12. \A t \in Int : Covered(t, new) <=> \E j \in 1..(k + 1) : Around(t, a[j])
    BY <1>2, <2>10, <2>11
  <2>13. Tells(a, k + 1, new)
    BY <2>3, <2>7, <2>8, <2>9, <2>12 DEF Tells, b
  <2> QED
    BY <2>13 DEF new, b
<1> QED
  BY <1>3, <1>4

LEMMA MergesNext ==
  ASSUME NEW a, NEW n \in Nat, NEW f, Merges(a, f, n)
  PROVE  \E g : Merges(a, g, n + 1)
<1> DEFINE g == [k \in 0..(n + 1) |-> IF k <= n THEN f[k] ELSE Merge(f[k - 1], Span(a[k]))]
<1>1. \A k \in 0..n : g[k] = f[k] /\ f[k] = IF k = 0 THEN <<>> ELSE Merge(f[k - 1], Span(a[k]))
  BY DEF Merges
<1>2. ASSUME NEW k \in 0..(n + 1) PROVE g[k] = IF k = 0 THEN <<>> ELSE Merge(g[k - 1], Span(a[k]))
  <2>1. k \in 0..n \/ (k = n + 1 /\ ~(k <= n) /\ k # 0)
    OBVIOUS
  <2>2. k # 0 => k - 1 \in 0..n
    OBVIOUS
  <2>3. k # 0 => g[k - 1] = f[k - 1]
    BY <1>1, <2>2
  <2>4. k = n + 1 => g[k] = Merge(f[k - 1], Span(a[k]))
    OBVIOUS
  <2> HIDE DEF g
  <2> QED
    BY <1>1, <2>1, <2>3, <2>4
<1>3. g = [k \in 0..(n + 1) |-> g[k]]
  OBVIOUS
<1> HIDE DEF g
<1> QED
  BY <1>2, <1>3 DEF Merges

LEMMA MergesExists ==
  ASSUME NEW a, NEW n \in Nat
  PROVE  \E f : Merges(a, f, n)
<1> DEFINE S == {m \in Nat : \E f : Merges(a, f, m)}
<1>1. 0 \in S
  <2> DEFINE e == [k \in 0..0 |-> <<>>]
  <2>1. e = [k \in 0..0 |-> IF k = 0 THEN <<>> ELSE Merge(e[k - 1], Span(a[k]))]
    OBVIOUS
  <2> HIDE DEF e
  <2> QED
    BY <2>1 DEF Merges
<1>2. \A m \in 0..(n - 1) : m \in S => m + 1 \in S
  BY MergesNext
<1> HIDE DEF S
<1>3. n \in S
  BY <1>1, <1>2, Ascent
<1> QED
  BY <1>3 DEF S

LEMMA MergesTell ==
  ASSUME NEW a, NEW n \in Nat, \A j \in 1..n : a[j] \in Int,
         \A i, j \in 1..n : i < j => a[i] < a[j], NEW f, Merges(a, f, n)
  PROVE  Tells(a, n, f[n])
<1> DEFINE S == {m \in Nat : m <= n => Tells(a, m, f[m])}
<1>1. /\ f[0] = <<>>
      /\ \A k \in 1..n : f[k] = Merge(f[k - 1], Span(a[k]))
  BY DEF Merges
<1>2. 0 \in S
  <2>1. Tells(a, 0, <<>>)
    BY DEF Tells, Covered
  <2> QED
    BY <1>1, <2>1
<1>3. ASSUME NEW m \in 0..(n - 1), m \in S PROVE m + 1 \in S
  <2>1. m \in Nat /\ Tells(a, m, f[m])
    BY <1>3
  <2>2. m + 1 \in 1..n /\ (m + 1) - 1 = m /\ (m > 0 => m \in 1..n)
    OBVIOUS
  <2>3. f[m + 1] = Merge(f[m], Span(a[m + 1]))
    BY <1>1, <2>2
  <2>4. \A j \in 1..(m + 1) : a[j] \in Int
    OBVIOUS
  <2>5. m > 0 => a[m] < a[m + 1]
    BY <2>2
  <2>6. Tells(a, m + 1, f[m + 1])
    BY <2>1, <2>3, <2>4, <2>5, MergeTells
  <2> QED
    BY <2>6
<1> HIDE DEF S
<1>4. \A m \in 0..(n - 1) : m \in S => m + 1 \in S
  BY <1>3
<1>5. n \in S
  BY <1>2, <1>4, Ascent
<1> QED
  BY <1>5 DEF S

\* The search that stops at an interval which begins later misses none.
LEMMA SearchFinds ==
  ASSUME NEW a, NEW k, NEW m, Tells(a, k, m), NEW t \in Int
  PROVE  InAnyInterval(t, m) <=> Covered(t, m)
<1>1. m \in Seq(Int \X Int) /\ DOMAIN m = 1..Len(m) /\ Len(m) \in Nat
  BY DEF Tells
<1>2. \A p \in DOMAIN m : m[p][1] \in Int
  <2>1. \A p \in DOMAIN m : m[p] \in Int \X Int
    BY <1>1, Element
  <2> QED
    BY <2>1
<1>3. ASSUME NEW p \in DOMAIN m, m[p][1] <= t, NEW j \in 1..p PROVE t >= m[j][1]
  <2>1. j \in DOMAIN m /\ (j = p \/ j < p)
    BY <1>1
  <2>2. j < p => m[j][1] < m[p][1]
    BY <2>1 DEF Tells
  <2> QED
    BY <1>2, <1>3, <2>1, <2>2
<1> QED
  BY <1>3 DEF InAnyInterval, Covered

\* What the loaders give as the intervals of a load, at every instant
LEMMA IntervalsOfLoad ==
  ASSUME Rows, Len(times) = Len(loaded), NEW t \in Int
  PROVE  InAnyInterval(t, AttackIntervals)
           <=> \E i \in DOMAIN loaded : loaded[i].class # "benign" /\ Around(t, times[i])
<1> DEFINE I == {i \in DOMAIN loaded : loaded[i].class # "benign"}
           T == {times[i] : i \in I}
           a == InOrder(T)
           n == Len(a)
<1>1. DOMAIN loaded = 1..Len(loaded) /\ Len(loaded) \in Nat
      /\ \A i \in DOMAIN loaded : times[i] \in Nat
  BY Element DEF Rows
<1>2. IsFiniteSet(I)
  <2>1. IsFiniteSet(1..Len(loaded))
    BY <1>1, FS_Interval
  <2> QED
    BY <1>1, <2>1, FS_Subset
<1>3. IsFiniteSet(T)
  <2> HIDE DEF I
  <2> DEFINE f == [i \in I |-> times[i]]
  <2>1. f \in Surjection(I, T)
    BY DEF Surjection
  <2> QED
    BY <1>2, <2>1, FS_Surjection
<1>4. T \in SUBSET Int
  BY <1>1
<1>5. /\ Enumerates(a, T)
      /\ \A k, l \in DOMAIN a : k < l => a[k] < a[l]
  <2> HIDE DEF T
  <2> QED
    BY <1>3, <1>4, InOrderFacts
<1>6. AttackIntervals =
        (CHOOSE f : f = [k \in 0..n |-> IF k = 0 THEN <<>> ELSE Merge(f[k - 1], Span(a[k]))])[n]
  BY DEF AttackIntervals, Span
<1> HIDE DEF T, a
<1>7. a \in Seq(T) /\ n \in Nat /\ DOMAIN a = 1..n
  BY <1>5 DEF Enumerates
<1>8. \A j \in 1..n : a[j] \in T /\ a[j] \in Int
  BY <1>4, <1>7, Element
<1> HIDE DEF n
<1> DEFINE g == CHOOSE f : Merges(a, f, n)
<1>9. Merges(a, g, n)
  <2>1. \E f : Merges(a, f, n)
    BY <1>7, MergesExists
  <2> QED
    BY <2>1
<1>10. AttackIntervals = g[n]
  BY <1>6 DEF Merges
<1> HIDE DEF g
<1>11. Tells(a, n, g[n])
  BY <1>5, <1>7, <1>8, <1>9, MergesTell
<1>12. InAnyInterval(t, g[n]) <=> \E j \in 1..n : Around(t, a[j])
  BY <1>11, SearchFinds DEF Tells
<1>13. (\E j \in 1..n : Around(t, a[j])) <=> \E x \in T : Around(t, x)
  BY <1>5, <1>7, <1>8 DEF Enumerates
<1> QED
  BY <1>10, <1>12, <1>13 DEF T

\* An instant is found in the merged intervals exactly when an attack row is within the
\* guard of it: no span is lost where bursts are merged, and the search may stop at the
\* first interval that begins later (attack_intervals, in_any_interval).
THEOREM IntervalsTellHolds == LoadersSpec => []IntervalsTell
<1>1. LoadInv /\ TimedInv => IntervalsTell
  <2> SUFFICES ASSUME TimedInv, pc = "done", Timed, NEW t \in 0..10
               PROVE  InAnyInterval(t, AttackIntervals)
                        <=> \E i \in DOMAIN loaded : /\ loaded[i].class # "benign"
                                                    /\ times[i] - Guard <= t /\ t <= times[i] + Guard
    BY DEF IntervalsTell
  <2>1. Rows /\ Len(times) = Len(loaded)
    BY DEF TimedInv, TimesFollow
  <2> QED
    BY <2>1, IntervalsOfLoad DEF Around
<1> QED
  BY <1>1, LoadersStart, LoadersStep, PTL DEF LoadersSpec

-----------------------------------------------------------------------------
(* What a load returns, of its sample.  Everything is said in the order of    *)
(* Earlier, in which the files come in the order of reading.                  *)

\* How the tests of a loader go together
Kinds(l) ==
  /\ l.sample \in {"stride", "even", "head", "none"}
  /\ l.cut \in {"always", "before", "row", "end", "spread", "none"}
  /\ l.paths \in {"all", "known first", "known or else", "known", "one"}
  /\ l.sample = "stride" <=> l.cut \in {"always", "before"}
  /\ l.sample = "even" <=> l.cut = "spread"
  /\ l.cut = "spread" => l.orders = "load" /\ l.unique = FALSE
  /\ l.sample = "stride" => l.orders = "load" /\ l.unique = FALSE
  /\ l.orders = "file" => l.sample = "head"
  /\ l.cut = "end" => l.orders = "file"
  /\ l.unique => l.sample = "head" /\ l.orders = "file"
  /\ l.keeps = Values \/ l.keeps = {"attack", "benign"}
  /\ l.unique => l.keeps = {"attack", "benign"}

LEMMA LoaderKinds ==
  ASSUME load.name \in DOMAIN Loaders
  PROVE  Kinds(Loader) /\ (Loader.cut = "end" => load.name = "dohbrw2020")
<1>1. load.name \in {"cicids2018", "cicddos2019", "cicids2017", "unsw_nb15", "nsl_kdd",
                     "dohbrw2020", "dnsexf2021", "ciciot2023"}
  BY DEF Loaders
<1>2. Kinds(Cicids2018) /\ Cicids2018.cut # "end"
  BY DEF Kinds, Cicids2018, Cicids2018Keeps
<1>3. Kinds(Cicddos2019) /\ Cicddos2019.cut # "end"
  BY DEF Kinds, Cicddos2019, Cicddos2019Keeps
<1>4. Kinds(Cicids2017) /\ Cicids2017.cut # "end"
  BY DEF Kinds, Cicids2017, Cicids2017Keeps
<1>5. Kinds(UnswNb15) /\ UnswNb15.cut # "end"
  BY DEF Kinds, UnswNb15, UnswNb15Keeps
<1>6. Kinds(NslKdd) /\ NslKdd.cut # "end"
  BY DEF Kinds, NslKdd, NslKddKeeps
<1>7. Kinds(DohBrw2020)
  BY DEF Kinds, DohBrw2020, DohBrw2020Keeps
<1>8. Kinds(DnsExf2021) /\ DnsExf2021.cut # "end"
  BY DEF Kinds, DnsExf2021, DnsExf2021Keeps
<1>9. Kinds(Ciciot2023) /\ Ciciot2023.cut # "end"
  BY DEF Kinds, Ciciot2023, Ciciot2023Keeps
<1>10. Loader = (CASE load.name = "cicids2018" -> Cicids2018
                   [] load.name = "cicddos2019" -> Cicddos2019
                   [] load.name = "cicids2017" -> Cicids2017
                   [] load.name = "unsw_nb15" -> UnswNb15
                   [] load.name = "nsl_kdd" -> NslKdd
                   [] load.name = "dohbrw2020" -> DohBrw2020
                   [] load.name = "dnsexf2021" -> DnsExf2021
                   [] OTHER -> Ciciot2023)
  BY <1>1 DEF Loader, Loaders
<1> QED
  BY <1>1, <1>2, <1>3, <1>4, <1>5, <1>6, <1>7, <1>8, <1>9, <1>10

LEMMA DistinctJoin ==
  ASSUME NEW S, NEW s \in Seq(S), NEW t \in Seq(S), Distinct(s), Distinct(t),
         \A i \in DOMAIN s, j \in DOMAIN t : s[i] # t[j]
  PROVE  s \o t \in Seq(S) /\ Distinct(s \o t)
<1> DEFINE n == Len(s)
           m == Len(t)
           u == s \o t
<1>1. n \in Nat /\ m \in Nat /\ DOMAIN s = 1..n /\ DOMAIN t = 1..m
  OBVIOUS
<1>2. /\ u \in Seq(S) /\ DOMAIN u = 1..(n + m)
      /\ \A i \in 1..n : u[i] = s[i]
      /\ \A k \in 1..m : u[n + k] = t[k]
  BY Joined
<1> HIDE DEF u, n, m
<1>3. \A i \in 1..(n + m) : i \in 1..n \/ (i - n \in 1..m /\ i = n + (i - n))
  BY <1>1
<1>4. \A i \in 1..(n + m) : i \notin 1..n => u[i] = t[i - n]
  BY <1>2, <1>3
<1>5. ASSUME NEW i \in 1..(n + m), NEW j \in 1..(n + m), u[i] = u[j] PROVE i = j
  <2>1. CASE i \in 1..n /\ j \in 1..n
    BY <1>1, <1>2, <1>5, <2>1 DEF Distinct
  <2>2. CASE i \notin 1..n /\ j \notin 1..n
    <3>1. t[i - n] = t[j - n] /\ i - n \in 1..m /\ j - n \in 1..m
      BY <1>3, <1>4, <1>5, <2>2
    <3>2. i - n = j - n
      BY <1>1, <3>1 DEF Distinct
    <3> QED
      BY <1>1, <3>2
  <2>5. ASSUME NEW a \in 1..n, NEW b \in 1..(n + m), b \notin 1..n PROVE u[a] # u[b]
    <3>1. b - n \in DOMAIN t /\ a \in DOMAIN s
      BY <1>1, <1>3, <2>5
    <3>2. u[a] = s[a] /\ u[b] = t[b - n]
      BY <1>2, <1>4, <2>5
    <3> QED
      BY <3>1, <3>2
  <2>3. CASE i \in 1..n /\ j \notin 1..n
    BY <1>5, <2>3, <2>5
  <2>4. CASE i \notin 1..n /\ j \in 1..n
    BY <1>5, <2>4, <2>5
  <2> QED
    BY <2>1, <2>2, <2>3, <2>4
<1> QED
  BY <1>2, <1>5 DEF Distinct, u

\* Some files in their order
LEMMA SomeFiles ==
  ASSUME LoadInv, NEW S \in SUBSET DOMAIN load.files
  PROVE  /\ InOrder(S) \in Seq(DOMAIN load.files) /\ Distinct(InOrder(S))
         /\ \A k \in DOMAIN InOrder(S) : InOrder(S)[k] \in S
<1> DEFINE n == Len(load.files)
<1>1. n \in Nat /\ DOMAIN load.files = 1..n
  BY DEF LoadInv
<1> HIDE DEF n
<1>2. IsFiniteSet(1..n)
  BY <1>1, FS_Interval
<1>3. S \in SUBSET Int /\ IsFiniteSet(S)
  BY <1>1, <1>2, FS_Subset
<1>4. Enumerates(InOrder(S), S)
  BY <1>3, InOrderFacts
<1> DEFINE t == InOrder(S)
<1> HIDE DEF t
<1>5. t \in Seq(S) /\ Distinct(t)
  BY <1>4 DEF Enumerates, t
<1>6. t \in Seq(DOMAIN load.files) /\ \A k \in DOMAIN t : t[k] \in S
  BY <1>5, SeqSuperset
<1> QED
  BY <1>5, <1>6 DEF t

\* Every loader reads a file once.
LEMMA FilesOnce ==
  ASSUME LoadInv
  PROVE  ToRead \in Seq(DOMAIN load.files) /\ Distinct(ToRead)
<1> DEFINE D == DOMAIN load.files
           S == {f \in DOMAIN load.files : f = 2 \/ load.known}
           T == {f \in DOMAIN load.files : f # 2 /\ ~load.known}
           n == Len(load.files)
<1>1. n \in {1, 2} /\ D = 1..n
  BY DEF LoadInv
<1>2. AllFiles \in Seq(D) /\ Distinct(AllFiles)
  <2>1. AllFiles = [f \in 1..n |-> f]
    BY DEF AllFiles
  <2> HIDE DEF n
  <2>2. Ascends(AllFiles, 1..n)
    BY <1>1, <2>1, IdentityAscends
  <2>3. \A i \in DOMAIN AllFiles : AllFiles[i] = i
    BY <2>1
  <2> QED
    BY <1>1, <2>2, <2>3 DEF Ascends, Distinct
<1>3. /\ KnownFiles \in Seq(D) /\ Distinct(KnownFiles)
      /\ \A k \in DOMAIN KnownFiles : KnownFiles[k] \in S
  BY SomeFiles DEF KnownFiles
<1>4. /\ InOrder(T) \in Seq(D) /\ Distinct(InOrder(T))
      /\ \A k \in DOMAIN InOrder(T) : InOrder(T)[k] \in T
  BY SomeFiles
<1>5. KnownFirst \in Seq(D) /\ Distinct(KnownFirst)
  <2>1. \A f \in S : f \notin T
    OBVIOUS
  <2>2. KnownFirst = KnownFiles \o InOrder(T)
    BY DEF KnownFirst
  <2> HIDE DEF S, T, D
  <2>3. \A i \in DOMAIN KnownFiles, j \in DOMAIN InOrder(T) : KnownFiles[i] # InOrder(T)[j]
    BY <1>3, <1>4, <2>1
  <2> QED
    BY <1>3, <1>4, <2>2, <2>3, DistinctJoin
<1>6. KnownOrElse \in Seq(D) /\ Distinct(KnownOrElse)
  BY <1>2, <1>3 DEF KnownOrElse
<1>7. <<1>> \in Seq(D) /\ Distinct(<<1>>)
  <2>1. 1 \in D
    BY <1>1
  <2> HIDE DEF D
  <2> QED
    BY <2>1 DEF Distinct
<1>8. Loader.paths \in {"all", "known first", "known or else", "known", "one"}
  BY LoaderKinds DEF LoadInv, Kinds
<1> HIDE DEF D
<1>9. ToRead \in Seq(D) /\ Distinct(ToRead)
  BY <1>2, <1>3, <1>5, <1>6, <1>7, <1>8 DEF ToRead
<1> QED
  BY <1>9 DEF D

\* The files that are read, and their places
LEMMA FilePlaces ==
  ASSUME LoadInv
  PROVE  /\ Len(ToRead) \in Nat /\ DOMAIN ToRead = 1..Len(ToRead)
         /\ \A k \in DOMAIN ToRead : ToRead[k] \in DOMAIN load.files /\ FilePlace(ToRead[k]) = k
         /\ Range(ToRead) = {ToRead[k] : k \in DOMAIN ToRead}
         /\ \A f \in Range(ToRead) : /\ f \in DOMAIN load.files
                                     /\ FilePlace(f) \in DOMAIN ToRead /\ FilePlace(f) \in Nat
                                     /\ ToRead[FilePlace(f)] = f
<1>1. ToRead \in Seq(DOMAIN load.files) /\ Distinct(ToRead)
  BY FilesOnce
<1>2. Len(ToRead) \in Nat /\ DOMAIN ToRead = 1..Len(ToRead)
  BY <1>1
<1>3. \A k \in DOMAIN ToRead : ToRead[k] \in DOMAIN load.files
  BY <1>1, Element
<1>4. ASSUME NEW k \in DOMAIN ToRead PROVE FilePlace(ToRead[k]) = k
  <2>1. \A i \in DOMAIN ToRead : ToRead[i] = ToRead[k] => i = k
    BY <1>1 DEF Distinct
  <2> QED
    BY <2>1 DEF FilePlace
<1>5. Range(ToRead) = {ToRead[k] : k \in DOMAIN ToRead}
  BY DEF Range
<1> QED
  BY <1>2, <1>3, <1>4, <1>5

\* The rows of the files that are read
FileRows == {r \in Files \X Nat : r[1] \in Range(ToRead) /\ r[2] < Length(r[1])}

LEMMA FileRow ==
  ASSUME LoadInv, NEW f \in Range(ToRead), NEW p \in 0..(Length(f) - 1)
  PROVE  <<f, p>> \in FileRows
<1>1. f \in Files /\ Length(f) \in Nat
  BY FilePlaces, FileFacts
<1> QED
  BY <1>1 DEF FileRows

LEMMA RowsOfFiles ==
  ASSUME LoadInv, NEW r \in FileRows
  PROVE  /\ r = <<r[1], r[2]>> /\ r[1] \in Range(ToRead) /\ r[1] \in Files
         /\ r[2] \in Nat /\ r[2] \in 0..(Length(r[1]) - 1) /\ Length(r[1]) \in Nat
         /\ Clock(r[1], r[2]) \in Nat /\ FilePlace(r[1]) \in Nat
<1>1. r = <<r[1], r[2]>> /\ r[1] \in Range(ToRead) /\ r[1] \in Files /\ r[2] \in Nat /\ r[2] < Length(r[1])
  BY DEF FileRows
<1>2. r[1] \in DOMAIN load.files /\ FilePlace(r[1]) \in Nat
  BY <1>1, FilePlaces
<1>3. Length(r[1]) \in Nat /\ \A p \in 0..(Length(r[1]) - 1) : Clock(r[1], p) \in Nat
  BY <1>2, FileFacts
<1> QED
  BY <1>1, <1>2, <1>3

\* Earlier is a strict total order of them.
LEMMA EarlierOrders ==
  ASSUME LoadInv
  PROVE  /\ \A r \in FileRows : ~Earlier(r, r)
         /\ \A r, q, t \in FileRows : Earlier(r, q) /\ Earlier(q, t) => Earlier(r, t)
         /\ \A r, q \in FileRows : r = q \/ Earlier(r, q) \/ Earlier(q, r)
<1>1. ASSUME NEW r \in FileRows PROVE ~Earlier(r, r)
  BY <1>1, RowsOfFiles DEF Earlier
<1>2. ASSUME NEW r \in FileRows, NEW q \in FileRows, NEW t \in FileRows, Earlier(r, q), Earlier(q, t)
      PROVE  Earlier(r, t)
  <2>1. /\ r[2] \in Nat /\ q[2] \in Nat /\ t[2] \in Nat
        /\ FilePlace(r[1]) \in Nat /\ FilePlace(q[1]) \in Nat /\ FilePlace(t[1]) \in Nat
        /\ Clock(r[1], r[2]) \in Nat /\ Clock(q[1], q[2]) \in Nat /\ Clock(t[1], t[2]) \in Nat
    BY RowsOfFiles
  <2>2. FilePlace(r[1]) < FilePlace(q[1]) => FilePlace(r[1]) < FilePlace(t[1])
    BY <1>2, <2>1 DEF Earlier
  <2>3. CASE FilePlace(r[1]) < FilePlace(t[1])
    BY <2>3 DEF Earlier
  <2>4. CASE ~(FilePlace(r[1]) < FilePlace(t[1]))
    <3>1. /\ ~(FilePlace(r[1]) < FilePlace(q[1]))
          /\ FilePlace(q[1]) < FilePlace(t[1]) => r[1] # q[1]
      BY <2>2, <2>4
    <3>2. r[1] = q[1] /\ q[1] = t[1]
      BY <1>2, <3>1 DEF Earlier
    <3> QED
      BY <1>2, <2>1, <3>2 DEF Earlier
  <2> QED
    BY <2>3, <2>4
<1>3. ASSUME NEW r \in FileRows, NEW q \in FileRows PROVE r = q \/ Earlier(r, q) \/ Earlier(q, r)
  <2>1. /\ r[2] \in Nat /\ q[2] \in Nat /\ r = <<r[1], r[2]>> /\ q = <<q[1], q[2]>>
        /\ FilePlace(r[1]) \in Nat /\ FilePlace(q[1]) \in Nat
        /\ Clock(r[1], r[2]) \in Nat /\ Clock(q[1], q[2]) \in Nat
        /\ r[1] \in Range(ToRead) /\ q[1] \in Range(ToRead)
    BY RowsOfFiles
  <2>2. FilePlace(r[1]) = FilePlace(q[1]) => r[1] = q[1]
    BY <2>1, FilePlaces
  <2> QED
    BY <2>1, <2>2 DEF Earlier
<1> QED
  BY <1>1, <1>2, <1>3

LEMMA SampledRows ==
  ASSUME LoadInv
  PROVE  /\ Sampled \subseteq FileRows /\ IsFiniteSet(Sampled)
         /\ \A f, p : <<f, p>> \in Sampled <=> /\ f \in Range(ToRead) /\ p \in 0..(Length(f) - 1)
                                               /\ InSample(f, p)
<1>1. \A f, p : <<f, p>> \in Sampled <=> /\ f \in Range(ToRead) /\ p \in 0..(Length(f) - 1)
                                         /\ InSample(f, p)
  BY DEF Sampled
<1>2. \A r \in Sampled : \E f \in Range(ToRead) : \E p \in 0..(Length(f) - 1) : r = <<f, p>>
  BY DEF Sampled
<1>3. Sampled \subseteq FileRows
  BY <1>2, FileRow
<1>4. IsFiniteSet(Sampled)
  <2> DEFINE n == MaxRows[1] + MaxRows[2]
  <2>1. /\ MaxRows[1] \in Nat /\ MaxRows[2] \in Nat
        /\ n \in Nat /\ MaxRows[1] <= n /\ MaxRows[2] <= n
    BY LoaderAssumption
  <2> HIDE DEF n
  <2>2. IsFiniteSet(Files \X (0..n))
    <3>1. IsFiniteSet(0..n)
      BY <2>1, FS_Interval
    <3>2. IsFiniteSet(1..2)
      <4>1. 1 \in Int /\ 2 \in Int
        OBVIOUS
      <4> QED
        BY <4>1, FS_Interval, Zenon
    <3> QED
      BY <3>1, <3>2, FS_Product DEF Files
  <2>3. ASSUME NEW r \in FileRows PROVE r \in Files \X (0..n)
    <3>1. r = <<r[1], r[2]>> /\ r[1] \in Files /\ r[2] \in Nat /\ r[2] < Length(r[1]) /\ r[1] \in DOMAIN load.files
      BY RowsOfFiles, FilePlaces DEF FileRows
    <3>2. Length(r[1]) <= MaxRows[r[1]] /\ Length(r[1]) \in Nat
      BY <3>1, FileFacts DEF LoadInv, Length
    <3>3. r[2] \in 0..n
      BY <2>1, <3>1, <3>2 DEF Files
    <3> QED
      BY <3>1, <3>3
  <2> QED
    BY <1>3, <2>2, <2>3, FS_Subset
<1> QED
  BY <1>1, <1>3, <1>4

\* The rows of the sample that have been looked at
Visited ==
  {r \in Sampled : \/ FilePlace(r[1]) < file
                   \/ FilePlace(r[1]) = file /\ (pc = "chunk" => r[2] < seen)}

InEarlierOrder ==
  \A i, j \in DOMAIN loaded : i < j => Earlier(PlaceOf(loaded[i]), PlaceOf(loaded[j]))

\* Of the rows that are due and have been looked at, the load has nothing else, ...
OnlyDue == Returned \subseteq Due \cap Visited

\* ... all, unless the limit is reached, ...
AllDue == Due \cap Visited \subseteq Returned
Full == Cap # None /\ Loader.cut \notin {"end", "spread"} /\ Len(loaded) = Cap

\* ... and none without those before it.
FirstDue == \A q \in Returned, r \in Due : Earlier(r, q) => r \in Returned

\* What the load tells of is loaded or counted.
CountInv ==
  Cap = None /\ ~Loader.unique =>
    Len(loaded) + dropped.unmapped + dropped.header = Cardinality(Told(Visited))

Gathered ==
  /\ loaded \in Seq(LoadedRows) /\ dropped \in [unmapped : Nat, header : Nat]
  /\ RoomInv /\ InEarlierOrder /\ OnlyDue /\ FirstDue /\ CountInv

MappedRows == {r \in Sampled : Known(r[1], r[2])}
VectorOf(r) == Vector(r[1], r[2])

LEMMA DueIs ==
  /\ Due \subseteq MappedRows
  /\ ~Loader.unique => Due = MappedRows
  /\ Loader.unique =>
       Due = {r \in MappedRows : /\ ~TwoClasses(VectorOf(r))
                                 /\ \A q \in MappedRows : VectorOf(q) = VectorOf(r) => ~Earlier(q, r)}
<1>1. UNION {SampledAs(class) : class \in Loader.keeps} = MappedRows
  BY DEF SampledAs, MappedRows, Known
<1> QED
  BY <1>1 DEF Due, VectorOf

LEMMA EarliestRow ==
  ASSUME LoadInv, NEW M \in SUBSET Sampled, M # {}
  PROVE  \E q \in M : \A t \in M : ~Earlier(t, q)
<1> DEFINE before(q) == {t \in M : Earlier(t, q)}
           N == {Cardinality(before(q)) : q \in M}
           R == OpToRel(<, Nat)
<1>1. M \subseteq FileRows /\ IsFiniteSet(M)
  BY SampledRows, FS_Subset
<1>2. ASSUME NEW q \in M
      PROVE  IsFiniteSet(before(q)) /\ Cardinality(before(q)) \in Nat
  BY <1>1, FS_Subset, FS_CardinalityType
<1>3. N \subseteq Nat /\ N # {}
  BY <1>2
<1>4. \E x \in N : \A y \in N : ~(<<y, x>> \in R)
  <2> HIDE DEF N, R
  <2>1. IsWellFoundedOn(R, Nat)
    BY NatLessThanWellFounded DEF R
  <2> QED
    BY <1>3, <2>1, WFMin
<1>5. PICK q \in M : \A y \in N : ~(<<y, Cardinality(before(q))>> \in R)
  BY <1>4
<1>6. ASSUME NEW t \in M, Earlier(t, q) PROVE FALSE
  <2>1. before(t) \subseteq before(q) /\ t \in before(q) /\ t \notin before(t)
    BY <1>1, <1>6, EarlierOrders
  <2>2. Cardinality(before(t)) <= Cardinality(before(q)) /\ Cardinality(before(t)) # Cardinality(before(q))
    <3> HIDE DEF before
    <3> QED
      BY <1>2, <2>1, FS_Subset
  <2>3. Cardinality(before(t)) \in Nat /\ Cardinality(before(q)) \in Nat /\ Cardinality(before(t)) \in N
    BY <1>2
  <2> HIDE DEF before, N
  <2>4. ~(Cardinality(before(t)) < Cardinality(before(q)))
    BY <1>5, <2>3 DEF OpToRel, R
  <2> QED
    BY <2>2, <2>3, <2>4
<1> QED
  BY <1>6

\* An ambiguous vector is one that the sample has under both classes.
LEMMA AmbiguousIs ==
  ASSUME LoadInv, Loader.unique
  PROVE  /\ UNION {{<<f, p>> : p \in {q \in 0..(ReadOf(f) - 1) : Known(f, q)}} : f \in Range(ToRead)} = MappedRows
         /\ \A r \in MappedRows : VectorOf(r) \in Ambiguous <=> TwoClasses(VectorOf(r))
<1> DEFINE read == UNION {{<<f, p>> : p \in {q \in 0..(ReadOf(f) - 1) : Known(f, q)}} : f \in Range(ToRead)}
<1>1. Loader.sample = "head" /\ Loader.keeps = {"attack", "benign"}
  BY LoaderKinds DEF LoadInv, Kinds
<1>2. ASSUME NEW f \in Range(ToRead), NEW p
      PROVE  p \in 0..(ReadOf(f) - 1) <=> p \in 0..(Length(f) - 1) /\ InSample(f, p)
  <2>1. Length(f) \in Nat
    BY FilePlaces, FileFacts
  <2>2. CASE load.size = None
    BY <1>1, <2>2 DEF ReadOf, InSample
  <2>3. CASE load.size # None
    <3>1. load.size \in Nat
      BY <2>3 DEF LoadInv, Bound
    <3>2. ReadOf(f) = IF load.size <= Length(f) THEN load.size ELSE Length(f)
      BY <1>1, <2>1, <2>3, <3>1, MinPair DEF ReadOf
    <3>3. InSample(f, p) <=> p < load.size
      BY <1>1, <2>3 DEF InSample
    <3> QED
      BY <2>1, <3>1, <3>2, <3>3
  <2> QED
    BY <2>2, <2>3
<1>3. read = MappedRows
  <2>1. ASSUME NEW r \in read PROVE r \in MappedRows
    <3>1. PICK f \in Range(ToRead) : r \in {<<f, p>> : p \in {q \in 0..(ReadOf(f) - 1) : Known(f, q)}}
      OBVIOUS
    <3>2. PICK p \in 0..(ReadOf(f) - 1) : Known(f, p) /\ r = <<f, p>>
      BY <3>1
    <3>3. <<f, p>> \in Sampled
      BY <1>2, <3>2, SampledRows
    <3> QED
      BY <3>2, <3>3 DEF MappedRows
  <2>2. ASSUME NEW r \in MappedRows PROVE r \in read
    <3>1. r \in Sampled /\ Known(r[1], r[2])
      BY DEF MappedRows
    <3>2. r = <<r[1], r[2]>>
      BY <3>1, SampledRows, RowsOfFiles
    <3>3. r[1] \in Range(ToRead) /\ r[2] \in 0..(Length(r[1]) - 1) /\ InSample(r[1], r[2])
      BY <3>1, <3>2, SampledRows
    <3>4. r[2] \in 0..(ReadOf(r[1]) - 1)
      BY <1>2, <3>3
    <3>5. r \in {<<r[1], p>> : p \in {q \in 0..(ReadOf(r[1]) - 1) : Known(r[1], q)}}
      BY <3>1, <3>2, <3>4
    <3> QED
      BY <3>3, <3>5
  <2> HIDE DEF read
  <2> QED
    BY <2>1, <2>2
<1>4. Ambiguous = {VectorOf(r) : r \in
        {q \in MappedRows : \E r \in MappedRows : /\ VectorOf(r) = VectorOf(q)
                                                  /\ Class(r[1], r[2]) # Class(q[1], q[2])}}
  BY <1>3 DEF Ambiguous, VectorOf
<1>5. ASSUME NEW v
      PROVE  v \in Ambiguous <=> \E q, r \in MappedRows : /\ VectorOf(q) = v /\ VectorOf(r) = v
                                                          /\ Class(r[1], r[2]) # Class(q[1], q[2])
  BY <1>4
<1>6. \A r \in MappedRows : r \in Sampled /\ Class(r[1], r[2]) \in {"attack", "benign"}
  BY <1>1 DEF MappedRows, Known
<1>7. ASSUME NEW v
      PROVE  TwoClasses(v) <=> /\ \E r \in MappedRows : Class(r[1], r[2]) = "attack" /\ VectorOf(r) = v
                               /\ \E r \in MappedRows : Class(r[1], r[2]) = "benign" /\ VectorOf(r) = v
  BY <1>1 DEF TwoClasses, SampledAs, MappedRows, Known, VectorOf
<1>8. \A v : v \in Ambiguous <=> TwoClasses(v)
  BY <1>5, <1>6, <1>7
<1> QED
  BY <1>3, <1>8

\* The positions picked of a file go on where the rows looked at end.
Continues(f, picked, P) ==
  /\ P \subseteq Nat /\ picked \in Seq(P)
  /\ \A p \in P : <<f, p>> \in Sampled
  /\ \A p \in P : \E i \in DOMAIN picked : picked[i] = p
  /\ \A i, j \in DOMAIN picked : i < j => Earlier(<<f, picked[i]>>, <<f, picked[j]>>)
  /\ \A r \in Visited, p \in P : Earlier(r, <<f, p>>)
  /\ \A r \in Sampled, p \in P : Earlier(r, <<f, p>>) => r \in Visited \/ \E q \in P : r = <<f, q>>

LEMMA ReturnedIs ==
  ASSUME loaded \in Seq(LoadedRows)
  PROVE  /\ Returned = {PlaceOf(loaded[i]) : i \in DOMAIN loaded}
         /\ Returned = {PlaceOf(r) : r \in Range(loaded)}
<1>1. Range(loaded) = {loaded[i] : i \in DOMAIN loaded}
  BY DEF Range
<1> QED
  BY <1>1 DEF Returned, PlaceOf

\* What Take wants is what is due.
LEMMA WantedIsDue ==
  ASSUME LoadInv, loaded \in Seq(LoadedRows), OnlyDue, AllDue,
         NEW f \in Range(ToRead), NEW picked, NEW P, Continues(f, picked, P), NEW i \in DOMAIN picked
  PROVE  Wanted(f, picked, i) <=> <<f, picked[i]>> \in Due
<1> DEFINE r == <<f, picked[i]>>
<1>1. /\ \A j \in DOMAIN picked : picked[j] \in P /\ picked[j] \in Nat /\ j \in Nat
      /\ DOMAIN picked = 1..Len(picked) /\ Len(picked) \in Nat
  <2>1. P \subseteq Nat /\ picked \in Seq(P)
    BY DEF Continues
  <2>2. \A j \in DOMAIN picked : picked[j] \in P
    BY <2>1, Element
  <2>3. DOMAIN picked = 1..Len(picked) /\ Len(picked) \in Nat
    BY <2>1
  <2>4. \A j \in DOMAIN picked : j \in Nat
    BY <2>3
  <2>5. \A j \in DOMAIN picked : picked[j] \in Nat
    BY <2>1, <2>2
  <2> QED
    BY <2>2, <2>3, <2>4, <2>5
<1>2. \A j \in DOMAIN picked : <<f, picked[j]>> \in Sampled /\ <<f, picked[j]>> \in FileRows
  BY <1>1, SampledRows DEF Continues
<1>3. \A j \in DOMAIN picked : <<f, picked[j]>> \in MappedRows <=> Known(f, picked[j])
  BY <1>2 DEF MappedRows
<1>4. CASE ~Loader.unique
  <2>1. Due = MappedRows
    BY <1>4, DueIs
  <2>2. Wanted(f, picked, i) <=> Known(f, picked[i])
    BY <1>4 DEF Wanted
  <2> QED
    BY <1>3, <2>1, <2>2
<1>5. CASE Loader.unique
  <2>1. Due = {x \in MappedRows : /\ ~TwoClasses(VectorOf(x))
                                  /\ \A q \in MappedRows : VectorOf(q) = VectorOf(x) => ~Earlier(q, x)}
    BY <1>5, DueIs
  <2>2. \A x \in MappedRows : VectorOf(x) \in Ambiguous <=> TwoClasses(VectorOf(x))
    BY <1>5, AmbiguousIs
  <2>3. Wanted(f, picked, i) <=>
          /\ r \in MappedRows /\ VectorOf(r) \notin Ambiguous
          /\ \A j \in 1..(i - 1) : <<f, picked[j]>> \in MappedRows => VectorOf(<<f, picked[j]>>) # VectorOf(r)
          /\ \A x \in Returned : VectorOf(x) # VectorOf(r)
    <3>1. \A j \in 1..(i - 1) : j \in DOMAIN picked
      BY <1>1
    <3>2. (\A l \in Range(loaded) : Vector(l.file, l.pos) # VectorOf(r)) <=> \A x \in Returned : VectorOf(x) # VectorOf(r)
      <4>1. \A l : VectorOf(PlaceOf(l)) = Vector(l.file, l.pos)
        BY DEF VectorOf, PlaceOf
      <4>2. Returned = {PlaceOf(l) : l \in Range(loaded)}
        BY ReturnedIs
      <4> HIDE DEF r
      <4> QED
        BY <4>1, <4>2
    <3> QED
      BY <1>3, <1>5, <3>1, <3>2 DEF Wanted, VectorOf
  <2>4. ASSUME r \in Due PROVE Wanted(f, picked, i)
    <3>1. r \in MappedRows /\ VectorOf(r) \notin Ambiguous
          /\ \A q \in MappedRows : VectorOf(q) = VectorOf(r) => ~Earlier(q, r)
      BY <2>1, <2>2, <2>4
    <3>2. ASSUME NEW j \in 1..(i - 1) PROVE Earlier(<<f, picked[j]>>, r)
      <4>1. j \in DOMAIN picked /\ j < i
        BY <1>1
      <4> QED
        BY <4>1 DEF Continues
    <3>3. ASSUME NEW x \in Returned PROVE x \in MappedRows /\ Earlier(x, r)
      <4>1. x \in Due /\ x \in Visited
        BY DEF OnlyDue
      <4>2. picked[i] \in P
        BY <1>1
      <4>3. Earlier(x, <<f, picked[i]>>)
        BY <4>1, <4>2 DEF Continues
      <4> QED
        BY <4>1, <4>3, DueIs
    <3> QED
      BY <2>3, <3>1, <3>2, <3>3
  <2>5. ASSUME Wanted(f, picked, i) PROVE r \in Due
    <3>1. /\ r \in MappedRows /\ VectorOf(r) \notin Ambiguous
          /\ \A j \in 1..(i - 1) : <<f, picked[j]>> \in MappedRows => VectorOf(<<f, picked[j]>>) # VectorOf(r)
          /\ \A x \in Returned : VectorOf(x) # VectorOf(r)
      BY <2>3, <2>5
    <3>2. ASSUME NEW q \in MappedRows, VectorOf(q) = VectorOf(r), Earlier(q, r) PROVE FALSE
      <4> DEFINE M == {x \in MappedRows : VectorOf(x) = VectorOf(r)}
      <4>1. M \in SUBSET Sampled /\ q \in M
        BY <3>2 DEF MappedRows
      <4>2. PICK x \in M : \A t \in M : ~Earlier(t, x)
        BY <4>1, EarliestRow
      <4>3. x \in MappedRows /\ VectorOf(x) = VectorOf(r) /\ x \in Sampled /\ x \in FileRows /\ q \in FileRows /\ r \in FileRows
        BY <1>2, <4>1, SampledRows
      <4>4. x \in Due
        BY <2>1, <2>2, <3>1, <4>2, <4>3
      <4>5. Earlier(x, r)
        <5>1. x = q \/ Earlier(x, q)
          BY <4>1, <4>2, <4>3, EarlierOrders
        <5> QED
          BY <3>2, <4>3, <5>1, EarlierOrders
      <4>6. x \notin Visited
        BY <3>1, <4>3, <4>4 DEF AllDue
      <4>7. PICK p \in P : x = <<f, p>>
        BY <1>1, <4>3, <4>5, <4>6 DEF Continues
      <4>8. PICK j \in DOMAIN picked : picked[j] = p
        BY DEF Continues
      <4>9. j < i
        <5>1. i < j => Earlier(r, x)
          BY <4>7, <4>8 DEF Continues
        <5>2. ~Earlier(r, x) /\ r # x
          BY <4>3, <4>5, EarlierOrders
        <5>3. i # j /\ ~(i < j)
          BY <4>7, <4>8, <5>1, <5>2
        <5> QED
          BY <1>1, <5>3
      <4>10. j \in 1..(i - 1)
        BY <1>1, <4>9
      <4> QED
        BY <3>1, <4>3, <4>7, <4>8, <4>10
    <3> QED
      BY <2>1, <2>2, <3>1, <3>2
  <2> QED
    BY <2>4, <2>5
<1> QED
  BY <1>4, <1>5

LEMMA CountedApart ==
  ASSUME NEW A, IsFiniteSet(A), NEW B
  PROVE  /\ IsFiniteSet(A \cap B) /\ IsFiniteSet(A \ B)
         /\ Cardinality(A \cap B) \in Nat /\ Cardinality(A \ B) \in Nat
         /\ Cardinality(A \ B) + Cardinality(A \cap B) = Cardinality(A)
<1>1. IsFiniteSet(A \cap B) /\ IsFiniteSet(A \ B)
  BY FS_Intersection, FS_Difference
<1>2. Cardinality(A \ B) = Cardinality(A) - Cardinality(A \cap B)
  BY FS_Difference
<1>3. Cardinality(A) \in Nat /\ Cardinality(A \cap B) \in Nat /\ Cardinality(A \ B) \in Nat
  BY <1>1, FS_CardinalityType
<1> QED
  BY <1>1, <1>2, <1>3

LEMMA CountTo ==
  ASSUME NEW m \in Nat
  PROVE  IsFiniteSet(1..m) /\ Cardinality(1..m) = m
<1>1. 1 \in Int /\ m \in Int /\ ~(1 > m + 1)
  OBVIOUS
<1>2. IsFiniteSet(1..m) /\ Cardinality(1..m) = IF 1 > m THEN 0 ELSE m - 1 + 1
  BY <1>1, FS_Interval
<1> QED
  BY <1>2

LEMMA SomeOf ==
  ASSUME NEW m \in Nat, NEW W \in SUBSET (1..m)
  PROVE  /\ IsFiniteSet(W) /\ Cardinality(W) \in Nat /\ Cardinality(W) <= m
         /\ Cardinality(W) = m => W = 1..m
<1>1. IsFiniteSet(1..m) /\ Cardinality(1..m) = m
  BY CountTo
<1> QED
  BY <1>1, FS_Subset, FS_CardinalityType

\* The positions of the rows that are passed over and counted
CountedOf(f, picked) ==
  {i \in DOMAIN picked : ~Known(f, picked[i]) /\ Label(f, picked[i]) \in Loader.counts}

\* taken: the first of the positions W, and all of them unless the limit is reached
TakesFirst(f, picked, W, taken) ==
  /\ Ascends(taken, W)
  /\ loaded' = loaded \o [k \in 1..Len(taken) |-> LoadedRow(f, picked[taken[k]])]
  /\ \A k \in DOMAIN taken, i \in W : i < taken[k] => \E l \in DOMAIN taken : taken[l] = i
  /\ \/ Len(taken) = Cardinality(W) /\ \A i \in W : \E l \in DOMAIN taken : taken[l] = i
     \/ Cap # None /\ Loader.cut \notin {"end", "spread"} /\ Len(loaded) + Len(taken) = Cap
  /\ Cap # None /\ Loader.cut \notin {"end", "spread"} => Len(loaded) + Len(taken) <= Cap
  /\ dropped' \in [unmapped : Nat, header : Nat]
  /\ Cap = None => dropped'.unmapped + dropped'.header
                     = dropped.unmapped + dropped.header
                         + Cardinality(CountedOf(f, picked))

LEMMA TakenFirst ==
  ASSUME LoadInv, RoomInv, NEW f, NEW picked \in Seq(Nat), loaded \in Seq(LoadedRows),
         dropped \in [unmapped : Nat, header : Nat], Take(f, picked)
  PROVE  \E taken : TakesFirst(f, picked, {i \in DOMAIN picked : Wanted(f, picked, i)}, taken)
<1> DEFINE room == IF Cap = None \/ Loader.cut \in {"end", "spread"} THEN Len(picked)
                   ELSE Cap - Len(loaded)
           W == {i \in DOMAIN picked : Wanted(f, picked, i)}
           wanted == InOrder(W)
           n == Min({room, Len(wanted)})
           taken == SubSeq(wanted, 1, n)
           done == IF Len(wanted) < room \/ room = 0 THEN Len(picked) ELSE taken[room]
           passed == {i \in 1..done : ~Known(f, picked[i]) /\ Label(f, picked[i]) \in Loader.counts}
           headers == {i \in passed : Label(f, picked[i]) = "header"}
           all == CountedOf(f, picked)
<1>1. Len(picked) \in Nat /\ Len(loaded) \in Nat /\ DOMAIN picked = 1..Len(picked)
  OBVIOUS
<1>2. room \in Nat
  BY <1>1, CapType DEF RoomInv
<1>3. /\ W \in SUBSET (1..Len(picked)) /\ W \in SUBSET Int /\ IsFiniteSet(W)
      /\ Cardinality(W) \in Nat /\ Cardinality(W) <= Len(picked)
      /\ Cardinality(W) = Len(picked) => W = 1..Len(picked)
  <2>1. W \in SUBSET (1..Len(picked))
    BY <1>1
  <2> HIDE DEF W
  <2> QED
    BY <1>1, <2>1, SomeOf
<1>4. /\ loaded' = loaded \o [k \in 1..Len(taken) |-> LoadedRow(f, picked[taken[k]])]
      /\ dropped' = [unmapped |-> dropped.unmapped + Cardinality(passed \ headers),
                     header |-> dropped.header + Cardinality(headers)]
  BY DEF Take
<1>5. \A i \in W : Known(f, picked[i]) /\ i \in 1..Len(picked)
  BY <1>1 DEF Wanted
<1> HIDE DEF W
<1>7. Ascends(wanted, W) /\ Enumerates(wanted, W)
  BY <1>3, InOrderAscends, InOrderFacts
<1>8. /\ Len(wanted) \in Nat /\ DOMAIN wanted = 1..Len(wanted) /\ Len(wanted) = Cardinality(W)
      /\ \A i \in W : \E m \in DOMAIN wanted : wanted[m] = i
      /\ \A k \in DOMAIN wanted : wanted[k] \in W
  <2>1. wanted \in Seq(W) /\ Len(wanted) = Cardinality(W)
        /\ \A i \in W : \E m \in DOMAIN wanted : wanted[m] = i
    BY <1>7 DEF Enumerates
  <2> HIDE DEF wanted
  <2> QED
    BY <2>1, Element
<1>9. n \in 0..Len(wanted) /\ n <= room /\ (n = room \/ n = Len(wanted)) /\ (room <= Len(wanted) => n = room)
  <2> HIDE DEF room, wanted
  <2> QED
    BY <1>2, <1>8, MinPair
<1>10. /\ Ascends(taken, W) /\ Len(taken) = n
       /\ \A k \in 1..n : taken[k] = wanted[k]
  <2> HIDE DEF n, wanted
  <2> QED
    BY <1>3, <1>7, <1>9, PrefixAscends
<1>11. DOMAIN taken = 1..n /\ n \in Nat
  <2> HIDE DEF n
  <2> QED
    BY <1>8, <1>9, <1>10 DEF Ascends
<1>12. /\ done \in Nat /\ \A k \in 1..done : k \in DOMAIN picked
       /\ room = Len(picked) => passed = all
  <2>1. CASE Len(wanted) < room \/ room = 0
    <3>1. done = Len(picked)
      BY <2>1
    <3> QED
      BY <1>1, <3>1 DEF CountedOf
  <2>2. CASE ~(Len(wanted) < room \/ room = 0)
    <3>1. done = taken[room] /\ n = room /\ room \in 1..n
      <4> HIDE DEF taken, n, room, wanted
      <4> QED
        BY <1>2, <1>8, <1>9, <2>2
    <3>2. taken[room] = wanted[room] /\ wanted[room] \in W
      <4> HIDE DEF taken, n, room, wanted
      <4> QED
        BY <1>8, <1>9, <1>10, <3>1
    <3>3. done \in 1..Len(picked)
      BY <1>5, <3>1, <3>2
    <3>4. ASSUME room = Len(picked) PROVE passed = all
      <4>1. W = 1..Len(picked)
        <5> HIDE DEF room, wanted
        <5> QED
          BY <1>1, <1>3, <1>8, <2>2, <3>4
      <4>2. \A i \in 1..Len(picked) : Known(f, picked[i])
        BY <1>5, <4>1
      <4>3. \A i \in 1..done : i \in 1..Len(picked)
        <5> HIDE DEF done
        <5> QED
          BY <1>1, <3>3
      <4>4. passed = {} /\ all = {}
        <5> HIDE DEF done
        <5> QED
          BY <1>1, <4>2, <4>3 DEF CountedOf
      <4> QED
        BY <4>4
    <3>5. done \in Nat /\ \A k \in 1..done : k \in DOMAIN picked
      <4> HIDE DEF done
      <4> QED
        BY <1>1, <3>3
    <3> QED
      BY <3>4, <3>5
  <2> QED
    BY <2>1, <2>2
<1> HIDE DEF done
<1>13. IsFiniteSet(passed) /\ headers = passed \cap headers
  <2>1. IsFiniteSet(1..done)
    BY <1>12, FS_Interval
  <2>2. passed \in SUBSET (1..done)
    OBVIOUS
  <2> HIDE DEF passed
  <2> QED
    BY <2>1, <2>2, FS_Subset
<1>14. /\ Cardinality(passed \ headers) \in Nat /\ Cardinality(headers) \in Nat
       /\ Cardinality(passed \ headers) + Cardinality(headers) = Cardinality(passed)
       /\ Cardinality(passed) \in Nat
  <2> HIDE DEF passed, headers
  <2> QED
    BY <1>13, CountedApart, FS_CardinalityType
<1> HIDE DEF passed, headers, taken, n, wanted, room
<1>15. dropped.unmapped \in Nat /\ dropped.header \in Nat
  OBVIOUS
<1>16. dropped' \in [unmapped : Nat, header : Nat]
  BY <1>4, <1>14, <1>15
<1>17. dropped'.unmapped + dropped'.header = dropped.unmapped + dropped.header + Cardinality(passed)
  BY <1>4, <1>14, <1>15
<1>18. ASSUME NEW k \in DOMAIN taken, NEW i \in W, i < taken[k] PROVE \E l \in DOMAIN taken : taken[l] = i
  <2>1. PICK m \in DOMAIN wanted : wanted[m] = i
    BY <1>8
  <2>2. k \in 1..n /\ k \in DOMAIN wanted /\ taken[k] = wanted[k] /\ m \in Nat
    BY <1>8, <1>9, <1>10, <1>11
  <2>3. ~(k <= m)
    <3>1. k < m => wanted[k] < wanted[m]
      BY <1>7, <2>2 DEF Ascends
    <3>2. wanted[k] \in Int /\ wanted[m] \in Int
      BY <1>3, <1>8, <2>2
    <3> QED
      BY <1>18, <2>1, <2>2, <3>1, <3>2
  <2>4. m \in 1..n
    BY <1>8, <1>11, <2>1, <2>2, <2>3
  <2> QED
    BY <1>10, <1>11, <2>1, <2>4
<1>19. \/ Len(taken) = Cardinality(W) /\ \A i \in W : \E l \in DOMAIN taken : taken[l] = i
       \/ Cap # None /\ Loader.cut \notin {"end", "spread"} /\ Len(loaded) + Len(taken) = Cap
  <2>1. CASE n = Len(wanted)
    BY <1>8, <1>10, <1>11, <2>1
  <2>2. CASE n = room /\ n # Len(wanted)
    <3>1. room < Len(wanted)
      BY <1>2, <1>8, <1>9, <2>2
    <3>2. room # Len(picked)
      <4>1. Len(wanted) <= Len(picked)
        BY <1>3, <1>8
      <4> DEFINE a == Len(wanted)
                 b == Len(picked)
      <4>2. a \in Nat /\ b \in Nat /\ room \in Nat /\ a <= b /\ room < a
        BY <1>1, <1>2, <1>8, <3>1, <4>1
      <4> HIDE DEF a, b
      <4>3. room # b
        BY <4>2
      <4> QED
        BY <4>3 DEF b
    <3>3. Cap # None /\ Loader.cut \notin {"end", "spread"} /\ room = Cap - Len(loaded)
      BY <3>2 DEF room
    <3>4. Cap \in Nat
      BY <3>3, CapType
    <3> QED
      BY <1>1, <1>2, <1>10, <2>2, <3>3, <3>4
  <2> QED
    BY <1>9, <2>1, <2>2
<1>20. ASSUME Cap # None, Loader.cut \notin {"end", "spread"} PROVE Len(loaded) + Len(taken) <= Cap
  <2>1. room = Cap - Len(loaded) /\ Cap \in Nat
    BY <1>20, CapType DEF room
  <2> QED
    BY <1>1, <1>9, <1>10, <1>11, <2>1
<1>21. Cap = None => passed = all
  <2>1. Cap = None => room = Len(picked)
    BY DEF room
  <2> QED
    BY <1>12, <2>1
<1> HIDE DEF all
<1>22. TakesFirst(f, picked, W, taken)
  BY <1>4, <1>10, <1>16, <1>17, <1>18, <1>19, <1>20, <1>21 DEF TakesFirst, all
<1> QED
  BY <1>22 DEF W

LEMMA PlacesIn ==
  ASSUME NEW s
  PROVE  {<<r.file, r.pos>> : r \in Range(s)} = {PlaceOf(s[i]) : i \in DOMAIN s}
<1>1. Range(s) = {s[i] : i \in DOMAIN s}
  BY DEF Range
<1>2. \A r : PlaceOf(r) = <<r.file, r.pos>>
  BY DEF PlaceOf
<1>3. {<<r.file, r.pos>> : r \in Range(s)} = {PlaceOf(r) : r \in Range(s)}
  BY DEF PlaceOf
<1> QED
  BY <1>1, <1>3

\* Rows of f are appended.
LEMMA LoadedGrows ==
  ASSUME load' = load, loaded \in Seq(LoadedRows), NEW f \in Files, NEW picked \in Seq(Nat),
         NEW taken \in Seq(DOMAIN picked),
         loaded' = loaded \o [k \in 1..Len(taken) |-> LoadedRow(f, picked[taken[k]])]
  PROVE  /\ loaded' \in Seq(LoadedRows)' /\ Len(loaded') = Len(loaded) + Len(taken)
         /\ Len(loaded) \in Nat /\ Len(taken) \in Nat
         /\ DOMAIN loaded = 1..Len(loaded) /\ DOMAIN taken = 1..Len(taken)
         /\ DOMAIN loaded' = 1..(Len(loaded) + Len(taken))
         /\ \A i \in DOMAIN loaded : PlaceOf(loaded'[i]) = PlaceOf(loaded[i])
         /\ \A k \in DOMAIN taken : PlaceOf(loaded'[Len(loaded) + k]) = <<f, picked[taken[k]]>>
         /\ \A i \in DOMAIN loaded' : i \in DOMAIN loaded \/ \E k \in DOMAIN taken : i = Len(loaded) + k
         /\ Returned' = Returned \cup {<<f, picked[taken[k]]>> : k \in DOMAIN taken}
<1> DEFINE n == Len(loaded)
           m == Len(taken)
           more == [k \in 1..m |-> LoadedRow(f, picked[taken[k]])]
<1>1. n \in Nat /\ m \in Nat /\ DOMAIN loaded = 1..n /\ DOMAIN taken = 1..m
  OBVIOUS
<1>2. \A k \in 1..m : picked[taken[k]] \in Nat
  <2>1. \A k \in DOMAIN taken : taken[k] \in DOMAIN picked
    BY Element
  <2> QED
    BY <1>1, <2>1, Element
<1> HIDE DEF m
<1>3. ASSUME NEW k \in 1..m
      PROVE  /\ LoadedRow(f, picked[taken[k]]) \in LoadedRows
             /\ PlaceOf(LoadedRow(f, picked[taken[k]])) = <<f, picked[taken[k]]>>
  <2>1. picked[taken[k]] \in Nat
    BY <1>2
  <2> QED
    BY <2>1 DEF LoadedRows, LoadedRow, PlaceOf
<1>4. more \in Seq(LoadedRows) /\ Len(more) = m /\ \A k \in 1..m : more[k] = LoadedRow(f, picked[taken[k]])
  BY <1>1, <1>3
<1>5. loaded' = loaded \o more
  BY DEF m
<1> HIDE DEF more, n
<1>6. /\ loaded' \in Seq(LoadedRows) /\ Len(loaded') = n + m /\ DOMAIN loaded' = 1..(n + m)
      /\ \A i \in 1..n : loaded'[i] = loaded[i]
      /\ \A k \in 1..m : loaded'[n + k] = more[k]
  <2>1. more \in Seq(LoadedRows) /\ m = Len(more)
    BY <1>4
  <2>2. loaded \in Seq(LoadedRows) /\ n = Len(loaded)
    BY DEF n
  <2>3. /\ loaded \o more \in Seq(LoadedRows) /\ Len(loaded \o more) = n + m
        /\ DOMAIN (loaded \o more) = 1..(n + m)
        /\ \A i \in 1..n : (loaded \o more)[i] = loaded[i]
        /\ \A k \in 1..m : (loaded \o more)[n + k] = more[k]
    BY <2>1, <2>2, Joined
  <2> QED
    BY <1>5, <2>3
<1>7. loaded' \in Seq(LoadedRows)'
  BY <1>6, LoadStays
<1>8. \A i \in DOMAIN loaded : PlaceOf(loaded'[i]) = PlaceOf(loaded[i])
  BY <1>1, <1>6
<1>9. \A k \in DOMAIN taken : PlaceOf(loaded'[n + k]) = <<f, picked[taken[k]]>>
  BY <1>1, <1>3, <1>4, <1>6
<1>10. \A i \in DOMAIN loaded' : i \in DOMAIN loaded \/ \E k \in DOMAIN taken : i = n + k
  <2>1. \A i \in 1..(n + m) : i \in 1..n \/ (i - n \in 1..m /\ i = n + (i - n))
    BY <1>1
  <2> QED
    BY <1>1, <1>6, <2>1
<1>11. Returned' = Returned \cup {<<f, picked[taken[k]]>> : k \in DOMAIN taken}
  <2>1. Returned = {PlaceOf(loaded[i]) : i \in DOMAIN loaded}
    BY ReturnedIs
  <2>2. Returned' = {PlaceOf(loaded'[i]) : i \in DOMAIN loaded'}
    <3>1. Returned' = {<<r.file, r.pos>> : r \in Range(loaded')}
      BY DEF Returned
    <3> QED
      BY <3>1, PlacesIn
  <2>3. \A i \in 1..n : i \in 1..(n + m)
    BY <1>1
  <2>4. \A k \in 1..m : n + k \in 1..(n + m)
    BY <1>1
  <2>5. ASSUME NEW x \in Returned' PROVE x \in Returned \cup {<<f, picked[taken[k]]>> : k \in DOMAIN taken}
    <3>1. PICK i \in DOMAIN loaded' : x = PlaceOf(loaded'[i])
      BY <2>2, <2>5
    <3>2. CASE i \in DOMAIN loaded
      BY <1>8, <2>1, <3>1, <3>2
    <3>3. ASSUME NEW k \in DOMAIN taken, i = n + k PROVE x \in {<<f, picked[taken[l]]>> : l \in DOMAIN taken}
      BY <1>9, <3>1, <3>3
    <3> QED
      BY <1>10, <3>2, <3>3
  <2>6. ASSUME NEW x \in Returned PROVE x \in Returned'
    BY <1>1, <1>6, <1>8, <2>1, <2>2, <2>3
  <2>7. ASSUME NEW k \in DOMAIN taken PROVE <<f, picked[taken[k]]>> \in Returned'
    BY <1>1, <1>6, <1>9, <2>2, <2>4
  <2> QED
    BY <2>5, <2>6, <2>7
<1> QED
  BY <1>1, <1>6, <1>7, <1>8, <1>9, <1>10, <1>11 DEF n, m

\* What a load is about, its sample and what is due of it stay.
LEMMA SampleStays ==
  ASSUME load' = load
  PROVE  /\ Sampled' = Sampled /\ MappedRows' = MappedRows /\ Due' = Due /\ FileRows' = FileRows
         /\ \A r, q : Earlier(r, q)' = Earlier(r, q)
         /\ \A f : FilePlace(f)' = FilePlace(f) /\ Step(f)' = Step(f) /\ Stride(f)' = Stride(f)
<1>1. /\ Loader' = Loader /\ ToRead' = ToRead
      /\ (\A f : Length(f)' = Length(f)) /\ (\A f, p : Clock(f, p)' = Clock(f, p))
  BY LoadStays
<1>2. /\ \A f, p : Class(f, p)' = Class(f, p) /\ Known(f, p)' = Known(f, p)
      /\ \A f, p : Vector(f, p)' = Vector(f, p)
  BY <1>1 DEF Class, FirstClass, OwnClass, Named, Label, Known, Vector
<1>3. \A f : FilePlace(f)' = FilePlace(f) /\ Step(f)' = Step(f) /\ Stride(f)' = Stride(f)
  BY <1>1 DEF FilePlace, Step, Stride
<1>4. \A f, p : InSample(f, p)' = InSample(f, p)
  BY <1>1, <1>3 DEF InSample
<1>5. Sampled' = Sampled
  BY <1>1, <1>4 DEF Sampled
<1>6. \A c : SampledAs(c)' = SampledAs(c)
  BY <1>2, <1>5 DEF SampledAs
<1>7. \A r, q : Earlier(r, q)' = Earlier(r, q)
  BY <1>1, <1>3 DEF Earlier
<1>8. \A v : TwoClasses(v)' = TwoClasses(v)
  BY <1>1, <1>2, <1>6 DEF TwoClasses
<1>9. Due' = Due
  BY <1>1, <1>2, <1>6, <1>7, <1>8 DEF Due
<1>10. MappedRows' = MappedRows /\ FileRows' = FileRows
  BY <1>1, <1>2, <1>5 DEF MappedRows, FileRows
<1> QED
  BY <1>3, <1>5, <1>7, <1>9, <1>10

LEMMA ContinuesFacts ==
  ASSUME LoadInv, NEW f \in Range(ToRead), NEW picked, NEW P, Continues(f, picked, P)
  PROVE  /\ picked \in Seq(Nat) /\ DOMAIN picked = 1..Len(picked) /\ Len(picked) \in Nat
         /\ f \in Files
         /\ \A i \in DOMAIN picked : picked[i] \in P /\ i \in Nat
         /\ \A p \in P : <<f, p>> \in Sampled /\ <<f, p>> \in FileRows /\ <<f, p>> \notin Visited
         /\ \A i, j \in DOMAIN picked : picked[i] = picked[j] => i = j
         /\ \A i, j \in DOMAIN picked : Earlier(<<f, picked[i]>>, <<f, picked[j]>>) => i < j
<1>1. P \subseteq Nat /\ picked \in Seq(P)
  BY DEF Continues
<1>2. DOMAIN picked = 1..Len(picked) /\ Len(picked) \in Nat
  BY <1>1
<1>3. \A i \in DOMAIN picked : picked[i] \in P
  BY <1>1, Element
<1>4. \A i \in DOMAIN picked : i \in Nat
  BY <1>2
<1>5. picked \in Seq(Nat)
  BY <1>1, SeqSuperset
<1>6. f \in Files
  BY FilePlaces, FileFacts
<1>7. \A p \in P : <<f, p>> \in Sampled /\ <<f, p>> \in FileRows
  BY SampledRows DEF Continues
<1>8. \A p \in P : <<f, p>> \notin Visited
  BY <1>7, EarlierOrders DEF Continues
<1>9. ASSUME NEW i \in DOMAIN picked, NEW j \in DOMAIN picked
      PROVE  /\ picked[i] = picked[j] => i = j
             /\ Earlier(<<f, picked[i]>>, <<f, picked[j]>>) => i < j
  <2>1. <<f, picked[i]>> \in FileRows /\ <<f, picked[j]>> \in FileRows /\ i \in Nat /\ j \in Nat
    BY <1>3, <1>4, <1>7
  <2>2. (i < j => Earlier(<<f, picked[i]>>, <<f, picked[j]>>)) /\ (j < i => Earlier(<<f, picked[j]>>, <<f, picked[i]>>))
    BY DEF Continues
  <2>3. picked[i] = picked[j] => ~(i < j) /\ ~(j < i)
    BY <2>1, <2>2, EarlierOrders
  <2>4. Earlier(<<f, picked[i]>>, <<f, picked[j]>>) => ~(j < i) /\ i # j
    BY <2>1, <2>2, EarlierOrders
  <2> QED
    BY <2>1, <2>3, <2>4
<1> QED
  BY <1>2, <1>3, <1>4, <1>5, <1>6, <1>7, <1>8, <1>9

LEMMA TellsStays ==
  ASSUME load' = load
  PROVE  \A f, p : TellsOf(f, p)' <=> TellsOf(f, p)
BY DEF TellsOf, Known, Class, FirstClass, OwnClass, Named, Label, Loader

\* Where the rows picked go on from the rows looked at, so do the rows loaded.
LEMMA TakeDue ==
  ASSUME LoadInv, Gathered, AllDue \/ Full,
         NEW f \in Range(ToRead), NEW picked, NEW P, Continues(f, picked, P),
         load' = load, Visited' = Visited \cup {<<f, p>> : p \in P}, Take(f, picked)
  PROVE  Gathered' /\ (AllDue' \/ Full')
<1> DEFINE W == {i \in DOMAIN picked : Wanted(f, picked, i)}
           rest == CountedOf(f, picked)
           tells == {i \in DOMAIN picked : TellsOf(f, picked[i])}
<1>1. /\ loaded \in Seq(LoadedRows) /\ dropped \in [unmapped : Nat, header : Nat] /\ RoomInv
      /\ InEarlierOrder /\ OnlyDue /\ FirstDue /\ CountInv
  BY DEF Gathered
<1>2. /\ picked \in Seq(Nat) /\ DOMAIN picked = 1..Len(picked) /\ Len(picked) \in Nat
      /\ f \in Files
      /\ \A i \in DOMAIN picked : picked[i] \in P /\ i \in Nat
      /\ \A p \in P : <<f, p>> \in Sampled /\ <<f, p>> \in FileRows /\ <<f, p>> \notin Visited
      /\ \A i, j \in DOMAIN picked : picked[i] = picked[j] => i = j
      /\ \A i, j \in DOMAIN picked : Earlier(<<f, picked[i]>>, <<f, picked[j]>>) => i < j
  BY ContinuesFacts
<1>3. PICK taken : TakesFirst(f, picked, W, taken)
  BY <1>1, <1>2, TakenFirst
<1>4. W \subseteq DOMAIN picked /\ taken \in Seq(W) /\ taken \in Seq(DOMAIN picked)
  <2>1. W \subseteq DOMAIN picked
    OBVIOUS
  <2>2. taken \in Seq(W)
    BY <1>3 DEF TakesFirst, Ascends
  <2> HIDE DEF W
  <2> QED
    BY <2>1, <2>2, SeqSuperset
<1>5. /\ \A k \in DOMAIN taken : taken[k] \in W /\ taken[k] \in DOMAIN picked /\ picked[taken[k]] \in P
      /\ \A k, l \in DOMAIN taken : k < l => taken[k] < taken[l]
  <2>1. \A k \in DOMAIN taken : taken[k] \in W
    <3> HIDE DEF W
    <3> QED
      BY <1>4, Element
  <2>2. \A k, l \in DOMAIN taken : k < l => taken[k] < taken[l]
    BY <1>3 DEF TakesFirst, Ascends
  <2> HIDE DEF W
  <2> QED
    BY <1>2, <1>4, <2>1, <2>2
<1>6. /\ loaded' \in Seq(LoadedRows)' /\ Len(loaded') = Len(loaded) + Len(taken)
      /\ Len(loaded) \in Nat /\ Len(taken) \in Nat
      /\ DOMAIN loaded = 1..Len(loaded) /\ DOMAIN taken = 1..Len(taken)
      /\ DOMAIN loaded' = 1..(Len(loaded) + Len(taken))
      /\ \A i \in DOMAIN loaded : PlaceOf(loaded'[i]) = PlaceOf(loaded[i])
      /\ \A k \in DOMAIN taken : PlaceOf(loaded'[Len(loaded) + k]) = <<f, picked[taken[k]]>>
      /\ \A i \in DOMAIN loaded' : i \in DOMAIN loaded \/ \E k \in DOMAIN taken : i = Len(loaded) + k
      /\ Returned' = Returned \cup {<<f, picked[taken[k]]>> : k \in DOMAIN taken}
  <2>1. loaded' = loaded \o [k \in 1..Len(taken) |-> LoadedRow(f, picked[taken[k]])]
    BY <1>3 DEF TakesFirst
  <2> HIDE DEF W
  <2> QED
    BY <1>1, <1>2, <1>4, <2>1, LoadedGrows
<1>7. /\ Due' = Due /\ Cap' = Cap /\ Loader' = Loader
      /\ \A r, q : Earlier(r, q)' = Earlier(r, q)
  BY SampleStays, LoadStays
<1>8. AllDue => W = {i \in DOMAIN picked : <<f, picked[i]>> \in Due}
  BY <1>1, WantedIsDue
<1>9. Full => taken = <<>> /\ DOMAIN taken = {}
  <2>1. Cap # None /\ Loader.cut \notin {"end", "spread"} => Len(loaded) + Len(taken) <= Cap
    BY <1>3 DEF TakesFirst
  <2>2. Full => Len(taken) = 0
    BY <1>6, <2>1 DEF Full
  <2> HIDE DEF W
  <2> QED
    BY <1>4, <1>6, <2>2
<1>10. \A k \in DOMAIN taken : <<f, picked[taken[k]]>> \in Due
  BY <1>5, <1>8, <1>9
<1> HIDE DEF W
<1>11. OnlyDue'
  <2>1. \A k \in DOMAIN taken : <<f, picked[taken[k]]>> \in Visited'
    BY <1>5
  <2> QED
    BY <1>1, <1>6, <1>7, <1>10, <2>1 DEF OnlyDue
<1>12. InEarlierOrder'
  <2> SUFFICES ASSUME NEW i \in DOMAIN loaded', NEW j \in DOMAIN loaded', i < j
               PROVE  Earlier(PlaceOf(loaded'[i]), PlaceOf(loaded'[j]))
    BY <1>7 DEF InEarlierOrder, PlaceOf
  <2>1. i \in Nat /\ j \in Nat
    BY <1>6
  <2>2. CASE i \in DOMAIN loaded /\ j \in DOMAIN loaded
    BY <1>1, <1>6, <2>2 DEF InEarlierOrder
  <2>3. ASSUME i \in DOMAIN loaded, NEW k \in DOMAIN taken, j = Len(loaded) + k
        PROVE  Earlier(PlaceOf(loaded'[i]), PlaceOf(loaded'[j]))
    <3>1. PlaceOf(loaded[i]) \in Returned
      BY <1>1, <2>3, ReturnedIs
    <3>2. PlaceOf(loaded[i]) \in Visited
      BY <1>1, <3>1 DEF OnlyDue
    <3>3. Earlier(PlaceOf(loaded[i]), <<f, picked[taken[k]]>>)
      BY <1>5, <3>2 DEF Continues
    <3> QED
      BY <1>6, <2>3, <3>3
  <2>4. ASSUME NEW k \in DOMAIN taken, NEW l \in DOMAIN taken, i = Len(loaded) + k, j = Len(loaded) + l
        PROVE  Earlier(PlaceOf(loaded'[i]), PlaceOf(loaded'[j]))
    <3>1. k < l
      BY <1>6, <2>4
    <3>2. taken[k] < taken[l] /\ taken[k] \in DOMAIN picked /\ taken[l] \in DOMAIN picked
      BY <1>5, <3>1
    <3>3. Earlier(<<f, picked[taken[k]]>>, <<f, picked[taken[l]]>>)
      BY <3>2 DEF Continues
    <3> QED
      BY <1>6, <2>4, <3>3
  <2>5. j \in DOMAIN loaded => i \in DOMAIN loaded
    BY <1>6, <2>1
  <2> QED
    BY <1>6, <2>2, <2>3, <2>4, <2>5
<1>13. AllDue' \/ Full'
  <2>1. CASE Full
    <3>1. Len(loaded') = Len(loaded)
      BY <1>6, <1>9, <2>1
    <3> QED
      BY <1>7, <2>1, <3>1 DEF Full
  <2>2. CASE AllDue
    <3>1. CASE Cap # None /\ Loader.cut \notin {"end", "spread"} /\ Len(loaded) + Len(taken) = Cap
      BY <1>6, <1>7, <3>1 DEF Full
    <3>2. CASE \A i \in W : \E l \in DOMAIN taken : taken[l] = i
      <4>1. ASSUME NEW r \in Due, r \in Visited' PROVE r \in Returned'
        <5>1. CASE r \in Visited
          BY <1>6, <2>2, <5>1 DEF AllDue
        <5>2. CASE r \notin Visited
          <6>1. PICK p \in P : r = <<f, p>>
            BY <4>1, <5>2
          <6>2. PICK i \in DOMAIN picked : picked[i] = p
            BY DEF Continues
          <6>3. i \in W
            BY <1>8, <2>2, <6>1, <6>2
          <6> QED
            BY <1>6, <3>2, <6>1, <6>2, <6>3
        <5> QED
          BY <5>1, <5>2
      <4> QED
        BY <1>7, <4>1 DEF AllDue
    <3> QED
      BY <1>3, <3>1, <3>2 DEF TakesFirst
  <2> QED
    BY <2>1, <2>2
<1>14. FirstDue'
  <2> SUFFICES ASSUME NEW q \in Returned', NEW r \in Due, Earlier(r, q)
               PROVE  r \in Returned'
    BY <1>7 DEF FirstDue
  <2>1. CASE q \in Returned
    BY <1>1, <1>6, <2>1 DEF FirstDue
  <2>2. CASE q \notin Returned
    <3>1. PICK k \in DOMAIN taken : q = <<f, picked[taken[k]]>>
      BY <1>6, <2>2
    <3>2. AllDue
      BY <1>9, <3>1
    <3>3. taken[k] \in DOMAIN picked /\ picked[taken[k]] \in P
      BY <1>5
    <3>4. r \in Sampled
      BY DueIs DEF MappedRows
    <3>5. CASE r \in Visited
      BY <1>6, <3>2, <3>5 DEF AllDue
    <3>6. CASE r \notin Visited
      <4>1. PICK p \in P : r = <<f, p>>
        BY <3>1, <3>3, <3>4, <3>6 DEF Continues
      <4>2. PICK i \in DOMAIN picked : picked[i] = p
        BY DEF Continues
      <4>3. i < taken[k]
        BY <1>2, <3>1, <3>3, <4>1, <4>2
      <4>4. i \in W
        BY <1>8, <3>2, <4>1, <4>2
      <4>5. PICK l \in DOMAIN taken : taken[l] = i
        BY <1>3, <4>3, <4>4 DEF TakesFirst
      <4> QED
        BY <1>6, <4>1, <4>2, <4>5
    <3> QED
      BY <3>5, <3>6
  <2> QED
    BY <2>1, <2>2
<1>15. CountInv'
  <2> SUFFICES ASSUME Cap = None, ~Loader.unique
               PROVE  Len(loaded') + dropped'.unmapped + dropped'.header = Cardinality(Told(Visited)')
    BY <1>7 DEF CountInv
  <2>1. AllDue /\ Len(taken) = Cardinality(W)
    BY <1>3 DEF Full, TakesFirst
  <2>2. Due = MappedRows
    BY DueIs
  <2>3. W = tells \ rest /\ rest = tells \cap rest
    <3>1. \A i \in DOMAIN picked : <<f, picked[i]>> \in Due <=> Known(f, picked[i])
      BY <1>2, <2>2 DEF MappedRows
    <3> QED
      BY <1>8, <2>1, <3>1 DEF CountedOf, TellsOf
  <2>4. /\ Cardinality(W) + Cardinality(rest) = Cardinality(tells) /\ IsFiniteSet(tells)
        /\ Cardinality(W) \in Nat /\ Cardinality(rest) \in Nat
    <3>1. IsFiniteSet(DOMAIN picked) /\ tells \subseteq DOMAIN picked
      BY <1>2, CountTo
    <3> HIDE DEF rest, tells
    <3>2. IsFiniteSet(tells)
      BY <3>1, FS_Subset
    <3> QED
      BY <2>3, <3>2, CountedApart
  <2>5. dropped'.unmapped + dropped'.header = dropped.unmapped + dropped.header + Cardinality(rest)
    BY <1>3 DEF TakesFirst
  <2>6. dropped' \in [unmapped : Nat, header : Nat]
    BY <1>3 DEF TakesFirst
  <2> HIDE DEF rest
  <2>7. /\ Cardinality(Told(Visited)') = Cardinality(Told(Visited)) + Cardinality(tells)
        /\ Cardinality(Told(Visited)) \in Nat
    <3> DEFINE more == {<<f, picked[i]>> : i \in tells}
               g == [i \in tells |-> <<f, picked[i]>>]
    <3>1. Told(Visited) \in SUBSET Sampled
      BY DEF Told, Visited
    <3>2. IsFiniteSet(Told(Visited))
      BY <3>1, SampledRows, FS_Subset
    <3>3. g \in Bijection(tells, more)
      <4>1. \A i, j \in tells : g[i] = g[j] => i = j
        BY <1>2
      <4>2. \A x \in more : \E i \in tells : g[i] = x
        OBVIOUS
      <4>3. g \in [tells -> more]
        OBVIOUS
      <4> HIDE DEF g, more, tells
      <4> QED
        BY <4>1, <4>2, <4>3 DEF Bijection, Injection, Surjection, IsInjective
    <3>4. Told(Visited)' = Told(Visited) \cup more
      <4>1. Told(Visited)' = {r \in Visited' : TellsOf(r[1], r[2])}
        BY TellsStays DEF Told
      <4>2. \A p \in P : \E i \in DOMAIN picked : picked[i] = p
        BY DEF Continues
      <4>3. \A i \in DOMAIN picked : picked[i] \in P
        BY <1>2
      <4> QED
        BY <4>1, <4>2, <4>3 DEF Told
    <3>5. more \cap Told(Visited) = {}
      BY <1>2 DEF Told
    <3> HIDE DEF more, g, tells
    <3>6. IsFiniteSet(more) /\ Cardinality(more) = Cardinality(tells)
      BY <2>4, <3>3, FS_Bijection DEF ExistsBijection
    <3>7. Cardinality(Told(Visited) \cup more)
            = Cardinality(Told(Visited)) + Cardinality(more) - Cardinality(Told(Visited) \cap more)
      BY <3>2, <3>6, FS_Union
    <3>8. Cardinality(Told(Visited) \cap more) = 0
      BY <3>5, FS_EmptySet
    <3>9. Cardinality(Told(Visited)) \in Nat /\ Cardinality(tells) \in Nat
      BY <2>4, <3>2, FS_CardinalityType
    <3>10. Cardinality(Told(Visited)') = Cardinality(Told(Visited) \cup more)
      BY <3>4
    <3> DEFINE u == Cardinality(Told(Visited) \cup more)
               v == Cardinality(Told(Visited))
               c == Cardinality(more)
               d == Cardinality(Told(Visited) \cap more)
    <3>11. u = v + c - d /\ d = 0 /\ v \in Nat /\ c \in Nat
      BY <3>6, <3>7, <3>8, <3>9
    <3> HIDE DEF u, v, c, d
    <3>12. u = v + c
      BY <3>11
    <3> QED
      BY <3>6, <3>9, <3>10, <3>12 DEF u, v, c
  <2>8. Len(loaded) + dropped.unmapped + dropped.header = Cardinality(Told(Visited))
    BY <1>1 DEF CountInv
  <2>9. dropped.unmapped \in Nat /\ dropped.header \in Nat /\ dropped'.unmapped \in Nat /\ dropped'.header \in Nat
    BY <1>1, <2>6
  <2>10. /\ Len(loaded') = Len(loaded) + Cardinality(W)
         /\ Cardinality(Told(Visited)') = Cardinality(Told(Visited)) + Cardinality(W) + Cardinality(rest)
    BY <1>6, <2>1, <2>4, <2>7
  <2> DEFINE c == Cardinality(W)
             d == Cardinality(rest)
             l == Len(loaded)
             v == Cardinality(Told(Visited))
             u == dropped.unmapped
             h == dropped.header
             uu == dropped'.unmapped
             hh == dropped'.header
  <2>11. /\ c \in Nat /\ d \in Nat /\ l \in Nat /\ u \in Nat /\ h \in Nat /\ uu \in Nat /\ hh \in Nat
         /\ l + u + h = v /\ uu + hh = u + h + d
    BY <1>6, <2>4, <2>5, <2>8, <2>9
  <2> HIDE DEF c, d, l, v, u, h, uu, hh
  <2>12. (l + c) + uu + hh = v + c + d
    BY <2>11
  <2> QED
    BY <2>10, <2>12 DEF c, d, l, v, uu, hh
<1>16. RoomInv'
  <2>1. Cap # None /\ Loader.cut \notin {"end", "spread"} => Len(loaded) + Len(taken) <= Cap
    BY <1>3 DEF TakesFirst
  <2> QED
    BY <1>6, <1>7, <2>1 DEF RoomInv
<1>17. dropped' \in [unmapped : Nat, header : Nat]
  BY <1>3 DEF TakesFirst
<1> QED
  BY <1>6, <1>11, <1>12, <1>13, <1>14, <1>15, <1>16, <1>17 DEF Gathered

\* How many multiples of s there are below n
Ceil(n, s) == (n + s - 1) \div s

LEMMA TimesMore ==
  ASSUME NEW s \in Nat, NEW a \in Nat, NEW b \in Nat, a <= b
  PROVE  s * a \in Nat /\ s * b \in Nat /\ s * a <= s * b /\ s * (a + 1) = s * a + s
<1>1. s * a \in Nat /\ s * b \in Nat /\ s * (a + 1) = s * a + s
  OBVIOUS
<1>2. b - a \in Nat /\ s * b = s * a + s * (b - a)
  OBVIOUS
<1>3. s * (b - a) >= 0
  BY <1>2
<1> QED
  BY <1>1, <1>2, <1>3

LEMMA CeilFacts ==
  ASSUME NEW n \in Nat, NEW s \in Nat \ {0}
  PROVE  /\ Ceil(n, s) \in Nat
         /\ \A m \in Nat : s * m < n <=> m < Ceil(n, s)
<1> DEFINE c == Ceil(n, s)
           x == n + s - 1
<1>1. x \in Nat
  OBVIOUS
<1>2. c \in Nat /\ s * c <= x /\ x < s * c + s
  BY <1>1, Quotient DEF Ceil
<1> HIDE DEF c
<1>3. ASSUME NEW m \in Nat, m < c PROVE s * m < n
  <2>1. m + 1 \in Nat /\ m + 1 <= c
    BY <1>2, <1>3
  <2>2. s * (m + 1) <= s * c /\ s * (m + 1) = s * m + s /\ s * m \in Nat /\ s * c \in Nat
    BY <1>2, <2>1, TimesMore
  <2> QED
    BY <1>2, <2>2
<1>4. ASSUME NEW m \in Nat, ~(m < c) PROVE ~(s * m < n)
  <2>1. s * c <= s * m /\ s * c \in Nat /\ s * m \in Nat
    BY <1>2, <1>4, TimesMore
  <2> QED
    BY <1>2, <2>1
<1> QED
  BY <1>2, <1>3, <1>4 DEF c

LEMMA MultipleOf ==
  ASSUME NEW p \in Nat, NEW s \in Nat \ {0}
  PROVE  /\ p % s = 0 => p \div s \in Nat /\ p = s * (p \div s)
         /\ \A m \in Nat : p = s * m => p % s = 0
<1>1. p = s * (p \div s) + (p % s) /\ p % s \in 0..(s - 1) /\ p \div s \in Nat
  BY Quotient
<1>2. ASSUME NEW m \in Nat, p = s * m PROVE p % s = 0
  <2> DEFINE q == p \div s
             r == p % s
  <2>1. q \in Nat /\ r \in 0..(s - 1) /\ s * m = s * q + r
    BY <1>1, <1>2
  <2> HIDE DEF q, r
  <2>2. CASE q < m
    <3>1. s * (q + 1) <= s * m /\ s * (q + 1) = s * q + s /\ s * q \in Nat
      BY <2>1, <2>2, TimesMore
    <3> QED
      BY <2>1, <3>1
  <2>3. CASE ~(q < m)
    <3>1. s * m <= s * q /\ s * m \in Nat /\ s * q \in Nat
      BY <2>1, <2>3, TimesMore
    <3> QED
      BY <2>1, <3>1 DEF r
  <2> QED
    BY <2>2, <2>3
<1> QED
  BY <1>1, <1>2

LEMMA Multiples ==
  ASSUME NEW a \in Nat, NEW b \in Nat, NEW s \in Nat \ {0}
  PROVE  {p \in a..(b - 1) : p % s = 0} = {s * m : m \in Ceil(a, s)..(Ceil(b, s) - 1)}
<1>1. /\ Ceil(a, s) \in Nat /\ Ceil(b, s) \in Nat
      /\ \A m \in Nat : (s * m < a <=> m < Ceil(a, s)) /\ (s * m < b <=> m < Ceil(b, s))
  BY CeilFacts
<1>2. ASSUME NEW p \in a..(b - 1), p % s = 0 PROVE p \in {s * m : m \in Ceil(a, s)..(Ceil(b, s) - 1)}
  <2>1. p \in Nat
    OBVIOUS
  <2>2. PICK m \in Nat : p = s * m
    BY <1>2, <2>1, MultipleOf
  <2>3. ~(s * m < a) /\ s * m < b
    BY <2>1, <2>2
  <2>4. m \in Ceil(a, s)..(Ceil(b, s) - 1)
    BY <1>1, <2>3
  <2> QED
    BY <2>2, <2>4
<1>3. ASSUME NEW m \in Ceil(a, s)..(Ceil(b, s) - 1) PROVE s * m \in a..(b - 1) /\ (s * m) % s = 0
  <2>1. m \in Nat /\ s * m \in Nat
    BY <1>1
  <2>2. (s * m) % s = 0
    BY <2>1, MultipleOf
  <2>3. ~(m < Ceil(a, s)) /\ m < Ceil(b, s)
    BY <1>1
  <2>4. ~(s * m < a) /\ s * m < b
    BY <1>1, <2>1, <2>3
  <2> QED
    BY <2>1, <2>2, <2>4
<1> QED
  BY <1>2, <1>3

\* An ascending enumeration of a set is its order.
LEMMA InOrderIs ==
  ASSUME NEW S \in SUBSET Int, NEW n \in Nat, NEW g \in [1..n -> S],
         \A k, l \in 1..n : k < l => g[k] < g[l],
         \A i \in S : \E k \in 1..n : g[k] = i
  PROVE  InOrder(S) = g /\ IsFiniteSet(S)
<1> DEFINE up(i) == {j \in S : j <= i}
<1>1. \A k, l \in 1..n : (g[k] <= g[l] <=> k <= l) /\ (g[k] = g[l] => k = l)
  <2> SUFFICES ASSUME NEW k \in 1..n, NEW l \in 1..n
               PROVE  (g[k] <= g[l] <=> k <= l) /\ (g[k] = g[l] => k = l)
    OBVIOUS
  <2>1. g[k] \in Int /\ g[l] \in Int /\ k \in Int /\ l \in Int
    <3> HIDE DEF up
    <3>1. g[k] \in S /\ g[l] \in S
      OBVIOUS
    <3>2. \A i \in S : i \in Int
      OBVIOUS
    <3>3. \A i \in 1..n : i \in Int
      OBVIOUS
    <3> QED
      BY <3>1, <3>2, <3>3
  <2>2. (k < l => g[k] < g[l]) /\ (l < k => g[l] < g[k]) /\ (k = l => g[k] = g[l])
    OBVIOUS
  <2> QED
    BY <2>1, <2>2
<1>2. IsFiniteSet(S) /\ Cardinality(S) = n
  <2>1. g \in Bijection(1..n, S)
    BY <1>1 DEF Bijection, Injection, Surjection, IsInjective
  <2>2. IsFiniteSet(1..n) /\ Cardinality(1..n) = n
    BY CountTo
  <2> QED
    BY <2>1, <2>2, FS_Bijection DEF ExistsBijection
<1>3. ASSUME NEW k \in 1..n PROVE Cardinality(up(g[k])) = k
  <2> DEFINE h == [l \in 1..k |-> g[l]]
             U == up(g[k])
  <2>1. \A l \in 1..k : l \in 1..n /\ g[l] \in U
    <3>1. \A l \in 1..k : l \in 1..n /\ l <= k
      OBVIOUS
    <3> QED
      BY <1>1, <3>1
  <2>2. \A j \in U : \E l \in 1..k : g[l] = j
    <3> SUFFICES ASSUME NEW j \in U PROVE \E l \in 1..k : g[l] = j
      OBVIOUS
    <3>1. PICK l \in 1..n : g[l] = j
      OBVIOUS
    <3>2. l <= k
      BY <1>1, <3>1
    <3>3. l \in 1..k
      BY <3>2
    <3> QED
      BY <3>1, <3>3
  <2> HIDE DEF U
  <2>3. h \in [1..k -> U]
    BY <2>1
  <2>4. \A j \in U : \E l \in 1..k : h[l] = j
    BY <2>2
  <2>5. \A l, m \in 1..k : h[l] = h[m] => l = m
    BY <1>1, <2>1
  <2> HIDE DEF h
  <2>6. h \in Bijection(1..k, U)
    BY <2>3, <2>4, <2>5 DEF Bijection, Injection, Surjection, IsInjective
  <2>7. k \in Nat /\ IsFiniteSet(1..k) /\ Cardinality(1..k) = k
    BY CountTo
  <2>8. Cardinality(U) = Cardinality(1..k)
    BY <2>6, <2>7, FS_Bijection DEF ExistsBijection
  <2> QED
    BY <2>7, <2>8 DEF U
<1> HIDE DEF up
<1>4. ASSUME NEW k \in 1..n PROVE (CHOOSE i \in S : Cardinality(up(i)) = k) = g[k]
  <2>1. g[k] \in S /\ Cardinality(up(g[k])) = k
    BY <1>3
  <2>2. ASSUME NEW i \in S, Cardinality(up(i)) = k PROVE i = g[k]
    <3>1. PICK l \in 1..n : g[l] = i
      OBVIOUS
    <3>2. l = k
      BY <1>3, <2>2, <3>1
    <3> QED
      BY <3>1, <3>2
  <2> QED
    BY <2>1, <2>2
<1>5. InOrder(S) = [k \in 1..n |-> g[k]]
  BY <1>2, <1>4 DEF InOrder, up
<1> QED
  BY <1>2, <1>5

\* The step by which the greatest sample fits is the quotient.
LEMMA StepIsStride ==
  ASSUME LoadInv, NEW f \in Range(ToRead)
  PROVE  Step(f) = Stride(f) /\ Stride(f) \in Nat \ {0}
<1> DEFINE L == Length(f)
           z == load.size
           q == L \div z
           K == {k \in 1..L : k * z <= L}
<1>1. L \in Nat /\ z \in Bound /\ load.stride \in Bound
  BY FilePlaces, FileFacts DEF LoadInv
<1>2. CASE load.stride # None
  BY <1>1, <1>2 DEF Step, Stride, Bound
<1>3. CASE load.stride = None /\ z = None
  BY <1>3 DEF Step, Stride
<1>4. CASE load.stride = None /\ z # None
  <2>1. z \in Nat \ {0}
    BY <1>1, <1>4 DEF Bound
  <2>2. q \in Nat /\ z * q <= L /\ L < z * q + z
    BY <1>1, <2>1, Quotient
  <2>3. \A k \in Nat : k * z <= L <=> k <= q
    <3> SUFFICES ASSUME NEW k \in Nat PROVE k * z <= L <=> k <= q
      OBVIOUS
    <3> HIDE DEF q, L, z
    <3>1. CASE k <= q
      <4>1. z * k <= z * q /\ z * k = k * z /\ z * k \in Nat /\ z * q \in Nat
        BY <2>1, <2>2, <3>1, TimesMore
      <4> QED
        BY <1>1, <2>2, <3>1, <4>1
    <3>2. CASE ~(k <= q)
      <4>1. q + 1 <= k
        BY <2>2, <3>2
      <4>2. z * (q + 1) <= z * k /\ z * k = k * z /\ z * (q + 1) = z * q + z /\ z * k \in Nat /\ z * q \in Nat
        BY <2>1, <2>2, <4>1, TimesMore
      <4> QED
        BY <1>1, <2>1, <2>2, <3>2, <4>2
    <3> QED
      BY <3>1, <3>2
  <2>4. q <= L
    <3> HIDE DEF q, L, z
    <3>1. q * z = z * q /\ q * 1 = q
      BY <2>1, <2>2
    <3>2. q * 1 <= q * z
      BY <2>1, <2>2, TimesMore
    <3> QED
      BY <1>1, <2>1, <2>2, <3>1, <3>2
  <2>5. Step(f) = Max({1} \cup K)
    BY <1>4 DEF Step
  <2>6. Stride(f) = IF L > 0 THEN Max({1, q}) ELSE 1
    BY <1>4 DEF Stride
  <2> HIDE DEF q, L, z
  <2>7. Max({1, q}) = IF 1 >= q THEN 1 ELSE q
    BY <2>2, MaxPair
  <2>8. \A k : k \in K <=> k \in Nat /\ 1 <= k /\ k <= q
    BY <1>1, <2>2, <2>3, <2>4
  <2>9. CASE q >= 1
    <3>1. q \in {1} \cup K /\ \A x \in {1} \cup K : q >= x /\ x \in Int
      BY <2>2, <2>8, <2>9
    <3> HIDE DEF K
    <3>2. Max({1} \cup K) = q
      <4>1. \A x \in {1} \cup K : (\A y \in {1} \cup K : x >= y) => x = q
        BY <2>2, <3>1
      <4> QED
        BY <3>1, <4>1 DEF Max
    <3>3. L > 0
      BY <1>1, <2>2, <2>4, <2>9
    <3> QED
      BY <2>2, <2>5, <2>6, <2>7, <2>9, <3>2, <3>3
  <2>10. CASE ~(q >= 1)
    <3>1. K = {}
      BY <2>2, <2>8, <2>10
    <3>2. {1} \cup K = {1}
      BY <3>1
    <3>3. Max({1}) = 1
      BY DEF Max
    <3> QED
      BY <2>2, <2>5, <2>6, <2>7, <2>10, <3>2, <3>3
  <2> QED
    BY <2>9, <2>10
<1> QED
  BY <1>2, <1>3, <1>4

\* A sample is bounded by a number of rows.
Budgeted == load.size # None /\ load.stride = None

\* The rows that ReadChunk picks are those of the sample, and it counts them.
LEMMA PickedIs ==
  ASSUME LoadInv, NEW f \in Range(ToRead), seen \in Nat, kept \in Nat, NEW until \in Nat, seen <= until,
         Budgeted => kept = Min({load.size, Ceil(seen, Stride(f))}) /\ kept < load.size
  PROVE  LET s == Stride(f)
             P == {p \in seen..(until - 1) : p % s = 0 /\ (Budgeted => p < s * load.size)}
             picked == Picked(f, until)
         IN /\ Ascends(picked, P)
            /\ \A p \in P : \E i \in DOMAIN picked : picked[i] = p
            /\ Budgeted => kept + Len(picked) = Min({load.size, Ceil(until, s)})
<1> DEFINE s == Stride(f)
           S == {p \in seen..(until - 1) : p % s = 0}
           P == {p \in seen..(until - 1) : p % s = 0 /\ (Budgeted => p < s * load.size)}
           picked == Picked(f, until)
           c == Ceil(seen, s)
           d == Ceil(until, s)
           n == d - c
           g == [j \in 1..n |-> s * (c + j - 1)]
<1>1. s \in Nat \ {0}
  BY StepIsStride
<1> HIDE DEF s
<1>2. c \in Nat /\ d \in Nat /\ S = {s * m : m \in c..(d - 1)}
  BY <1>1, CeilFacts, Multiples
<1>3. n \in Nat
  <2>1. c <= d
    <3>1. CASE d < c
      <4>1. s * d < seen
        BY <1>1, <1>2, <3>1, CeilFacts
      <4>2. ~(s * d < until)
        BY <1>1, <1>2, CeilFacts
      <4>3. s * d \in Nat
        BY <1>1, <1>2
      <4> HIDE DEF d
      <4> QED
        BY <4>1, <4>2, <4>3
    <3> QED
      BY <1>2, <3>1
  <2> QED
    BY <1>2, <2>1
<1> HIDE DEF c, d, S
<1>4. \A j \in 1..n : c + j - 1 \in Nat /\ c + j - 1 \in c..(d - 1)
  BY <1>2, <1>3
<1>5. g \in [1..n -> S]
  BY <1>2, <1>4
<1>6. \A k, l \in 1..n : k < l => g[k] < g[l]
  <2> SUFFICES ASSUME NEW k \in 1..n, NEW l \in 1..n, k < l PROVE s * (c + k - 1) < s * (c + l - 1)
    OBVIOUS
  <2>1. (c + k - 1) \in Nat /\ (c + l - 1) \in Nat /\ (c + k - 1) + 1 <= c + l - 1
    BY <1>2, <1>4
  <2>2. s * ((c + k - 1) + 1) <= s * (c + l - 1) /\ s * ((c + k - 1) + 1) = s * (c + k - 1) + s
        /\ s * (c + k - 1) \in Nat /\ s * (c + l - 1) \in Nat
    BY <1>1, <2>1, TimesMore
  <2> QED
    BY <1>1, <2>2
<1>7. \A i \in S : \E k \in 1..n : g[k] = i
  <2> SUFFICES ASSUME NEW m \in c..(d - 1) PROVE \E k \in 1..n : g[k] = s * m
    BY <1>2
  <2>1. m - c + 1 \in 1..n /\ c + (m - c + 1) - 1 = m
    BY <1>2
  <2> QED
    BY <2>1
<1>8. S \in SUBSET Int
  BY DEF S
<1>9. InOrder(S) = g
  BY <1>3, <1>5, <1>6, <1>7, <1>8, InOrderIs
<1>10. /\ Ascends(g, S) /\ Len(g) = n /\ DOMAIN g = 1..n
       /\ \A k \in 1..n : g[k] = s * (c + k - 1)
  <2>1. g \in Seq(S) /\ Len(g) = n /\ DOMAIN g = 1..n /\ \A k \in 1..n : g[k] = s * (c + k - 1)
    BY <1>3, <1>5
  <2> HIDE DEF g, n
  <2> QED
    BY <1>6, <2>1 DEF Ascends
<1>11. picked = IF ~Budgeted THEN g ELSE SubSeq(g, 1, Min({Len(g), load.size - kept}))
  BY <1>9 DEF Picked, Budgeted, S, s
<1> HIDE DEF g, picked, n
<1>12. CASE ~Budgeted
  <2>1. P = S
    BY <1>12 DEF S
  <2> QED
    BY <1>7, <1>10, <1>11, <1>12, <2>1 DEF s, picked
<1>13. CASE Budgeted
  <2> DEFINE z == load.size
             w == Min({Len(g), z - kept})
  <2>1. z \in Nat \ {0}
    BY <1>13 DEF LoadInv, Bound, Budgeted
  <2> HIDE DEF z
  <2>2. kept = c /\ c < z
    <3>1. kept = Min({z, c}) /\ kept < z
      BY <1>13 DEF c, s, z
    <3>2. Min({z, c}) = IF z <= c THEN z ELSE c
      BY <1>2, <2>1, MinPair
    <3> QED
      BY <1>2, <2>1, <3>1, <3>2
  <2>3. w = (IF n <= z - c THEN n ELSE z - c) /\ w \in 0..Len(g) /\ w \in Nat
    <3>1. z - c \in Nat
      BY <1>2, <2>1, <2>2
    <3>2. Min({n, z - c}) = IF n <= z - c THEN n ELSE z - c
      BY <1>3, <3>1, MinPair
    <3> QED
      BY <1>3, <1>10, <2>2, <3>1, <3>2
  <2>4. picked = SubSeq(g, 1, w)
    BY <1>11, <1>13 DEF z
  <2> HIDE DEF w
  <2>5. Ascends(picked, S) /\ Len(picked) = w /\ \A k \in 1..w : picked[k] = g[k]
    BY <1>8, <1>10, <2>3, <2>4, PrefixAscends
  <2>6. picked \in Seq(S) /\ DOMAIN picked = 1..w
    BY <2>3, <2>5 DEF Ascends
  <2>7. \A m \in Nat : s * m < s * z <=> m < z
    <3> SUFFICES ASSUME NEW m \in Nat PROVE s * m < s * z <=> m < z
      OBVIOUS
    <3>1. CASE m < z
      <4>1. s * (m + 1) <= s * z /\ s * (m + 1) = s * m + s /\ s * m \in Nat /\ s * z \in Nat
        BY <1>1, <2>1, <3>1, TimesMore
      <4> QED
        BY <1>1, <3>1, <4>1
    <3>2. CASE ~(m < z)
      <4>1. s * z <= s * m /\ s * m \in Nat /\ s * z \in Nat
        BY <1>1, <2>1, <3>2, TimesMore
      <4> QED
        BY <3>2, <4>1
    <3> QED
      BY <3>1, <3>2
  <2>8. ASSUME NEW k \in 1..w PROVE picked[k] \in P
    <3>1. k \in 1..n /\ c + k - 1 \in Nat /\ c + k - 1 < z
      BY <1>2, <1>3, <1>10, <2>1, <2>2, <2>3
    <3>2. picked[k] = s * (c + k - 1) /\ picked[k] \in S
      BY <1>10, <2>5, <2>6, <3>1, Element
    <3>3. picked[k] < s * z
      BY <2>7, <3>1, <3>2
    <3> QED
      BY <3>2, <3>3 DEF S, z
  <2>9. picked = [k \in 1..w |-> picked[k]]
    BY <2>6
  <2>10. Ascends(picked, P)
    <3> HIDE DEF P
    <3> HIDE DEF picked
    <3>1. picked \in [1..w -> P]
      BY <2>8, <2>9
    <3>2. picked \in Seq(P)
      BY <2>3, <3>1
    <3> QED
      BY <2>5, <3>2 DEF Ascends
  <2>11. ASSUME NEW p \in P PROVE \E i \in DOMAIN picked : picked[i] = p
    <3>1. p \in S /\ p < s * z
      BY <1>13 DEF S, z
    <3>2. PICK k \in 1..n : g[k] = p
      BY <1>7, <3>1
    <3>3. p = s * (c + k - 1) /\ c + k - 1 \in Nat
      BY <1>4, <1>10, <3>2
    <3>4. c + k - 1 < z
      BY <2>7, <3>1, <3>3
    <3>5. k \in 1..w
      BY <1>2, <1>3, <2>1, <2>2, <2>3, <3>4
    <3> QED
      BY <2>5, <2>6, <3>2, <3>5
  <2>12. kept + Len(picked) = Min({z, d})
    <3>1. Min({z, d}) = IF z <= d THEN z ELSE d
      BY <1>2, <2>1, MinPair
    <3> QED
      BY <1>2, <2>1, <2>2, <2>3, <2>5, <3>1 DEF n
  <2> QED
    BY <2>10, <2>11, <2>12 DEF z, s, picked, d
<1> QED
  BY <1>12, <1>13

\* A limit of 0 is kept after a row, and tested again when a file has ended.
Stopped == load.limit = 0 /\ Loader.cut = "always" /\ file > 0 /\ pc # "chunk"

Placed ==
  /\ file \in 0..Len(ToRead) /\ seen \in Nat /\ kept \in Nat
  /\ pc = "chunk" => file > 0 /\ seen <= Length(At)

\* The budget that has been used is what its share of the rows read takes.
KeptInv ==
  pc = "chunk" /\ Loader.sample = "stride" /\ Budgeted =>
    kept = Min({load.size, Ceil(seen, Stride(At))})

\* A file that is not read in chunks is read at once.
EmptyInv == pc = "chunk" /\ Loader.sample # "stride" => seen = 0

\* The files are all read, or the limit is reached.
SortInv ==
  pc = "sort" /\ (load.limit # 0 \/ Cap = None) =>
    \/ file = Len(ToRead)
    \/ Cap # None /\ Loader.cut # "spread" /\ Len(loaded) >= Cap

\* What is true of a load while it reads, timed or not
Underway ==
  pc \in {"next", "chunk", "sort"} =>
    /\ Placed /\ Gathered /\ KeptInv /\ EmptyInv /\ SortInv
    /\ ~Stopped => AllDue \/ Full

LEMMA AtIs ==
  ASSUME LoadInv, file \in 1..Len(ToRead)
  PROVE  At \in Range(ToRead) /\ FilePlace(At) = file /\ Length(At) \in Nat
<1>1. file \in DOMAIN ToRead
  BY FilePlaces
<1>2. ToRead[file] \in Range(ToRead) /\ FilePlace(ToRead[file]) = file /\ ToRead[file] \in DOMAIN load.files
  BY <1>1, FilePlaces
<1> QED
  BY <1>2, FileFacts DEF At

\* A row of a file that is read is at its place.
LEMMA SampledAt ==
  ASSUME LoadInv, file \in 1..Len(ToRead), NEW r \in Sampled
  PROVE  /\ r = <<r[1], r[2]>> /\ FilePlace(r[1]) \in Nat /\ FilePlace(r[1]) > 0
         /\ r[2] \in Nat /\ (FilePlace(r[1]) = file <=> r[1] = At)
         /\ r[1] = At => r[2] \in 0..(Length(At) - 1) /\ InSample(At, r[2])
<1>1. r \in FileRows
  BY SampledRows
<1>2. r[1] \in Range(ToRead) /\ r = <<r[1], r[2]>> /\ r[2] \in Nat /\ FilePlace(r[1]) \in Nat
  BY <1>1, RowsOfFiles
<1>3. FilePlace(r[1]) \in 1..Len(ToRead) /\ ToRead[FilePlace(r[1])] = r[1]
  BY <1>2, FilePlaces
<1>4. FilePlace(r[1]) = file <=> r[1] = At
  BY <1>3, AtIs DEF At
<1>5. r[2] \in 0..(Length(r[1]) - 1) /\ InSample(r[1], r[2])
  BY <1>2, SampledRows
<1> QED
  BY <1>2, <1>3, <1>4, <1>5

LEMMA GoesOn ==
  ASSUME LoadInv, pc = "chunk", file \in 1..Len(ToRead), seen \in Nat,
         NEW until \in Nat, seen <= until, until <= Length(At),
         Loader.orders # "file" \/ (seen = 0 /\ until = Length(At)),
         NEW P, P = {p \in seen..(until - 1) : InSample(At, p)}, NEW picked, picked \in Seq(P),
         \A p \in P : \E i \in DOMAIN picked : picked[i] = p,
         \A i, j \in DOMAIN picked : i < j => Earlier(<<At, picked[i]>>, <<At, picked[j]>>)
  PROVE  Continues(At, picked, P)
<1>1. At \in Range(ToRead) /\ FilePlace(At) = file /\ Length(At) \in Nat
  BY AtIs
<1>2. \A p \in P : p \in Nat /\ p \in seen..(until - 1) /\ p \in 0..(Length(At) - 1) /\ <<At, p>> \in Sampled
  <2> SUFFICES ASSUME NEW p \in P
               PROVE  p \in Nat /\ p \in seen..(until - 1) /\ p \in 0..(Length(At) - 1) /\ <<At, p>> \in Sampled
    OBVIOUS
  <2>1. p \in seen..(until - 1) /\ InSample(At, p)
    OBVIOUS
  <2>2. p \in 0..(Length(At) - 1) /\ p \in Nat
    BY <1>1, <2>1
  <2> QED
    BY <1>1, <2>1, <2>2, SampledRows
<1>3. ASSUME NEW r \in Visited, NEW p \in P PROVE Earlier(r, <<At, p>>)
  <2>1. r \in Sampled /\ (FilePlace(r[1]) < file \/ (FilePlace(r[1]) = file /\ r[2] < seen))
    BY DEF Visited
  <2>2. r[2] \in Nat /\ (FilePlace(r[1]) = file <=> r[1] = At)
    BY <2>1, SampledAt
  <2>3. CASE FilePlace(r[1]) < file
    BY <1>1, <2>3 DEF Earlier
  <2>4. CASE FilePlace(r[1]) = file /\ r[2] < seen
    <3>1. Loader.orders # "file" /\ r[2] < p
      BY <1>2, <2>2, <2>4
    <3> QED
      BY <2>2, <2>4, <3>1 DEF Earlier
  <2> QED
    BY <2>1, <2>3, <2>4
<1>4. ASSUME NEW r \in Sampled, NEW p \in P, Earlier(r, <<At, p>>)
      PROVE  r \in Visited \/ \E q \in P : r = <<At, q>>
  <2>1. /\ r = <<r[1], r[2]>> /\ r[2] \in Nat
        /\ r[1] = At => r[2] \in 0..(Length(At) - 1) /\ InSample(At, r[2])
        /\ FilePlace(r[1]) = file <=> r[1] = At
    BY SampledAt
  <2>2. \/ FilePlace(r[1]) < file
        \/ r[1] = At /\ (Loader.orders # "file" => r[2] < p)
    BY <1>1, <1>4 DEF Earlier
  <2>3. CASE FilePlace(r[1]) < file
    BY <2>3 DEF Visited
  <2>4. CASE r[1] = At /\ (Loader.orders # "file" => r[2] < p)
    <3>1. CASE r[2] < seen
      BY <2>1, <2>4, <3>1 DEF Visited
    <3>2. CASE ~(r[2] < seen)
      <4>1. r[2] < until
        BY <1>1, <1>2, <2>1, <2>4
      <4>2. r[2] \in P
        BY <2>1, <2>4, <3>2, <4>1
      <4> QED
        BY <2>1, <2>4, <4>2
    <3> QED
      BY <3>1, <3>2
  <2> QED
    BY <2>2, <2>3, <2>4
<1>5. P \subseteq Nat
  BY <1>2
<1> QED
  BY <1>2, <1>3, <1>4, <1>5 DEF Continues

LEMMA VisitedGrows ==
  ASSUME LoadInv, pc = "chunk", file \in 1..Len(ToRead), seen \in Nat,
         NEW until \in Nat, seen <= until, until <= Length(At),
         NEW P, P = {p \in seen..(until - 1) : InSample(At, p)},
         load' = load, file' = file,
         (pc' = "chunk" /\ seen' = until) \/ (pc' = "next" /\ until = Length(At))
  PROVE  Visited' = Visited \cup {<<At, p>> : p \in P}
<1>1. Sampled' = Sampled /\ (\A f : FilePlace(f)' = FilePlace(f))
  BY SampleStays
<1>2. Visited' = {r \in Sampled : \/ FilePlace(r[1]) < file
                                  \/ FilePlace(r[1]) = file /\ (pc' = "chunk" => r[2] < seen')}
  BY <1>1 DEF Visited
<1>3. Visited = {r \in Sampled : FilePlace(r[1]) < file \/ (FilePlace(r[1]) = file /\ r[2] < seen)}
  BY DEF Visited
<1>4. At \in Range(ToRead) /\ FilePlace(At) = file /\ Length(At) \in Nat
  BY AtIs
<1>5. ASSUME NEW r \in Sampled
      PROVE  r \in Visited' <=> r \in Visited \/ \E p \in P : r = <<At, p>>
  <2>1. /\ r = <<r[1], r[2]>> /\ r[2] \in Nat /\ FilePlace(r[1]) \in Nat
        /\ r[1] = At => r[2] \in 0..(Length(At) - 1) /\ InSample(At, r[2])
        /\ FilePlace(r[1]) = file <=> r[1] = At
    BY SampledAt
  <2>2. CASE r[1] # At
    <3>1. ~ \E p \in P : r = <<At, p>>
      BY <2>2
    <3> QED
      BY <1>2, <1>3, <2>1, <2>2, <3>1
  <2>3. CASE r[1] = At
    <3>1. r \in Visited' <=> r[2] < until
      BY <1>2, <1>4, <2>1, <2>3
    <3>2. r \in Visited <=> r[2] < seen
      BY <1>3, <1>4, <2>1, <2>3
    <3>3. (\E p \in P : r = <<At, p>>) <=> r[2] \in P
      BY <2>1, <2>3
    <3>4. r[2] \in P <=> seen <= r[2] /\ r[2] < until
      BY <2>1, <2>3
    <3> QED
      BY <2>1, <3>1, <3>2, <3>3, <3>4
  <2> QED
    BY <2>2, <2>3
<1>6. \A p \in P : <<At, p>> \in Sampled
  <2> SUFFICES ASSUME NEW p \in P PROVE <<At, p>> \in Sampled
    OBVIOUS
  <2>1. p \in 0..(Length(At) - 1) /\ InSample(At, p)
    BY <1>4
  <2> QED
    BY <1>4, <2>1, SampledRows
<1>7. Visited' \subseteq Sampled /\ Visited \subseteq Sampled
  BY <1>2, <1>3
<1> QED
  BY <1>5, <1>6, <1>7

LEMMA InStride ==
  ASSUME LoadInv, Loader.sample = "stride", NEW f \in Range(ToRead), NEW p
  PROVE  InSample(f, p) <=> p % Stride(f) = 0 /\ (Budgeted => p < Stride(f) * load.size)
BY StepIsStride DEF InSample, Budgeted

LEMMA StrideKinds ==
  ASSUME LoadInv, Loader.sample = "stride"
  PROVE  /\ Loader.orders = "load" /\ Loader.cut \in {"always", "before"} /\ ~Loader.unique
         /\ load.limit = 0 => Cap = IF Loader.cut = "always" THEN 1 ELSE 0
         /\ load.limit # 0 => Cap = load.limit
<1>1. Loader.orders = "load" /\ Loader.cut \in {"always", "before"} /\ ~Loader.unique
  BY LoaderKinds DEF LoadInv, Kinds
<1>2. load.name \notin {"dohbrw2020", "dnsexf2021"}
  <2>1. Loaders["dohbrw2020"].sample = "head" /\ Loaders["dnsexf2021"].sample = "head"
    BY DEF Loaders, DohBrw2020, DnsExf2021
  <2> QED
    BY <2>1 DEF Loader
<1> QED
  BY <1>1, <1>2 DEF Cap

LEMMA ReadChunkSample ==
  ASSUME LoadInv, Underway, ReadChunk
  PROVE  Underway'
<1> DEFINE until == Min({seen + Chunk, Length(At)})
           picked == Picked(At, until)
           s == Stride(At)
           P == {p \in seen..(until - 1) : InSample(At, p)}
<1>1. /\ pc = "chunk" /\ pc' = pc /\ load' = load /\ file' = file /\ seen' = until
      /\ kept' = kept + Len(picked) /\ Loader.sample = "stride" /\ seen < Length(At)
      /\ ~(load.stride = None /\ load.size # None /\ kept >= load.size)
      /\ Take(At, picked)
  BY DEF ReadChunk
<1>2. /\ Placed /\ Gathered /\ KeptInv /\ (AllDue \/ Full)
      /\ file \in 1..Len(ToRead) /\ seen \in Nat /\ kept \in Nat
  <2>1. Placed /\ Gathered /\ KeptInv /\ (AllDue \/ Full)
    BY <1>1 DEF Underway, Stopped
  <2> QED
    BY <1>1, <2>1, FilePlaces DEF Placed
<1>3. At \in Range(ToRead) /\ FilePlace(At) = file /\ Length(At) \in Nat
  BY <1>2, AtIs
<1>4. until \in Nat /\ seen <= until /\ until <= Length(At)
  <2>1. Chunk \in Nat \ {0}
    BY LoaderAssumption
  <2>2. Min({seen + Chunk, Length(At)}) = IF seen + Chunk <= Length(At) THEN seen + Chunk ELSE Length(At)
    BY <1>2, <1>3, <2>1, MinPair
  <2> QED
    BY <1>1, <1>2, <1>3, <2>1, <2>2
<1> HIDE DEF until
<1>5. s \in Nat \ {0}
  BY <1>3, StepIsStride
<1>6. Loader.orders = "load" /\ Loader.sample = "stride"
  BY <1>1, StrideKinds
<1>7. P = {p \in seen..(until - 1) : p % s = 0 /\ (Budgeted => p < s * load.size)}
  BY <1>1, <1>3, InStride
<1>8. Budgeted => kept = Min({load.size, Ceil(seen, s)}) /\ kept < load.size
  <2> SUFFICES ASSUME Budgeted PROVE kept = Min({load.size, Ceil(seen, s)}) /\ kept < load.size
    OBVIOUS
  <2>1. kept = Min({load.size, Ceil(seen, s)})
    BY <1>1, <1>2 DEF KeptInv
  <2>2. ~(kept >= load.size) /\ load.size \in Nat
    BY <1>1 DEF Budgeted, LoadInv, Bound
  <2> HIDE DEF s
  <2> QED
    BY <1>2, <2>1, <2>2
<1>9. /\ Ascends(picked, P)
      /\ \A p \in P : \E i \in DOMAIN picked : picked[i] = p
      /\ Budgeted => kept + Len(picked) = Min({load.size, Ceil(until, s)})
  BY <1>2, <1>3, <1>4, <1>7, <1>8, PickedIs
<1> HIDE DEF picked
<1>10. ASSUME NEW i \in DOMAIN picked, NEW j \in DOMAIN picked, i < j
       PROVE  Earlier(<<At, picked[i]>>, <<At, picked[j]>>)
  <2>1. picked[i] < picked[j]
    BY <1>9, <1>10 DEF Ascends
  <2> QED
    BY <1>6, <2>1 DEF Earlier
<1>11. picked \in Seq(P) /\ Len(picked) \in Nat
  BY <1>9 DEF Ascends
<1> HIDE DEF P
<1>12. Continues(At, picked, P)
  BY <1>1, <1>2, <1>4, <1>6, <1>9, <1>10, <1>11, GoesOn DEF P
<1>13. Visited' = Visited \cup {<<At, p>> : p \in P}
  BY <1>1, <1>2, <1>4, VisitedGrows DEF P
<1>14. Gathered' /\ (AllDue' \/ Full')
  BY <1>1, <1>2, <1>3, <1>12, <1>13, TakeDue
<1>15. Loader' = Loader /\ ToRead' = ToRead /\ At' = At /\ Stride(At)' = s /\ Length(At)' = Length(At) /\ Budgeted' = Budgeted
  <2>1. Loader' = Loader /\ ToRead' = ToRead /\ (\A f : Length(f)' = Length(f))
    BY <1>1, LoadStays
  <2>2. At' = At
    BY <1>1, <2>1 DEF At
  <2>3. Stride(At)' = Stride(At) /\ Length(At)' = Length(At)
    BY <1>1, <2>2 DEF Stride, Length
  <2> QED
    BY <1>1, <2>1, <2>2, <2>3 DEF Budgeted
<1>16. Placed'
  BY <1>1, <1>2, <1>4, <1>11, <1>15 DEF Placed
<1>17. KeptInv'
  <2> SUFFICES ASSUME Budgeted PROVE kept' = Min({load.size, Ceil(until, s)})
    BY <1>1, <1>15 DEF KeptInv, Ceil
  <2> QED
    BY <1>1, <1>9
<1>18. EmptyInv' /\ SortInv'
  BY <1>1, <1>15 DEF EmptyInv, SortInv
<1> QED
  BY <1>14, <1>16, <1>17, <1>18 DEF Underway

\* A step that takes no row, and looks at none.
LEMMA GatheredStays ==
  ASSUME load' = load, loaded' = loaded, dropped' = dropped, Visited' = Visited
  PROVE  Gathered' = Gathered /\ AllDue' = AllDue /\ Full' = Full
<1>1. /\ Cap' = Cap /\ Loader' = Loader /\ LoadedRows' = LoadedRows /\ Due' = Due
      /\ \A r, q : Earlier(r, q)' = Earlier(r, q)
  BY LoadStays, SampleStays
<1>2. Returned' = Returned
  BY DEF Returned
<1>3. RoomInv' = RoomInv /\ Full' = Full
  BY <1>1 DEF RoomInv, Full
<1>4. InEarlierOrder' = InEarlierOrder
  BY <1>1 DEF InEarlierOrder, PlaceOf
<1>5. OnlyDue' = OnlyDue /\ AllDue' = AllDue /\ FirstDue' = FirstDue
  BY <1>1, <1>2 DEF OnlyDue, AllDue, FirstDue
<1>6. CountInv' = CountInv
  <2>1. Told(Visited)' = Told(Visited)
    BY TellsStays DEF Told
  <2> QED
    BY <1>1, <2>1 DEF CountInv
<1> QED
  BY <1>1, <1>3, <1>4, <1>5, <1>6 DEF Gathered

LEMMA VisitedIs ==
  ASSUME LoadInv, file \in Nat, load' = load, seen \in Nat,
         \/ file' = file /\ pc # "chunk" /\ pc' # "chunk"
         \/ file' = file + 1 /\ pc # "chunk" /\ pc' = "chunk" /\ seen' = 0
  PROVE  Visited' = Visited
<1>1. Sampled' = Sampled /\ (\A f : FilePlace(f)' = FilePlace(f))
  BY SampleStays
<1>2. \A r \in Sampled : FilePlace(r[1]) \in Nat /\ r[2] \in Nat
  BY SampledRows, RowsOfFiles
<1>3. Visited' = {r \in Sampled : \/ FilePlace(r[1]) < file'
                                  \/ FilePlace(r[1]) = file' /\ (pc' = "chunk" => r[2] < seen')}
  BY <1>1 DEF Visited
<1>4. Visited = {r \in Sampled : FilePlace(r[1]) < file \/ FilePlace(r[1]) = file}
  BY DEF Visited
<1> QED
  BY <1>2, <1>3, <1>4

LEMMA CeilOfNone ==
  ASSUME NEW s \in Nat \ {0}
  PROVE  Ceil(0, s) = 0
<1>1. Ceil(0, s) \in Nat /\ \A m \in Nat : s * m < 0 <=> m < Ceil(0, s)
  BY CeilFacts
<1>2. ~(s * 0 < 0)
  OBVIOUS
<1>3. ~(0 < Ceil(0, s))
  BY <1>1, <1>2
<1> QED
  BY <1>1, <1>3

LEMMA CapOfNone ==
  ASSUME LoadInv, Reached
  PROVE  /\ Cap # None /\ Loader.cut # "spread" /\ load.limit # None
         /\ load.limit # 0 => Len(loaded) >= Cap
<1>1. load.limit # None /\ Loader.cut \in {"always", "before", "row", "end"}
  BY DEF Reached
<1>2. Loader.cut \in {"row", "end"} => Cap # None /\ Len(loaded) >= Cap
  BY DEF Reached
<1>3. Loader.cut \in {"always", "before"} => load.name \notin {"dohbrw2020", "dnsexf2021"}
  <2>1. Loaders["dohbrw2020"].cut = "end" /\ Loaders["dnsexf2021"].cut = "row"
    BY DEF Loaders, DohBrw2020, DnsExf2021
  <2> QED
    BY <2>1 DEF Loader
<1>4. Loader.cut \in {"always", "before"} => Cap # None /\ (load.limit # 0 => Cap = load.limit)
  BY <1>1, <1>3, LoaderAssumption DEF Cap
<1>5. Loader.cut \in {"always", "before"} => Len(loaded) >= load.limit
  BY DEF Reached
<1> QED
  BY <1>1, <1>2, <1>4, <1>5

LEMMA OpenSample ==
  ASSUME LoadInv, Underway, Open
  PROVE  Underway'
<1>1. pc = "next" /\ load' = load /\ loaded' = loaded /\ dropped' = dropped
  BY DEF Open, gathered
<1>2. Placed /\ Gathered /\ (~Stopped => AllDue \/ Full)
  BY <1>1 DEF Underway
<1>3. /\ Loader' = Loader /\ ToRead' = ToRead /\ Cap' = Cap /\ Len(ToRead) \in Nat
      /\ file \in 0..Len(ToRead) /\ file \in Nat /\ seen \in Nat /\ kept \in Nat
  BY <1>1, <1>2, LoadStays, FilePlaces DEF Placed
<1>4. CASE (file >= Len(ToRead) \/ Reached) /\ pc' = "sort" /\ file' = file /\ seen' = seen /\ kept' = kept
  <2>1. Visited' = Visited
    BY <1>1, <1>3, <1>4, VisitedIs
  <2>2. Gathered' /\ (AllDue' = AllDue) /\ (Full' = Full)
    BY <1>1, <1>2, <2>1, GatheredStays
  <2>3. Stopped' = Stopped
    BY <1>1, <1>3, <1>4 DEF Stopped
  <2>4. SortInv'
    <3>1. CASE file >= Len(ToRead)
      BY <1>3, <1>4, <3>1 DEF SortInv
    <3>2. CASE Reached
      BY <1>1, <1>3, <3>2, CapOfNone DEF SortInv
    <3> QED
      BY <1>4, <3>1, <3>2
  <2>5. Placed' /\ KeptInv' /\ EmptyInv'
    BY <1>3, <1>4 DEF Placed, KeptInv, EmptyInv
  <2> QED
    BY <1>2, <2>2, <2>3, <2>4, <2>5 DEF Underway
<1>5. CASE /\ ~(file >= Len(ToRead) \/ Reached) /\ file' = file + 1 /\ seen' = 0 /\ kept' = 0
           /\ pc' = "chunk"
  <2>1. Visited' = Visited
    BY <1>1, <1>3, <1>5, VisitedIs
  <2>2. Gathered' /\ (AllDue' = AllDue) /\ (Full' = Full)
    BY <1>1, <1>2, <2>1, GatheredStays
  <2>3. ~Stopped
    <3>1. ASSUME Stopped PROVE Reached
      <4>1. load.limit = 0 /\ Loader.cut = "always" /\ file > 0
        BY <3>1 DEF Stopped
      <4>2. Len(loaded) >= 0
        <5>1. loaded \in Seq(LoadedRows)
          BY <1>2 DEF Gathered
        <5> QED
          BY <5>1
      <4>3. load.limit # None
        BY <4>1, LoaderAssumption
      <4> QED
        BY <1>1, <4>1, <4>2, <4>3 DEF Reached
    <3> QED
      BY <1>5, <3>1
  <2>4. At' \in Range(ToRead) /\ Length(At') \in Nat
    <3>1. file' \in DOMAIN ToRead
      BY <1>3, <1>5, FilePlaces
    <3>2. At' = ToRead[file']
      BY <1>3 DEF At
    <3> QED
      BY <3>1, <3>2, FilePlaces, FileFacts
  <2>5. Placed'
    <3>1. Length(At)' = Length(At')
      BY <1>1 DEF Length
    <3>2. file' \in 0..Len(ToRead) /\ file' > 0
      BY <1>3, <1>5
    <3> QED
      BY <1>3, <1>5, <2>4, <3>1, <3>2 DEF Placed
  <2>6. KeptInv'
    <3> SUFFICES ASSUME Budgeted PROVE kept' = Min({load.size, Ceil(seen', Stride(At'))})
      <4>1. Stride(At)' = Stride(At') /\ Budgeted' = Budgeted
        BY <1>1 DEF Stride, Length, Budgeted
      <4> QED
        BY <1>1, <4>1 DEF KeptInv, Ceil
    <3>1. Stride(At') \in Nat \ {0}
      BY <2>4, StepIsStride
    <3>2. Ceil(seen', Stride(At')) = 0
      BY <1>5, <3>1, CeilOfNone
    <3>3. load.size \in Nat
      BY DEF Budgeted, LoadInv, Bound
    <3>4. Min({load.size, 0}) = 0
      BY <3>3, MinPair
    <3> QED
      BY <1>5, <3>2, <3>4
  <2>7. EmptyInv' /\ SortInv'
    BY <1>5 DEF EmptyInv, SortInv
  <2> QED
    BY <1>2, <2>2, <2>3, <2>5, <2>6, <2>7 DEF Underway
<1>6. CASE pc' = "raised"
  BY <1>6 DEF Underway
<1> QED
  BY <1>4, <1>5, <1>6 DEF Open

\* A budget that is used up has reached the last row of the sample.
LEMMA BudgetUsed ==
  ASSUME LoadInv, Placed, KeptInv, pc = "chunk", Loader.sample = "stride", Budgeted, kept >= load.size,
         NEW r \in Sampled, r[1] = At
  PROVE  r[2] < seen
<1> DEFINE s == Stride(At)
           z == load.size
           p == r[2]
           c == Ceil(seen, s)
<1>1. file \in 1..Len(ToRead) /\ seen \in Nat
  BY FilePlaces DEF Placed
<1>2. At \in Range(ToRead) /\ p \in Nat /\ InSample(At, p)
  BY <1>1, AtIs, SampledAt
<1>3. s \in Nat \ {0} /\ z \in Nat
  BY <1>2, StepIsStride DEF Budgeted, LoadInv, Bound
<1>4. p % s = 0 /\ p < s * z
  BY <1>2, InStride
<1>5. kept = Min({z, c})
  BY DEF KeptInv
<1> HIDE DEF s, z, p, c
<1>6. c \in Nat /\ \A m \in Nat : s * m < seen <=> m < c
  BY <1>1, <1>3, CeilFacts DEF c
<1>7. z <= c
  <2>1. Min({z, c}) = IF z <= c THEN z ELSE c
    BY <1>3, <1>6, MinPair
  <2>2. kept >= z
    BY DEF z
  <2> QED
    BY <1>3, <1>5, <1>6, <2>1, <2>2
<1>8. PICK m \in Nat : p = s * m
  BY <1>2, <1>3, <1>4, MultipleOf
<1>9. m < z
  <2>1. ASSUME z <= m PROVE FALSE
    <3>1. s * z <= s * m /\ s * z \in Nat /\ s * m \in Nat
      BY <1>3, <2>1, TimesMore
    <3> QED
      BY <1>4, <1>8, <3>1
  <2> QED
    BY <1>3, <2>1
<1>10. s * m < seen
  BY <1>3, <1>6, <1>7, <1>9
<1> QED
  BY <1>8, <1>10 DEF p

LEMMA EndOfFileSample ==
  ASSUME LoadInv, Underway, EndOfFile
  PROVE  Underway'
<1>1. /\ pc = "chunk" /\ pc' = "next" /\ Loader.sample = "stride" /\ load' = load
      /\ loaded' = loaded /\ dropped' = dropped /\ file' = file /\ seen' = seen /\ kept' = kept
      /\ \/ seen = Length(At)
         \/ load.stride = None /\ load.size # None /\ kept >= load.size
         \/ Reached
  BY DEF EndOfFile, gathered
<1>2. /\ Placed /\ Gathered /\ KeptInv /\ (AllDue \/ Full)
      /\ file \in 1..Len(ToRead) /\ seen \in Nat /\ kept \in Nat
  <2>1. Placed /\ Gathered /\ KeptInv /\ (AllDue \/ Full)
    BY <1>1 DEF Underway, Stopped
  <2> QED
    BY <1>1, <2>1, FilePlaces DEF Placed
<1>3. At \in Range(ToRead) /\ FilePlace(At) = file /\ Length(At) \in Nat
  BY <1>2, AtIs
<1>4. /\ Cap' = Cap /\ Loader' = Loader /\ ToRead' = ToRead /\ LoadedRows' = LoadedRows /\ Due' = Due
      /\ Sampled' = Sampled
      /\ \A r, q : Earlier(r, q)' = Earlier(r, q)
      /\ \A f : FilePlace(f)' = FilePlace(f)
  BY <1>1, LoadStays, SampleStays
<1>5. Visited' = {r \in Sampled : FilePlace(r[1]) < file \/ FilePlace(r[1]) = file}
  BY <1>1, <1>4 DEF Visited
<1>6. Visited = {r \in Sampled : FilePlace(r[1]) < file \/ (FilePlace(r[1]) = file /\ r[2] < seen)}
  BY <1>1 DEF Visited
<1>7. Placed' /\ KeptInv' /\ EmptyInv' /\ SortInv'
  BY <1>1, <1>2, <1>4 DEF Placed, KeptInv, EmptyInv, SortInv
<1>8. CASE seen = Length(At) \/ (Budgeted /\ kept >= load.size)
  <2>1. ASSUME NEW r \in Sampled, FilePlace(r[1]) = file PROVE r[2] < seen
    <3>1. r[1] = At /\ r[2] \in 0..(Length(At) - 1)
      BY <1>2, <2>1, SampledAt
    <3>2. CASE seen = Length(At)
      BY <1>3, <3>1, <3>2
    <3>3. CASE Budgeted /\ kept >= load.size
      BY <1>1, <1>2, <3>1, <3>3, BudgetUsed
    <3> QED
      BY <1>8, <3>2, <3>3
  <2>2. Visited' = Visited
    BY <1>5, <1>6, <2>1
  <2> QED
    BY <1>1, <1>2, <1>7, <2>2, GatheredStays DEF Underway
<1>9. CASE Reached
  <2>1. Cap # None /\ load.limit # None /\ (load.limit # 0 => Len(loaded) >= Cap)
    BY <1>9, CapOfNone
  <2>2. Visited \subseteq Visited'
    BY <1>5, <1>6
  <2>3. RoomInv' /\ InEarlierOrder' /\ FirstDue' /\ loaded' \in Seq(LoadedRows)' /\ dropped' \in [unmapped : Nat, header : Nat]
    <3>1. RoomInv /\ InEarlierOrder /\ FirstDue /\ loaded \in Seq(LoadedRows) /\ dropped \in [unmapped : Nat, header : Nat]
      BY <1>2 DEF Gathered
    <3>2. RoomInv'
      BY <1>1, <1>4, <3>1 DEF RoomInv
    <3>3. InEarlierOrder'
      BY <1>1, <1>4, <3>1 DEF InEarlierOrder, PlaceOf
    <3>4. FirstDue'
      BY <1>1, <1>4, <3>1 DEF FirstDue, Returned
    <3> QED
      BY <1>1, <1>4, <3>1, <3>2, <3>3, <3>4
  <2>4. OnlyDue'
    <3>1. OnlyDue
      BY <1>2 DEF Gathered
    <3>2. Returned' = Returned
      BY <1>1 DEF Returned
    <3> QED
      BY <1>4, <2>2, <3>1, <3>2 DEF OnlyDue
  <2>5. CountInv'
    BY <1>4, <2>1 DEF CountInv
  <2>6. Gathered'
    BY <2>3, <2>4, <2>5 DEF Gathered
  <2>7. ~Stopped' => Full'
    <3>1. Loader.cut \in {"always", "before"} /\ (load.limit = 0 => Cap = IF Loader.cut = "always" THEN 1 ELSE 0)
      BY <1>1, StrideKinds
    <3>2. Len(loaded) \in Nat /\ Len(loaded) <= Cap /\ Cap \in Nat
      <4>1. loaded \in Seq(LoadedRows) /\ RoomInv
        BY <1>2 DEF Gathered
      <4> QED
        BY <2>1, <3>1, <4>1, CapType DEF RoomInv
    <3>3. CASE load.limit # 0
      BY <1>1, <1>4, <2>1, <3>1, <3>2, <3>3 DEF Full
    <3>4. CASE load.limit = 0 /\ Loader.cut = "before"
      BY <1>1, <1>4, <2>1, <3>1, <3>2, <3>4 DEF Full
    <3>5. CASE load.limit = 0 /\ Loader.cut = "always"
      BY <1>1, <1>2, <1>4, <3>5 DEF Stopped
    <3> QED
      BY <3>1, <3>3, <3>4, <3>5
  <2> QED
    BY <1>7, <2>6, <2>7 DEF Underway
<1> QED
  BY <1>1, <1>8, <1>9 DEF Budgeted

LEMMA InitSample ==
  ASSUME LoadersInit, LoadInv
  PROVE  Underway
<1>1. /\ pc = "next" /\ file = 0 /\ seen = 0 /\ kept = 0 /\ loaded = <<>>
      /\ dropped = [unmapped |-> 0, header |-> 0]
  BY DEF LoadersInit
<1>2. Visited = {}
  <2>1. \A r \in Sampled : FilePlace(r[1]) \in 1..Len(ToRead)
    BY SampledRows, RowsOfFiles, FilePlaces
  <2> QED
    BY <1>1, <2>1, FilePlaces DEF Visited
<1>3. DOMAIN loaded = {} /\ Len(loaded) = 0 /\ loaded \in Seq(LoadedRows)
  BY <1>1
<1>4. Returned = {}
  BY <1>3, ReturnedIs
<1>5. RoomInv
  BY <1>3, CapType DEF RoomInv
<1>6. CountInv
  <2>1. Cardinality(Told(Visited)) = 0
    BY <1>2, FS_EmptySet DEF Told
  <2> QED
    BY <1>1, <1>3, <2>1 DEF CountInv
<1>7. InEarlierOrder /\ OnlyDue /\ AllDue /\ FirstDue
  BY <1>2, <1>3, <1>4 DEF InEarlierOrder, OnlyDue, AllDue, FirstDue
<1>8. Gathered
  BY <1>1, <1>3, <1>5, <1>6, <1>7 DEF Gathered
<1>9. Placed /\ KeptInv /\ EmptyInv /\ SortInv
  BY <1>1, FilePlaces DEF Placed, KeptInv, EmptyInv, SortInv
<1> QED
  BY <1>7, <1>8, <1>9 DEF Underway

\* The rows that a sample from the head reads of a file
LEMMA HeadIs ==
  ASSUME LoadInv, NEW f \in Range(ToRead), Loader.sample \in {"head", "none"}
  PROVE  /\ ReadOf(f) \in Nat /\ ReadOf(f) <= Length(f)
         /\ \A p : p \in 0..(ReadOf(f) - 1) <=> p \in 0..(Length(f) - 1) /\ InSample(f, p)
<1>1. Length(f) \in Nat
  BY FilePlaces, FileFacts
<1>2. CASE load.size = None \/ Loader.sample = "none"
  <2>1. ReadOf(f) = Length(f)
    BY <1>2 DEF ReadOf
  <2>2. \A p : InSample(f, p)
    BY <1>2 DEF InSample
  <2> QED
    BY <1>1, <2>1, <2>2
<1>3. CASE load.size # None /\ Loader.sample = "head"
  <2>1. load.size \in Nat
    BY <1>3 DEF LoadInv, Bound
  <2>2. ReadOf(f) = IF load.size <= Length(f) THEN load.size ELSE Length(f)
    BY <1>1, <1>3, <2>1, MinPair DEF ReadOf
  <2>3. \A p : InSample(f, p) <=> p < load.size
    BY <1>3 DEF InSample
  <2> QED
    BY <1>1, <2>1, <2>2, <2>3
<1> QED
  BY <1>2, <1>3

\* A sequence that has every row of a set, each after those before it.
RunsThrough(f, picked, P) ==
  /\ picked \in Seq(P)
  /\ \A p \in P : \E i \in DOMAIN picked : picked[i] = p
  /\ \A i, j \in DOMAIN picked : i < j => Earlier(<<f, picked[i]>>, <<f, picked[j]>>)

LEMMA FromNought ==
  ASSUME NEW n \in Nat
  PROVE  LET t == [i \in 1..n |-> i - 1]
             P == 0..(n - 1)
         IN /\ t \in Seq(P) /\ DOMAIN t = 1..n
            /\ \A p \in P : \E i \in DOMAIN t : t[i] = p
            /\ \A i, j \in DOMAIN t : i < j => t[i] < t[j]
<1> DEFINE t == [i \in 1..n |-> i - 1]
           P == 0..(n - 1)
<1>1. t \in Seq(P) /\ DOMAIN t = 1..n
  OBVIOUS
<1>2. ASSUME NEW p \in P PROVE \E i \in DOMAIN t : t[i] = p
  <2>1. p + 1 \in DOMAIN t /\ t[p + 1] = p
    OBVIOUS
  <2> QED
    BY <2>1
<1>3. \A i, j \in DOMAIN t : i < j => t[i] < t[j]
  OBVIOUS
<1> QED
  BY <1>1, <1>2, <1>3

LEMMA EvenRuns ==
  ASSUME LoadInv, NEW f \in Range(ToRead), Loader.sample = "even"
  PROVE  RunsThrough(f, Sample(f), {p \in 0..(Length(f) - 1) : InSample(f, p)})
<1> DEFINE L == Length(f)
           z == load.size
           P == {p \in 0..(L - 1) : InSample(f, p)}
           e == EvenlySpaced(L, z)
<1>1. L \in Nat /\ z \in (Nat \ {0}) \cup {None} /\ Loader.orders = "load"
  BY FilePlaces, FileFacts, LoaderKinds DEF LoadInv, Bound, Kinds
<1>2. Sample(f) = e
  BY <1>1 DEF Sample
<1>3. Ascends(e, 0..(L - 1))
  BY <1>1, EvenAscends
<1>4. /\ e \in Seq(P)
      /\ \A p \in P : \E i \in DOMAIN e : e[i] = p
  <2>1. CASE z = None \/ z >= L \/ L = 0
    <3>1. e = [i \in 1..L |-> i - 1]
      BY <2>1 DEF EvenlySpaced
    <3>2. P = 0..(L - 1)
      <4>1. ASSUME NEW p \in 0..(L - 1) PROVE InSample(f, p)
        <5>1. ~(z # None /\ z < L)
          BY <1>1, <2>1
        <5> QED
          BY <5>1 DEF InSample
      <4> QED
        BY <4>1
    <3> HIDE DEF e, P, L
    <3> QED
      BY <1>1, <3>1, <3>2, FromNought
  <2>2. CASE ~(z = None \/ z >= L \/ L = 0)
    <3>1. z \in Nat \ {0} /\ z < L /\ z <= L - 1 /\ z <= L
      BY <1>1, <2>2
    <3>2. e = [i \in 1..z |-> Min({L - 1, ((i - 1) * L) \div z})]
      BY <2>2 DEF EvenlySpaced
    <3>3. \A p : InSample(f, p) <=> \E i \in 0..(z - 1) : p = (i * L) \div z
      BY <3>1, <2>2 DEF InSample
    <3> HIDE DEF L, z, e
    <3>4. ASSUME NEW i \in 1..z
          PROVE  e[i] = ((i - 1) * L) \div z /\ e[i] \in 0..(L - 1) /\ e[i] \in P
      <4> DEFINE k == i - 1
                 x == (k * L) \div z
      <4>1. k \in Nat /\ k < z
        BY <3>1
      <4> HIDE DEF k
      <4>2. x \in Nat /\ x < L
        BY <1>1, <3>1, <4>1, Spread
      <4>3. e[i] = Min({L - 1, x})
        BY <3>2 DEF k
      <4> HIDE DEF x
      <4>4. e[i] = x /\ x \in 0..(L - 1)
        BY <1>1, <4>2, <4>3, MinPair
      <4>5. InSample(f, x)
        <5>1. k \in 0..(z - 1)
          BY <3>1, <4>1
        <5> QED
          BY <3>3, <5>1 DEF x
      <4> QED
        BY <4>4, <4>5 DEF k, x, L
    <3>5. e \in [1..z -> P]
      <4>1. e = [i \in 1..z |-> e[i]]
        BY <3>2
      <4> HIDE DEF P
      <4> QED
        BY <3>4, <4>1
    <3>6. e \in Seq(P) /\ DOMAIN e = 1..z
      <4> HIDE DEF P
      <4> QED
        BY <3>1, <3>5
    <3>7. ASSUME NEW p \in P PROVE \E i \in DOMAIN e : e[i] = p
      <4>1. InSample(f, p)
        OBVIOUS
      <4>2. PICK k \in 0..(z - 1) : p = (k * L) \div z
        BY <3>3, <4>1
      <4>3. k + 1 \in 1..z /\ (k + 1) - 1 = k
        BY <3>1
      <4>4. e[k + 1] = (k * L) \div z
        BY <3>4, <4>3
      <4> QED
        BY <3>6, <4>2, <4>3, <4>4
    <3> QED
      BY <3>6, <3>7
  <2> QED
    BY <2>1, <2>2
<1>5. \A i, j \in DOMAIN e : i < j => Earlier(<<f, e[i]>>, <<f, e[j]>>)
  <2>1. \A i, j \in DOMAIN e : i < j => e[i] < e[j]
    BY <1>3 DEF Ascends
  <2> HIDE DEF e
  <2> QED
    BY <1>1, <2>1 DEF Earlier
<1> QED
  BY <1>2, <1>4, <1>5 DEF RunsThrough

LEMMA SortedRuns ==
  ASSUME LoadInv, NEW f \in Range(ToRead), Loader.orders = "file"
  PROVE  RunsThrough(f, Sample(f), {p \in 0..(Length(f) - 1) : InSample(f, p)})
<1> DEFINE read == 0..(ReadOf(f) - 1)
           key == [p \in read |-> Clock(f, p)]
           t == SortBy(read, key)
           P == {p \in 0..(Length(f) - 1) : InSample(f, p)}
<1>1. Loader.sample = "head"
  BY LoaderKinds DEF LoadInv, Kinds
<1>2. Sample(f) = t
  BY <1>1 DEF Sample
<1>3. Length(f) \in Nat /\ ReadOf(f) \in Nat /\ ReadOf(f) <= Length(f) /\ \A p : p \in read <=> p \in P
  BY <1>1, HeadIs, FilePlaces, FileFacts
<1>4. read = P
  BY <1>3
<1>5. read \in SUBSET Int /\ IsFiniteSet(read)
  BY <1>3, FS_Interval
<1>6. \A p \in read : key[p] \in Int /\ key[p] = Clock(f, p)
  BY <1>3, FilePlaces, FileFacts
<1> HIDE DEF read, P, key
<1>7. /\ Enumerates(t, read)
      /\ \A k, l \in DOMAIN t : k < l => key[t[k]] < key[t[l]] \/ (key[t[k]] = key[t[l]] /\ t[k] < t[l])
  BY <1>5, <1>6, SortByFacts
<1> HIDE DEF t
<1>8. \A k \in DOMAIN t : t[k] \in read
  BY <1>7, Element DEF Enumerates
<1>9. \A k, l \in DOMAIN t : k < l => Earlier(<<f, t[k]>>, <<f, t[l]>>)
  BY <1>6, <1>7, <1>8 DEF Earlier
<1> QED
  BY <1>2, <1>4, <1>7, <1>9 DEF RunsThrough, Enumerates, P

LEMMA HeadRuns ==
  ASSUME LoadInv, NEW f \in Range(ToRead), Loader.sample \in {"head", "none"}, Loader.orders # "file"
  PROVE  RunsThrough(f, Sample(f), {p \in 0..(Length(f) - 1) : InSample(f, p)})
<1> DEFINE n == ReadOf(f)
           t == [i \in 1..n |-> i - 1]
           P == {p \in 0..(Length(f) - 1) : InSample(f, p)}
<1>1. Sample(f) = t
  BY DEF Sample
<1>2. n \in Nat /\ \A p : p \in 0..(n - 1) <=> p \in P
  BY HeadIs
<1>3. P = 0..(n - 1)
  BY <1>2
<1> HIDE DEF P, n
<1>4. /\ t \in Seq(P) /\ DOMAIN t = 1..n
      /\ \A p \in P : \E i \in DOMAIN t : t[i] = p
      /\ \A i, j \in DOMAIN t : i < j => t[i] < t[j]
  BY <1>2, <1>3, FromNought
<1> HIDE DEF t
<1>5. \A i, j \in DOMAIN t : i < j => Earlier(<<f, t[i]>>, <<f, t[j]>>)
  BY <1>4 DEF Earlier
<1> QED
  BY <1>1, <1>4, <1>5 DEF RunsThrough, P

LEMMA ReadFileSample ==
  ASSUME LoadInv, Underway, ReadFile
  PROVE  Underway'
<1> DEFINE until == Length(At)
           picked == Sample(At)
           P == {p \in 0..(until - 1) : InSample(At, p)}
<1>1. /\ pc = "chunk" /\ pc' = "next" /\ load' = load /\ file' = file /\ seen' = until
      /\ kept' = Len(picked) /\ Loader.sample # "stride" /\ Take(At, picked)
  BY DEF ReadFile
<1>2. /\ Placed /\ Gathered /\ (AllDue \/ Full) /\ seen = 0
      /\ file \in 1..Len(ToRead) /\ seen \in Nat /\ kept \in Nat
  <2>1. Placed /\ Gathered /\ EmptyInv /\ (AllDue \/ Full)
    BY <1>1 DEF Underway, Stopped
  <2> QED
    BY <1>1, <2>1, FilePlaces DEF Placed, EmptyInv
<1>3. At \in Range(ToRead) /\ until \in Nat
  BY <1>2, AtIs
<1>4. RunsThrough(At, picked, P)
  <2>1. Loader.sample = "even" \/ (Loader.sample \in {"head", "none"})
    BY <1>1, LoaderKinds DEF LoadInv, Kinds
  <2> QED
    BY <1>3, <2>1, EvenRuns, SortedRuns, HeadRuns
<1> HIDE DEF picked
<1>5. /\ picked \in Seq(P)
      /\ \A p \in P : \E i \in DOMAIN picked : picked[i] = p
      /\ \A i, j \in DOMAIN picked : i < j => Earlier(<<At, picked[i]>>, <<At, picked[j]>>)
  BY <1>4 DEF RunsThrough
<1>6. Len(picked) \in Nat
  BY <1>5
<1>7. P = {p \in seen..(until - 1) : InSample(At, p)} /\ seen <= until /\ until <= Length(At)
  BY <1>2, <1>3
<1> HIDE DEF P
<1>8. Continues(At, picked, P)
  BY <1>1, <1>2, <1>3, <1>5, <1>7, GoesOn
<1>9. Visited' = Visited \cup {<<At, p>> : p \in P}
  BY <1>1, <1>2, <1>3, <1>7, VisitedGrows
<1>10. Gathered' /\ (AllDue' \/ Full')
  BY <1>1, <1>2, <1>3, <1>8, <1>9, TakeDue
<1>11. ToRead' = ToRead
  BY <1>1, LoadStays
<1>12. Placed' /\ KeptInv' /\ EmptyInv' /\ SortInv'
  BY <1>1, <1>2, <1>3, <1>6, <1>11 DEF Placed, KeptInv, EmptyInv, SortInv
<1> QED
  BY <1>10, <1>12 DEF Underway

LEMMA GreatestIs ==
  ASSUME NEW R \in SUBSET Int, NEW x \in R, \A y \in R : y <= x
  PROVE  Max(R) = x
<1>1. \A z \in R : (\A y \in R : z >= y) => z = x
  OBVIOUS
<1>2. \A y \in R : x >= y
  OBVIOUS
<1> QED
  BY <1>1, <1>2 DEF Max

\* The last row of a bounded sample, and one step, are over more than half of the file.
LEMMA BudgetSpreads ==
  ASSUME LoadInv, load.size # None, Loader.sample = "stride", NEW f \in Range(ToRead), Length(f) > 0
  PROVE  2 * (Max({r[2] : r \in {q \in Sampled : q[1] = f}}) + Step(f)) > Length(f)
<1> DEFINE L == Length(f)
           s == Stride(f)
           z == load.size
           c == Ceil(L, s)
           M == IF Budgeted /\ z < c THEN z - 1 ELSE c - 1
           R == {r[2] : r \in {q \in Sampled : q[1] = f}}
<1>1. L \in Nat /\ L > 0 /\ s \in Nat \ {0} /\ z \in Nat \ {0} /\ Step(f) = s
  BY FilePlaces, FileFacts, StepIsStride DEF LoadInv, Bound
<1>2. \A p : InSample(f, p) <=> p % s = 0 /\ (Budgeted => p < s * z)
  BY InStride
<1>3. \A p : p \in R <=> p \in 0..(L - 1) /\ InSample(f, p)
  <2>1. ASSUME NEW p \in R PROVE p \in 0..(L - 1) /\ InSample(f, p)
    <3>1. PICK r \in Sampled : r[1] = f /\ p = r[2]
      OBVIOUS
    <3>2. r = <<f, p>>
      BY <3>1, SampledRows, RowsOfFiles
    <3> QED
      BY <3>1, <3>2, SampledRows
  <2>2. ASSUME NEW p \in 0..(L - 1), InSample(f, p) PROVE p \in R
    <3>1. <<f, p>> \in Sampled
      BY <2>2, SampledRows
    <3> QED
      BY <3>1
  <2> HIDE DEF R
  <2> QED
    BY <2>1, <2>2
<1>4. L < z * (L \div z) + z /\ L \div z \in Nat /\ (Budgeted => s >= L \div z)
  <2>1. L < z * (L \div z) + z /\ L \div z \in Nat
    BY <1>1, Quotient
  <2>2. ASSUME Budgeted PROVE s = Max({1, L \div z})
    BY <1>1, <2>2 DEF Stride, Budgeted
  <2>3. Max({1, L \div z}) = IF 1 >= L \div z THEN 1 ELSE L \div z
    BY <2>1, MaxPair
  <2> HIDE DEF s, L, z
  <2> QED
    BY <2>1, <2>2, <2>3
<1> HIDE DEF L, s, z, R, c
<1>5. c \in Nat /\ \A m \in Nat : s * m < L <=> m < c
  BY <1>1, CeilFacts DEF c
<1>6. c > 0
  <2>1. s * 0 < L
    BY <1>1
  <2> QED
    BY <1>5, <2>1
<1>7. M \in Nat /\ M < c /\ (Budgeted => M < z)
  BY <1>1, <1>5, <1>6
<1>8. \A m \in Nat : s * m \in R <=> m < c /\ (Budgeted => m < z)
  <2> SUFFICES ASSUME NEW m \in Nat PROVE s * m \in R <=> m < c /\ (Budgeted => m < z)
    OBVIOUS
  <2>1. s * m \in Nat /\ (s * m) % s = 0
    BY <1>1, MultipleOf
  <2>2. s * m < s * z <=> m < z
    <3>1. CASE m < z
      <4>1. s * (m + 1) <= s * z /\ s * (m + 1) = s * m + s /\ s * z \in Nat
        BY <1>1, <3>1, TimesMore
      <4> QED
        BY <1>1, <2>1, <3>1, <4>1
    <3>2. CASE ~(m < z)
      <4>1. s * z <= s * m /\ s * z \in Nat
        BY <1>1, <3>2, TimesMore
      <4> QED
        BY <2>1, <3>2, <4>1
    <3> QED
      BY <3>1, <3>2
  <2>3. s * m \in 0..(L - 1) <=> m < c
    BY <1>1, <1>5, <2>1
  <2> QED
    BY <1>2, <1>3, <2>1, <2>2, <2>3
<1>9. s * M \in R
  BY <1>7, <1>8
<1>10. ASSUME NEW y \in R PROVE y <= s * M
  <2>1. y \in Nat /\ y % s = 0
    BY <1>1, <1>2, <1>3
  <2>2. PICK m \in Nat : y = s * m
    BY <1>1, <2>1, MultipleOf
  <2>3. m < c /\ (Budgeted => m < z)
    BY <1>8, <2>2
  <2>4. m <= M
    BY <1>1, <1>5, <1>7, <2>3
  <2> QED
    BY <1>1, <1>7, <2>2, <2>4, TimesMore
<1>11. R \in SUBSET Int
  BY <1>1, <1>3
<1> HIDE DEF M
<1>12. Max(R) = s * M
  BY <1>9, <1>10, <1>11, GreatestIs
<1>13. s * M \in Nat /\ s * (M + 1) = s * M + s /\ M + 1 \in Nat
  BY <1>1, <1>7, TimesMore
<1>14. 2 * (s * (M + 1)) > L
  <2>1. CASE Budgeted /\ z < c
    <3> DEFINE q == L \div z
    <3>1. M + 1 = z
      BY <1>1, <2>1 DEF M
    <3>2. q \in Nat /\ L < z * q + z /\ q <= s
      BY <1>1, <1>4, <2>1
    <3> HIDE DEF q
    <3>3. z * q <= z * s /\ z * q \in Nat /\ z * s \in Nat
      BY <1>1, <3>2, TimesMore
    <3>4. z * 1 <= z * s /\ z * 1 = z
      <4>1. z * 1 = z /\ 1 <= s /\ 1 \in Nat
        BY <1>1
      <4> QED
        BY <1>1, <4>1, TimesMore
    <3>5. z * s = s * z
      BY <1>1
    <3> QED
      BY <1>1, <3>1, <3>2, <3>3, <3>4, <3>5
  <2>2. CASE ~(Budgeted /\ z < c)
    <3>1. M + 1 = c
      BY <1>5, <2>2 DEF M
    <3>2. ~(s * c < L) /\ s * c \in Nat
      BY <1>1, <1>5
    <3> QED
      BY <1>1, <3>1, <3>2
  <2> QED
    BY <2>1, <2>2
<1>15. 2 * (Max(R) + Step(f)) > L
  BY <1>1, <1>12, <1>13, <1>14
<1> QED
  BY <1>15 DEF R, L

\* The rows of a load are different rows.
LEMMA ApartInOrder ==
  ASSUME LoadInv, Gathered, NEW i \in DOMAIN loaded, NEW j \in DOMAIN loaded
  PROVE  /\ PlaceOf(loaded[i]) \in Returned /\ PlaceOf(loaded[i]) \in FileRows
         /\ PlaceOf(loaded[i]) = PlaceOf(loaded[j]) => i = j
         /\ Earlier(PlaceOf(loaded[i]), PlaceOf(loaded[j])) <=> i < j
<1>1. /\ loaded \in Seq(LoadedRows) /\ InEarlierOrder /\ OnlyDue
  BY DEF Gathered
<1>2. i \in Nat /\ j \in Nat
  BY <1>1
<1>3. PlaceOf(loaded[i]) \in Returned /\ PlaceOf(loaded[j]) \in Returned
  BY <1>1, ReturnedIs
<1>4. PlaceOf(loaded[i]) \in FileRows /\ PlaceOf(loaded[j]) \in FileRows
  <2>1. Returned \subseteq Sampled
    BY <1>1 DEF OnlyDue, Visited
  <2> QED
    BY <1>3, <2>1, SampledRows
<1>5. /\ i < j => Earlier(PlaceOf(loaded[i]), PlaceOf(loaded[j]))
      /\ j < i => Earlier(PlaceOf(loaded[j]), PlaceOf(loaded[i]))
  BY <1>1 DEF InEarlierOrder
<1>6. /\ ~Earlier(PlaceOf(loaded[i]), PlaceOf(loaded[i])) /\ ~Earlier(PlaceOf(loaded[j]), PlaceOf(loaded[j]))
      /\ Earlier(PlaceOf(loaded[i]), PlaceOf(loaded[j])) => ~Earlier(PlaceOf(loaded[j]), PlaceOf(loaded[i]))
  BY <1>4, EarlierOrders
<1>7. PlaceOf(loaded[i]) = PlaceOf(loaded[j]) => i = j
  BY <1>2, <1>5, <1>6
<1>8. Earlier(PlaceOf(loaded[i]), PlaceOf(loaded[j])) <=> i < j
  BY <1>2, <1>5, <1>6
<1> QED
  BY <1>3, <1>4, <1>7, <1>8

\* Different elements are as many as their places.
LEMMA ManyAs ==
  ASSUME NEW m \in Nat, NEW g, NEW S, S = {g[i] : i \in 1..m},
         \A i, j \in 1..m : g[i] = g[j] => i = j
  PROVE  IsFiniteSet(S) /\ Cardinality(S) = m
<1> DEFINE h == [i \in 1..m |-> g[i]]
<1>1. h \in [1..m -> S]
  OBVIOUS
<1>2. \A i, j \in 1..m : h[i] = h[j] => i = j
  OBVIOUS
<1>3. \A x \in S : \E i \in 1..m : h[i] = x
  OBVIOUS
<1> HIDE DEF h
<1>4. h \in Bijection(1..m, S)
  BY <1>1, <1>2, <1>3 DEF Bijection, Injection, Surjection, IsInjective
<1>5. IsFiniteSet(1..m) /\ Cardinality(1..m) = m
  BY CountTo
<1> QED
  BY <1>4, <1>5, FS_Bijection DEF ExistsBijection

\* What a load has when it is sorted: all that is due, or the first of it up to a limit.
LEMMA BeforeSort ==
  ASSUME LoadInv, Underway, pc = "sort"
  PROVE  /\ Returned \subseteq Due /\ IsFiniteSet(Due) /\ Cardinality(Due) \in Nat
         /\ Len(loaded) = Cardinality(Returned) /\ Len(loaded) \in Nat /\ Len(loaded) <= Cardinality(Due)
         /\ \A q \in Returned, r \in Due : Earlier(r, q) => r \in Returned
         /\ load.limit # 0 \/ Cap = None =>
              \/ Returned = Due /\ Len(loaded) = Cardinality(Due)
              \/ /\ Cap # None /\ Loader.cut # "spread" /\ Len(loaded) >= Cap
                 /\ Loader.cut # "end" => Len(loaded) = Cap
         /\ Cap = None /\ ~Loader.unique =>
              Len(loaded) + dropped.unmapped + dropped.header = Cardinality(Told(Sampled))
<1>1. Placed /\ Gathered /\ SortInv /\ (~Stopped => AllDue \/ Full)
  BY DEF Underway
<1>2. loaded \in Seq(LoadedRows) /\ RoomInv /\ OnlyDue /\ FirstDue /\ CountInv
  BY <1>1 DEF Gathered
<1>3. Returned \subseteq Due /\ \A q \in Returned, r \in Due : Earlier(r, q) => r \in Returned
  BY <1>2 DEF OnlyDue, FirstDue
<1>4. IsFiniteSet(Due) /\ Cardinality(Due) \in Nat
  <2>1. Due \subseteq Sampled
    BY DueIs DEF MappedRows
  <2>2. IsFiniteSet(Due)
    BY <2>1, SampledRows, FS_Subset
  <2> QED
    BY <2>2, FS_CardinalityType
<1>5. Len(loaded) = Cardinality(Returned) /\ Len(loaded) \in Nat
  <2> DEFINE n == Len(loaded)
             g == [i \in 1..n |-> PlaceOf(loaded[i])]
  <2>1. n \in Nat /\ DOMAIN loaded = 1..n
    BY <1>2
  <2>2. Returned = {PlaceOf(loaded[i]) : i \in 1..n}
    BY <1>2, <2>1, ReturnedIs
  <2>3. \A i, j \in 1..n : PlaceOf(loaded[i]) = PlaceOf(loaded[j]) => i = j
    BY <1>1, <2>1, ApartInOrder
  <2> HIDE DEF n
  <2>4. Returned = {g[i] : i \in 1..n} /\ \A i, j \in 1..n : g[i] = g[j] => i = j
    BY <2>2, <2>3
  <2> HIDE DEF g
  <2>5. Cardinality(Returned) = n
    BY <2>1, <2>4, ManyAs
  <2> QED
    BY <2>1, <2>5 DEF n
<1>6. Len(loaded) <= Cardinality(Due)
  BY <1>3, <1>4, <1>5, FS_Subset
<1>7. file = Len(ToRead) => Visited = Sampled
  <2>1. \A r \in Sampled : FilePlace(r[1]) \in 1..Len(ToRead)
    BY SampledRows, RowsOfFiles, FilePlaces
  <2> QED
    BY <2>1, FilePlaces DEF Visited
<1>8. ASSUME load.limit # 0 \/ Cap = None PROVE ~Stopped
  <2>1. ASSUME load.limit = 0, Loader.cut = "always" PROVE Cap = 1
    <3>1. Loaders["dohbrw2020"].cut = "end" /\ Loaders["dnsexf2021"].cut = "row"
      BY DEF Loaders, DohBrw2020, DnsExf2021
    <3>2. load.name \notin {"dohbrw2020", "dnsexf2021"}
      BY <2>1, <3>1 DEF Loader
    <3> QED
      BY <2>1, <3>2 DEF Cap
  <2> QED
    BY <1>8, <2>1, LoaderAssumption DEF Stopped
<1>9. ASSUME load.limit # 0 \/ Cap = None
      PROVE  \/ Returned = Due
             \/ /\ Cap # None /\ Loader.cut # "spread" /\ Len(loaded) >= Cap
                /\ Loader.cut # "end" => Len(loaded) = Cap
  <2>1. AllDue \/ Full
    BY <1>1, <1>8, <1>9
  <2>2. file = Len(ToRead) \/ (Cap # None /\ Loader.cut # "spread" /\ Len(loaded) >= Cap)
    BY <1>1, <1>9 DEF SortInv
  <2>3. CASE Full
    BY <1>5, <2>3 DEF Full
  <2>4. CASE file = Len(ToRead) /\ AllDue
    <3>1. Due \subseteq Sampled
      BY DueIs DEF MappedRows
    <3> QED
      BY <1>3, <1>7, <2>4, <3>1 DEF AllDue
  <2>5. CASE Cap # None /\ Loader.cut # "spread" /\ Len(loaded) >= Cap
    <3>1. Loader.cut # "end" => Len(loaded) <= Cap
      BY <1>2, <2>5 DEF RoomInv
    <3> QED
      BY <1>5, <2>5, <3>1, CapType
  <2> QED
    BY <2>1, <2>2, <2>3, <2>4, <2>5
<1>10. ASSUME Cap = None, ~Loader.unique
       PROVE  Len(loaded) + dropped.unmapped + dropped.header = Cardinality(Told(Sampled))
  <2>1. file = Len(ToRead)
    BY <1>1, <1>10 DEF SortInv
  <2> QED
    BY <1>2, <1>7, <1>10, <2>1 DEF CountInv
<1> QED
  BY <1>3, <1>4, <1>5, <1>6, <1>9, <1>10

LEMMA EvenIs ==
  ASSUME NEW n \in Nat, NEW z, z \in Nat \ {0} \/ z = None
  PROVE  LET e == EvenlySpaced(n, z) IN
           /\ DOMAIN e = 1..(IF z = None \/ n <= z THEN n ELSE z)
           /\ \A i \in DOMAIN e : e[i] = ((i - 1) * n) \div (IF z = None \/ n <= z THEN n ELSE z)
<1> DEFINE e == EvenlySpaced(n, z)
<1>1. CASE z = None \/ n <= z
  <2>1. e = [i \in 1..n |-> i - 1]
    <3>1. z = None \/ z >= n
      BY <1>1
    <3> QED
      BY <3>1 DEF EvenlySpaced
  <2>2. \A i \in 1..n : ((i - 1) * n) \div n = i - 1
    <3> SUFFICES ASSUME NEW i \in 1..n PROVE ((i - 1) * n) \div n = i - 1
      OBVIOUS
    <3> DEFINE k == i - 1
               x == k * n
               q == x \div n
    <3>1. k \in Nat /\ n \in Nat \ {0} /\ x \in Nat /\ x = n * k
      OBVIOUS
    <3>2. q \in Nat /\ n * q <= x /\ x < n * q + n
      BY <3>1, Quotient
    <3> HIDE DEF k, q, x
    <3>3. CASE q < k
      <4>1. n * (q + 1) <= n * k /\ n * (q + 1) = n * q + n
        BY <3>1, <3>2, <3>3, TimesMore
      <4> QED
        BY <3>1, <3>2, <4>1
    <3>4. CASE k < q
      <4>1. n * (k + 1) <= n * q /\ n * (k + 1) = n * k + n /\ n * k \in Nat /\ n * q \in Nat
        BY <3>1, <3>2, <3>4, TimesMore
      <4> QED
        BY <3>1, <3>2, <4>1
    <3>5. q = k
      BY <3>1, <3>2, <3>3, <3>4
    <3> QED
      BY <3>5 DEF k, q, x
  <2> HIDE DEF e
  <2>3. DOMAIN e = 1..n /\ \A i \in DOMAIN e : e[i] = ((i - 1) * n) \div n
    BY <2>1, <2>2
  <2> QED
    BY <1>1, <2>3 DEF e
<1>2. CASE ~(z = None \/ n <= z)
  <2>1. z \in Nat \ {0} /\ z < n /\ z <= n - 1 /\ n - 1 \in Nat
    BY <1>2
  <2>2. e = [i \in 1..z |-> Min({n - 1, ((i - 1) * n) \div z})]
    BY <1>2, <2>1 DEF EvenlySpaced
  <2>3. ASSUME NEW i \in 1..z PROVE Min({n - 1, ((i - 1) * n) \div z}) = ((i - 1) * n) \div z
    <3> DEFINE k == i - 1
               x == (k * n) \div z
    <3>1. k \in Nat /\ k < z /\ z <= n
      BY <2>1
    <3> HIDE DEF k
    <3>2. x \in Nat /\ x < n
      <4>1. z <= n
        BY <2>1
      <4> QED
        BY <2>1, <3>1, Spread
    <3> HIDE DEF x
    <3>3. Min({n - 1, x}) = x
      BY <2>1, <3>2, MinPair
    <3> QED
      BY <3>3 DEF k, x
  <2> HIDE DEF e
  <2>4. DOMAIN e = 1..z /\ \A i \in DOMAIN e : e[i] = ((i - 1) * n) \div z
    BY <2>2, <2>3
  <2> QED
    BY <1>2, <2>4 DEF e
<1> QED
  BY <1>1, <1>2

\* Which of the sorted rows a load of n rows returns, and how many
KeepOf(n) ==
  CASE Loader.cut = "spread" /\ Cap # 0 ->
         [i \in DOMAIN EvenlySpaced(n, Cap) |-> EvenlySpaced(n, Cap)[i] + 1]
    [] Loader.cut = "end" /\ Cap # None -> [i \in 1..Min({Cap, n}) |-> i]
    [] OTHER -> [i \in 1..n |-> i]

KeepMany(n) == IF Cap # None /\ Loader.cut \in {"end", "spread"} /\ ~(n <= Cap) THEN Cap ELSE n

LEMMA KeepIs ==
  ASSUME LoadInv, NEW n \in Nat, ~(Loader.cut = "spread" /\ Cap = 0 /\ n # 0)
  PROVE  /\ DOMAIN KeepOf(n) = 1..KeepMany(n) /\ KeepMany(n) \in Nat /\ KeepMany(n) <= n
         /\ \A i \in 1..KeepMany(n) : KeepOf(n)[i] \in 1..n
         /\ \A i, j \in 1..KeepMany(n) : KeepOf(n)[i] = KeepOf(n)[j] => i = j
         /\ Loader.cut # "spread" => \A i \in 1..KeepMany(n) : KeepOf(n)[i] = i
         /\ Loader.cut = "spread" =>
              \A i \in 1..KeepMany(n) : KeepOf(n)[i] = ((i - 1) * n) \div KeepMany(n) + 1
<1> DEFINE e == EvenlySpaced(n, Cap)
           keep == CASE Loader.cut = "spread" /\ Cap # 0 -> [i \in DOMAIN e |-> e[i] + 1]
                     [] Loader.cut = "end" /\ Cap # None -> [i \in 1..Min({Cap, n}) |-> i]
                     [] OTHER -> [i \in 1..n |-> i]
           m == IF Cap # None /\ Loader.cut \in {"end", "spread"} /\ ~(n <= Cap) THEN Cap ELSE n
<1> SUFFICES /\ DOMAIN keep = 1..m /\ m \in Nat /\ m <= n
             /\ \A i \in 1..m : keep[i] \in 1..n
             /\ \A i, j \in 1..m : keep[i] = keep[j] => i = j
             /\ Loader.cut # "spread" => \A i \in 1..m : keep[i] = i
             /\ Loader.cut = "spread" => \A i \in 1..m : keep[i] = ((i - 1) * n) \div m + 1
  BY DEF KeepOf, KeepMany
<1>1. Cap \in Nat \cup {None} /\ m \in Nat /\ m <= n
  BY CapType
<1>2. CASE Loader.cut = "spread" /\ Cap # 0
  <2>1. Cap \in Nat \ {0} \/ Cap = None
    BY <1>1, <1>2
  <2>2. /\ Ascends(e, 0..(n - 1)) /\ DOMAIN e = 1..(IF Cap = None \/ n <= Cap THEN n ELSE Cap)
        /\ \A i \in DOMAIN e : e[i] = ((i - 1) * n) \div (IF Cap = None \/ n <= Cap THEN n ELSE Cap)
    BY <2>1, EvenAscends, EvenIs
  <2>3. m = IF Cap = None \/ n <= Cap THEN n ELSE Cap
    BY <1>2
  <2>4. keep = [i \in DOMAIN e |-> e[i] + 1]
    BY <1>2
  <2> HIDE DEF e, m, keep
  <2>5. ASSUME NEW i \in 1..m
        PROVE  keep[i] = e[i] + 1 /\ e[i] \in 0..(n - 1) /\ keep[i] \in 1..n /\ e[i] = ((i - 1) * n) \div m
    <3>1. i \in DOMAIN e /\ e \in Seq(0..(n - 1))
      BY <2>2, <2>3 DEF Ascends
    <3>2. e[i] \in 0..(n - 1)
      BY <3>1, Element
    <3>3. e[i] = ((i - 1) * n) \div m
      BY <2>2, <2>3, <3>1
    <3>4. keep[i] = e[i] + 1
      BY <2>4, <3>1
    <3> QED
      BY <3>2, <3>3, <3>4
  <2>6. ASSUME NEW i \in 1..m, NEW j \in 1..m, keep[i] = keep[j] PROVE i = j
    <3>1. e[i] = e[j] /\ i \in DOMAIN e /\ j \in DOMAIN e /\ i \in Int /\ j \in Int /\ e[i] \in Int
      BY <2>2, <2>3, <2>5, <2>6
    <3>2. (i < j => e[i] < e[j]) /\ (j < i => e[j] < e[i])
      BY <2>2, <3>1 DEF Ascends
    <3> QED
      BY <3>1, <3>2
  <2>7. DOMAIN keep = 1..m
    BY <2>2, <2>3, <2>4
  <2>8. \A i \in 1..m : keep[i] \in 1..n /\ keep[i] = ((i - 1) * n) \div m + 1
    BY <2>5
  <2> QED
    BY <1>1, <1>2, <2>6, <2>7, <2>8 DEF m
<1>3. CASE ~(Loader.cut = "spread" /\ Cap # 0)
  <2>1. keep = [i \in 1..m |-> i]
    <3>1. CASE Loader.cut = "end" /\ Cap # None
      <4>1. Min({Cap, n}) = IF Cap <= n THEN Cap ELSE n
        BY <1>1, <3>1, MinPair
      <4>2. Min({Cap, n}) = m
        BY <1>1, <3>1, <4>1
      <4>3. keep = [i \in 1..Min({Cap, n}) |-> i]
        BY <3>1
      <4> HIDE DEF keep, m
      <4> QED
        BY <4>2, <4>3
    <3>2. CASE ~(Loader.cut = "end" /\ Cap # None)
      <4>1. m = n
        BY <1>1, <1>3, <3>2
      <4>2. keep = [i \in 1..n |-> i]
        BY <1>3, <3>2
      <4> HIDE DEF keep, m
      <4> QED
        BY <4>1, <4>2
    <3> QED
      BY <3>1, <3>2
  <2> HIDE DEF keep
  <2>2. DOMAIN keep = 1..m /\ \A i \in 1..m : keep[i] = i
    BY <2>1
  <2>3. Loader.cut = "spread" => m = 0
    BY <1>1, <1>3
  <2>4. \A i \in 1..m : keep[i] \in 1..n
    BY <1>1, <2>2
  <2>5. Loader.cut = "spread" => \A i \in 1..m : keep[i] = ((i - 1) * n) \div m + 1
    <3> HIDE DEF m
    <3> QED
      BY <2>3
  <2>6. \A i, j \in 1..m : keep[i] = keep[j] => i = j
    BY <2>2
  <2> HIDE DEF m
  <2> QED
    BY <1>1, <2>2, <2>4, <2>5, <2>6
<1> QED
  BY <1>2, <1>3

\* order is the order of a sort: that of the times where there are times.
Permutes(order, n) ==
  /\ DOMAIN order = 1..n /\ \A k \in 1..n : order[k] \in 1..n
  /\ \A k, l \in 1..n : order[k] = order[l] => k = l
  /\ \A i \in 1..n : \E k \in 1..n : order[k] = i

ByTimes(order, n) ==
  \A k, l \in 1..n : k < l =>
    \/ times[order[k]] < times[order[l]]
    \/ times[order[k]] = times[order[l]] /\ order[k] < order[l]

TheirTimes(n) == \A i \in 1..n : times[i] = Clock(loaded[i].file, loaded[i].pos) /\ times[i] \in Nat

LEMMA OrderIs ==
  ASSUME LoadInv, TimedInv, pc = "sort", loaded \in Seq(LoadedRows), NEW n \in Nat, n = Len(loaded)
  PROVE  LET order == IF Timed THEN SortBy(DOMAIN loaded, times) ELSE [i \in DOMAIN loaded |-> i] IN
           /\ Permutes(order, n)
           /\ ~Timed => \A k \in 1..n : order[k] = k
           /\ Timed => ByTimes(order, n) /\ TheirTimes(n)
<1> DEFINE order == IF Timed THEN SortBy(DOMAIN loaded, times) ELSE [i \in DOMAIN loaded |-> i]
<1> SUFFICES /\ Permutes(order, n)
             /\ ~Timed => \A k \in 1..n : order[k] = k
             /\ Timed => ByTimes(order, n) /\ TheirTimes(n)
  OBVIOUS
<1>1. DOMAIN loaded = 1..n
  OBVIOUS
<1>2. CASE ~Timed
  <2>1. order = [i \in 1..n |-> i]
    BY <1>1, <1>2
  <2> HIDE DEF order
  <2>2. DOMAIN order = 1..n /\ \A k \in 1..n : order[k] = k
    BY <2>1
  <2> QED
    BY <1>2, <2>2 DEF Permutes
<1>3. CASE Timed
  <2> DEFINE o == SortBy(1..n, times)
  <2>1. Parallel
    BY <1>3 DEF TimedInv, Reading
  <2>2. times \in Seq(Nat) /\ Len(times) = n /\ \A i \in 1..n : times[i] = Clock(loaded[i].file, loaded[i].pos)
    BY <1>1, <2>1 DEF Parallel
  <2>3. \A i \in 1..n : times[i] \in Nat /\ times[i] \in Int
    BY <2>2, Element
  <2>4. IsFiniteSet(1..n) /\ 1..n \in SUBSET Int /\ Cardinality(1..n) = n
    BY CountTo
  <2>5. /\ Enumerates(o, 1..n)
        /\ \A k, l \in DOMAIN o : k < l =>
             times[o[k]] < times[o[l]] \/ (times[o[k]] = times[o[l]] /\ o[k] < o[l])
    BY <2>3, <2>4, SortByFacts
  <2>6. order = o
    BY <1>1, <1>3
  <2> HIDE DEF o, order
  <2>7. o \in Seq(1..n) /\ Len(o) = n /\ Distinct(o) /\ \A x \in 1..n : \E k \in DOMAIN o : o[k] = x
    BY <2>4, <2>5 DEF Enumerates
  <2>8. DOMAIN o = 1..n
    BY <2>7
  <2>9. \A k \in 1..n : o[k] \in 1..n
    BY <2>7, <2>8, Element
  <2>10. \A k, l \in 1..n : o[k] = o[l] => k = l
    BY <2>7, <2>8 DEF Distinct
  <2>11. Permutes(o, n)
    BY <2>7, <2>8, <2>9, <2>10 DEF Permutes
  <2>12. ByTimes(o, n)
    BY <2>5, <2>8 DEF ByTimes
  <2>13. TheirTimes(n)
    BY <2>2, <2>3 DEF TheirTimes
  <2> QED
    BY <1>3, <2>6, <2>11, <2>12, <2>13
<1> QED
  BY <1>2, <1>3

\* In a timed load, the rows sooner than the k-th of the sorted ones are those before it.
LEMMA RankIs ==
  ASSUME LoadInv, Gathered, NEW n \in Nat, n = Len(loaded), NEW order,
         Permutes(order, n), ByTimes(order, n), TheirTimes(n), NEW k \in 1..n
  PROVE  Cardinality({q \in Returned : Sooner(q, PlaceOf(loaded[order[k]]))}) = k - 1
<1> DEFINE at(l) == PlaceOf(loaded[order[l]])
           S == {q \in Returned : Sooner(q, at(k))}
<1>1. loaded \in Seq(LoadedRows) /\ DOMAIN loaded = 1..n
  BY DEF Gathered
<1>2. Returned = {at(l) : l \in 1..n}
  <2>1. Returned = {PlaceOf(loaded[i]) : i \in 1..n}
    BY <1>1, ReturnedIs
  <2>2. \A l \in 1..n : at(l) \in Returned
    BY <2>1 DEF Permutes
  <2>3. ASSUME NEW q \in Returned PROVE \E l \in 1..n : q = at(l)
    <3>1. PICK i \in 1..n : q = PlaceOf(loaded[i])
      BY <2>1
    <3>2. PICK l \in 1..n : order[l] = i
      BY DEF Permutes
    <3> QED
      BY <3>1, <3>2
  <2> HIDE DEF at
  <2> QED
    BY <2>2, <2>3
<1>3. \A l \in 1..n : Clock(at(l)[1], at(l)[2]) = times[order[l]] /\ times[order[l]] \in Nat
                   /\ order[l] \in 1..n /\ order[l] \in Nat
  <2>1. \A l \in 1..n : order[l] \in 1..n /\ order[l] \in Nat
    BY DEF Permutes
  <2> QED
    BY <2>1 DEF PlaceOf, TheirTimes
<1>4. \A l, j \in 1..n : /\ at(l) = at(j) => l = j
                         /\ Earlier(at(l), at(j)) <=> order[l] < order[j]
  <2> SUFFICES ASSUME NEW l \in 1..n, NEW j \in 1..n
               PROVE  /\ at(l) = at(j) => l = j
                      /\ Earlier(at(l), at(j)) <=> order[l] < order[j]
    OBVIOUS
  <2>1. order[l] \in DOMAIN loaded /\ order[j] \in DOMAIN loaded
    BY <1>1, <1>3
  <2>2. /\ at(l) = at(j) => order[l] = order[j]
        /\ Earlier(at(l), at(j)) <=> order[l] < order[j]
    BY <2>1, ApartInOrder
  <2> HIDE DEF at
  <2> QED
    BY <2>2 DEF Permutes
<1> HIDE DEF at
<1>5. ASSUME NEW l \in 1..n PROVE Sooner(at(l), at(k)) <=> l < k
  <2>1. Sooner(at(l), at(k)) <=> \/ times[order[l]] < times[order[k]]
                                 \/ times[order[l]] = times[order[k]] /\ order[l] < order[k]
    BY <1>3, <1>4 DEF Sooner
  <2>2. times[order[l]] \in Nat /\ times[order[k]] \in Nat /\ order[l] \in Nat /\ order[k] \in Nat /\ l \in Nat /\ k \in Nat
    BY <1>3
  <2>3. l < k => \/ times[order[l]] < times[order[k]]
                 \/ times[order[l]] = times[order[k]] /\ order[l] < order[k]
    BY DEF ByTimes
  <2>4. k < l => \/ times[order[k]] < times[order[l]]
                 \/ times[order[k]] = times[order[l]] /\ order[k] < order[l]
    BY DEF ByTimes
  <2> QED
    BY <2>1, <2>2, <2>3, <2>4
<1>6. S = {at(l) : l \in 1..(k - 1)}
  <2>1. \A l \in 1..(k - 1) : l \in 1..n /\ l < k
    OBVIOUS
  <2>2. \A l \in 1..n : l < k => l \in 1..(k - 1)
    OBVIOUS
  <2> QED
    BY <1>2, <1>5, <2>1, <2>2
<1>7. \A l, j \in 1..(k - 1) : at(l) = at(j) => l = j
  <2>1. \A l \in 1..(k - 1) : l \in 1..n
    OBVIOUS
  <2> QED
    BY <1>4, <2>1
<1>8. k - 1 \in Nat
  OBVIOUS
<1> DEFINE g == [l \in 1..(k - 1) |-> at(l)]
<1>9. S = {g[l] : l \in 1..(k - 1)} /\ \A l, j \in 1..(k - 1) : g[l] = g[j] => l = j
  BY <1>6, <1>7
<1> HIDE DEF g, S
<1>10. Cardinality(S) = k - 1
  BY <1>8, <1>9, ManyAs
<1> QED
  BY <1>10 DEF S, at

\* What a load is that has returned, part by part
Chosen == Returned \subseteq Due /\ Cardinality(Returned) = Len(loaded)

LimitOfNone == load.limit = 0 /\ Cap # None => Len(loaded) <= 1

\* A limit of 0 that is ignored is none.
Limited == load.limit # 0 \/ Cap = None

ManyDue ==
  Limited => Len(loaded) = IF Cap = None THEN Cardinality(Due) ELSE Min({Cap, Cardinality(Due)})

FirstOnes ==
  Limited /\ Loader.cut # "spread" => \A r \in Due \ Returned, q \in Returned : ~Earlier(r, q)

SpreadOnes ==
  Limited /\ Loader.cut = "spread" => \A i \in DOMAIN loaded :
    Cardinality({q \in Due : Sooner(q, <<loaded[i].file, loaded[i].pos>>)})
      = ((i - 1) * Cardinality(Due)) \div Len(loaded)

AllCounted ==
  ~Loader.unique /\ Cap = None => Len(loaded) + dropped.unmapped + dropped.header = Cardinality(Told(Sampled))

Reaches ==
  load.size # None /\ Loader.sample = "stride" =>
    \A f \in Range(ToRead) : Length(f) > 0 =>
      2 * (Max({r[2] : r \in {q \in Sampled : q[1] = f}}) + Step(f)) > Length(f)

LEMMA LoadIsSampleParts ==
  LoadIsSample <=>
    (pc = "done" => Chosen /\ LimitOfNone /\ ManyDue /\ FirstOnes /\ SpreadOnes /\ AllCounted /\ Reaches)
BY DEF LoadIsSample, Chosen, LimitOfNone, Limited, ManyDue, FirstOnes, SpreadOnes, AllCounted, Reaches

LEMMA ReachesAll == LoadInv => Reaches
BY BudgetSpreads DEF Reaches

LEMMA ReachesStays ==
  ASSUME load' = load
  PROVE  Reaches' = Reaches
<1>1. /\ Loader' = Loader /\ ToRead' = ToRead /\ Sampled' = Sampled
      /\ \A f : Length(f)' = Length(f) /\ Step(f)' = Step(f)
  BY LoadStays, SampleStays
<1> QED
  BY <1>1 DEF Reaches

\* A limit of 0 leaves room for a row at most.
LEMMA RoomOfNone ==
  ASSUME LoadInv, Gathered, load.limit = 0, Cap # None,
         ~(Loader.cut = "spread" /\ Cap = 0 /\ loaded # <<>>)
  PROVE  Len(loaded) <= 1
<1>1. Cap \in {0, 1} /\ load.name \notin {"dohbrw2020", "dnsexf2021"}
  BY LoaderAssumption DEF Cap
<1>2. Loader.cut # "end"
  BY <1>1, LoaderKinds DEF LoadInv
<1>3. loaded \in Seq(LoadedRows) /\ RoomInv
  BY DEF Gathered
<1>4. Loader.cut = "spread" => Cap = 0
  BY LoaderAssumption, <1>1 DEF Cap
<1>5. CASE Loader.cut = "spread"
  BY <1>4, <1>5
<1>6. CASE Loader.cut # "spread"
  <2>1. Len(loaded) <= Cap /\ Len(loaded) \in Nat
    BY <1>1, <1>2, <1>3, <1>6, LoaderAssumption DEF RoomInv
  <2> QED
    BY <1>1, <2>1
<1> QED
  BY <1>5, <1>6

LEMMA ReturnSample ==
  ASSUME LoadInv, TimedInv, Underway, Return
  PROVE  LoadIsSample' /\ Underway'
<1> DEFINE n == Len(loaded)
           order == IF Timed THEN SortBy(DOMAIN loaded, times) ELSE [i \in DOMAIN loaded |-> i]
           keep == KeepOf(n)
           m == KeepMany(n)
           D == Cardinality(Due)
           old(i) == PlaceOf(loaded[i])
           new(i) == PlaceOf(loaded'[i])
<1>1. pc = "sort" /\ load' = load /\ dropped' = dropped /\ pc' \in {"raised", "done"}
  BY DEF Return
<1>2. Underway'
  BY <1>1 DEF Underway
<1>3. CASE pc' = "raised"
  BY <1>2, <1>3 DEF LoadIsSample
<1>4. CASE pc' = "done"
  <2>1. Gathered /\ loaded \in Seq(LoadedRows) /\ n \in Nat /\ DOMAIN loaded = 1..n
    BY <1>1 DEF Underway, Gathered
  <2>2. /\ ~(Loader.cut = "spread" /\ Cap = 0 /\ loaded # <<>>)
        /\ loaded' = [i \in DOMAIN keep |-> loaded[order[keep[i]]]]
    <3> DEFINE k == CASE Loader.cut = "spread" /\ Cap # 0 ->
                           [i \in DOMAIN EvenlySpaced(n, Cap) |-> EvenlySpaced(n, Cap)[i] + 1]
                      [] Loader.cut = "end" /\ Cap # None -> [i \in 1..Min({Cap, n}) |-> i]
                      [] OTHER -> [i \in DOMAIN loaded |-> i]
    <3>1. k = keep
      BY <2>1 DEF KeepOf
    <3>2. /\ ~(Loader.cut = "spread" /\ Cap = 0 /\ loaded # <<>>)
          /\ loaded' = [i \in DOMAIN k |-> loaded[order[k[i]]]]
      BY <1>4 DEF Return
    <3> HIDE DEF k, keep, order
    <3> QED
      BY <3>1, <3>2
  <2>3. ~(Loader.cut = "spread" /\ Cap = 0 /\ n # 0)
    BY <2>1, <2>2
  <2>4. /\ DOMAIN keep = 1..m /\ m \in Nat /\ m <= n
        /\ \A i \in 1..m : keep[i] \in 1..n
        /\ \A i, j \in 1..m : keep[i] = keep[j] => i = j
        /\ Loader.cut # "spread" => \A i \in 1..m : keep[i] = i
        /\ Loader.cut = "spread" => \A i \in 1..m : keep[i] = ((i - 1) * n) \div m + 1
    <3> HIDE DEF n
    <3> QED
      BY <2>1, <2>3, KeepIs
  <2>5. /\ Permutes(order, n)
        /\ ~Timed => \A k \in 1..n : order[k] = k
        /\ Timed => ByTimes(order, n) /\ TheirTimes(n)
    BY <1>1, <2>1, OrderIs
  <2>6. /\ Returned \subseteq Due /\ IsFiniteSet(Due) /\ D \in Nat /\ n <= D
        /\ \A q \in Returned, r \in Due : Earlier(r, q) => r \in Returned
        /\ load.limit # 0 \/ Cap = None =>
             \/ Returned = Due /\ n = D
             \/ Cap # None /\ Loader.cut # "spread" /\ n >= Cap /\ (Loader.cut # "end" => n = Cap)
        /\ Cap = None /\ ~Loader.unique => n + dropped.unmapped + dropped.header = Cardinality(Told(Sampled))
    BY <1>1, BeforeSort
  <2>7. Cap # None /\ Loader.cut \notin {"end", "spread"} => n <= Cap
    BY <2>1 DEF Gathered, RoomInv
  <2>8. Cap # None /\ load.limit = 0 => n <= 1
    BY <2>1, <2>2, RoomOfNone
  <2>9. Cap \in Nat \cup {None} /\ (Cap = 0 => load.limit = 0)
    BY CapType
  <2>10. m = IF Cap # None /\ Loader.cut \in {"end", "spread"} /\ ~(n <= Cap) THEN Cap ELSE n
    BY DEF KeepMany
  <2>11. \A i, j \in 1..n : /\ old(i) \in Returned /\ (old(i) = old(j) => i = j)
                            /\ Earlier(old(i), old(j)) <=> i < j
    BY <2>1, ApartInOrder
  <2>12. Returned = {old(i) : i \in 1..n}
    BY <2>1, ReturnedIs
  <2> HIDE DEF n, order, keep, m, D
  <2>13. \A i \in 1..m : keep[i] \in 1..n /\ order[keep[i]] \in 1..n
    BY <2>4, <2>5 DEF Permutes
  <2>14. loaded' \in Seq(LoadedRows) /\ Len(loaded') = m /\ DOMAIN loaded' = 1..m
         /\ \A i \in 1..m : loaded'[i] = loaded[order[keep[i]]]
    <3>1. \A i \in 1..m : loaded[order[keep[i]]] \in LoadedRows
      BY <2>1, <2>13, Element
    <3>2. loaded' = [i \in 1..m |-> loaded[order[keep[i]]]]
      BY <2>2, <2>4
    <3> QED
      BY <2>4, <3>1, <3>2
  <2>15. \A i \in 1..m : new(i) = old(order[keep[i]])
    BY <2>14
  <2> HIDE DEF old, new
  <2>16. \A i, j \in 1..m : new(i) = new(j) => i = j
    <3> SUFFICES ASSUME NEW i \in 1..m, NEW j \in 1..m, new(i) = new(j) PROVE i = j
      OBVIOUS
    <3>1. order[keep[i]] = order[keep[j]]
      BY <2>11, <2>13, <2>15
    <3>2. keep[i] = keep[j]
      BY <2>5, <2>13, <3>1 DEF Permutes
    <3> QED
      BY <2>4, <3>2
  <2>17. Returned' = {new(i) : i \in 1..m} /\ Returned' \subseteq Returned
    <3>1. Returned' = {<<r.file, r.pos>> : r \in Range(loaded')}
      BY DEF Returned
    <3>2. Returned' = {PlaceOf(loaded'[i]) : i \in DOMAIN loaded'}
      BY <3>1, PlacesIn
    <3>3. Returned' = {new(i) : i \in 1..m}
      BY <2>14, <3>2 DEF new
    <3>4. \A i \in 1..m : new(i) \in Returned
      BY <2>11, <2>13, <2>15
    <3> QED
      BY <3>3, <3>4
  <2>18. Cardinality(Returned') = m
    <3> DEFINE g == [i \in 1..m |-> new(i)]
    <3>1. Returned' = {g[i] : i \in 1..m} /\ \A i, j \in 1..m : g[i] = g[j] => i = j
      BY <2>16, <2>17
    <3> HIDE DEF g
    <3> QED
      BY <2>4, <3>1, ManyAs
  <2>19. /\ Due' = Due /\ Sampled' = Sampled /\ Cap' = Cap /\ Loader' = Loader
         /\ \A r, q : Earlier(r, q)' = Earlier(r, q)
         /\ \A f, p : Clock(f, p)' = Clock(f, p)
    BY <1>1, LoadStays, SampleStays
  <2>20. Chosen'
    BY <2>6, <2>14, <2>17, <2>18, <2>19 DEF Chosen
  <2>21. LimitOfNone'
    <3>1. load.limit = 0 /\ Cap # None => m <= 1
      BY <2>1, <2>4, <2>8
    <3> QED
      BY <1>1, <2>14, <2>19, <3>1 DEF LimitOfNone
  <2>22. ManyDue'
    <3>1. ASSUME Limited PROVE m = IF Cap = None THEN D ELSE Min({Cap, D})
      <4>1. CASE Cap = None
        BY <2>6, <2>10, <4>1
      <4>2. CASE Cap # None
        <5>1. Cap \in Nat
          BY <2>9, <4>2
        <5>2. Min({Cap, D}) = IF Cap <= D THEN Cap ELSE D
          BY <2>6, <5>1, MinPair
        <5>3. CASE n = D
          BY <2>1, <2>7, <2>10, <4>2, <5>1, <5>2, <5>3
        <5>4. CASE n >= Cap /\ Loader.cut # "spread" /\ (Loader.cut # "end" => n = Cap)
          BY <2>1, <2>6, <2>10, <4>2, <5>1, <5>2, <5>4
        <5> QED
          BY <2>6, <3>1, <5>3, <5>4 DEF Limited
      <4> QED
        BY <4>1, <4>2
    <3> QED
      BY <1>1, <2>14, <2>19, <3>1 DEF ManyDue, Limited, D
  <2>23. FirstOnes'
    <3>1. ASSUME Loader.cut # "spread", NEW r \in Due, NEW q \in Returned', Earlier(r, q) PROVE r \in Returned'
      <4>1. r \in Returned
        BY <2>6, <2>17, <3>1
      <4>2. PICK i \in 1..n : r = old(i)
        BY <2>12, <4>1
      <4>3. PICK j \in 1..m : q = new(j)
        BY <2>17
      <4>4. CASE m = n
        <5>1. PICK k \in 1..n : order[k] = i
          BY <2>5 DEF Permutes
        <5>2. keep[k] = k
          BY <2>4, <3>1, <4>4
        <5>3. new(k) = r
          BY <2>15, <4>2, <4>4, <5>1, <5>2
        <5> QED
          BY <2>17, <4>4, <5>3
      <4>5. CASE m # n
        <5>1. Loader.cut = "end" /\ ~Timed
          <6>1. Loader.cut = "end"
            BY <2>10, <3>1, <4>5
          <6> QED
            BY <6>1, LoaderKinds DEF LoadInv, Kinds, Timed
        <5>2. \A k \in 1..m : new(k) = old(k) /\ k \in 1..n
          BY <2>1, <2>4, <2>5, <2>15, <3>1, <5>1
        <5>3. i < j
          BY <2>11, <3>1, <4>2, <4>3, <5>2
        <5>4. i \in 1..m
          BY <2>1, <2>4, <5>3
        <5> QED
          BY <2>17, <4>2, <5>2, <5>4
      <4> QED
        BY <4>4, <4>5
    <3> QED
      BY <1>1, <2>19, <3>1 DEF FirstOnes, Limited
  <2>24. SpreadOnes'
    <3>1. ASSUME Limited, Loader.cut = "spread", NEW i \in 1..m
          PROVE  Cardinality({q \in Due : Sooner(q, new(i))}) = ((i - 1) * D) \div m
      <4>1. Timed
        BY <3>1, LoaderKinds DEF LoadInv, Kinds, Timed
      <4>2. Returned = Due /\ n = D
        BY <2>6, <3>1 DEF Limited
      <4>3. ByTimes(order, n) /\ TheirTimes(n)
        BY <2>5, <4>1
      <4>4. keep[i] \in 1..n /\ keep[i] = ((i - 1) * n) \div m + 1
        BY <2>4, <3>1
      <4> DEFINE k == keep[i]
                 x == ((i - 1) * n) \div m
      <4>5. k \in 1..n /\ k = x + 1 /\ new(i) = PlaceOf(loaded[order[k]])
        BY <2>15, <4>4 DEF old
      <4> HIDE DEF k
      <4>6. Cardinality({q \in Returned : Sooner(q, PlaceOf(loaded[order[k]]))}) = k - 1
        <5>1. n = Len(loaded)
          BY DEF n
        <5>2. Permutes(order, n) /\ Gathered /\ n \in Nat
          BY <2>1, <2>5
        <5> QED
          BY <4>3, <4>5, <5>1, <5>2, RankIs
      <4>7. Cardinality({q \in Due : Sooner(q, new(i))}) = k - 1
        BY <4>2, <4>5, <4>6
      <4>8. k - 1 = x
        <5>1. m \in Nat \ {0} /\ (i - 1) * n \in Nat
          BY <2>1, <2>4
        <5>2. x \in Nat
          BY <5>1, Quotient
        <5> HIDE DEF x
        <5> QED
          BY <4>5, <5>2
      <4> QED
        BY <4>2, <4>7, <4>8
    <3>2. \A i \in 1..m : new(i) = <<loaded'[i].file, loaded'[i].pos>>
      BY DEF new, PlaceOf
    <3>3. \A r, q : Sooner(r, q)' = Sooner(r, q)
      BY <2>19 DEF Sooner
    <3> QED
      BY <1>1, <2>14, <2>19, <3>1, <3>2, <3>3 DEF SpreadOnes, Limited, D
  <2>25. AllCounted'
    <3>1. Cap = None => m = n
      BY <2>10
    <3>2. Told(Sampled)' = Told(Sampled)
      BY <1>1, <2>19, SampleStays, TellsStays DEF Told
    <3> QED
      BY <1>1, <2>6, <2>14, <2>19, <3>1, <3>2 DEF AllCounted
  <2>26. Reaches'
    BY <1>1, ReachesAll, ReachesStays
  <2>27. LoadIsSample' <=>
          (pc' = "done" => Chosen' /\ LimitOfNone' /\ ManyDue' /\ FirstOnes' /\ SpreadOnes' /\ AllCounted' /\ Reaches')
    BY DEF LoadIsSample, Chosen, LimitOfNone, Limited, ManyDue, FirstOnes, SpreadOnes, AllCounted, Reaches
  <2> QED
    BY <1>2, <2>20, <2>21, <2>22, <2>23, <2>24, <2>25, <2>26, <2>27
<1> QED
  BY <1>1, <1>3, <1>4

\* A step that changes nothing
LEMMA StillSample ==
  ASSUME UNCHANGED loaderVars
  PROVE  Underway' = Underway /\ LoadIsSample' = LoadIsSample
<1>1. /\ load' = load /\ pc' = pc /\ file' = file /\ seen' = seen /\ kept' = kept
      /\ loaded' = loaded /\ dropped' = dropped
  BY DEF loaderVars, reading, gathered
<1>2. /\ Loader' = Loader /\ ToRead' = ToRead /\ Cap' = Cap /\ Due' = Due /\ Sampled' = Sampled
      /\ \A r, q : Earlier(r, q)' = Earlier(r, q)
      /\ \A f, p : Clock(f, p)' = Clock(f, p)
      /\ \A f : FilePlace(f)' = FilePlace(f)
  BY <1>1, LoadStays, SampleStays
<1>3. Visited' = Visited
  BY <1>1, <1>2 DEF Visited
<1>4. Gathered' = Gathered /\ AllDue' = AllDue /\ Full' = Full
  BY <1>1, <1>3, GatheredStays
<1>5. At' = At /\ Stride(At)' = Stride(At) /\ Length(At)' = Length(At) /\ Budgeted' = Budgeted
  <2>1. At' = At
    BY <1>1, <1>2 DEF At
  <2> QED
    BY <1>1, <2>1 DEF Stride, Length, Budgeted
<1>6. Placed' = Placed /\ KeptInv' = KeptInv /\ EmptyInv' = EmptyInv /\ SortInv' = SortInv /\ Stopped' = Stopped
  BY <1>1, <1>2, <1>5 DEF Placed, KeptInv, EmptyInv, SortInv, Stopped, Ceil
<1>7. Underway' = Underway
  BY <1>1, <1>4, <1>6 DEF Underway
<1>8. Returned' = Returned
  BY <1>1 DEF Returned
<1>9. /\ Chosen' = Chosen /\ LimitOfNone' = LimitOfNone /\ ManyDue' = ManyDue
      /\ AllCounted' = AllCounted /\ Reaches' = Reaches
  <2>1. Told(Sampled)' = Told(Sampled)
    BY <1>1, <1>2, TellsStays DEF Told
  <2> QED
    BY <1>1, <1>2, <1>8, <2>1, ReachesStays DEF Chosen, LimitOfNone, Limited, ManyDue, AllCounted
<1>10. FirstOnes' = FirstOnes
  BY <1>1, <1>2, <1>8 DEF FirstOnes, Limited
<1>11. SpreadOnes' = SpreadOnes
  <2>1. \A r, q : Sooner(r, q)' = Sooner(r, q)
    BY <1>2 DEF Sooner
  <2> QED
    BY <1>1, <1>2, <2>1 DEF SpreadOnes, Limited
<1>12. LoadIsSample' <=>
        (pc' = "done" => Chosen' /\ LimitOfNone' /\ ManyDue' /\ FirstOnes' /\ SpreadOnes' /\ AllCounted' /\ Reaches')
  BY DEF LoadIsSample, Chosen, LimitOfNone, Limited, ManyDue, FirstOnes, SpreadOnes, AllCounted, Reaches
<1>13. LoadIsSample' <=> LoadIsSample
  BY <1>1, <1>9, <1>10, <1>11, <1>12, LoadIsSampleParts
<1>14. LoadIsSample' \in BOOLEAN /\ LoadIsSample \in BOOLEAN
  BY DEF LoadIsSample
<1> QED
  BY <1>7, <1>13, <1>14

SampleInv == LoadInv /\ TimedInv /\ Underway /\ LoadIsSample

LEMMA SampleStart == LoadersInit => SampleInv
<1> SUFFICES ASSUME LoadersInit PROVE SampleInv
  OBVIOUS
<1>1. LoadInv /\ TimedInv
  BY LoadersStart
<1>2. Underway
  BY <1>1, InitSample
<1>3. LoadIsSample
  BY DEF LoadersInit, LoadIsSample
<1> QED
  BY <1>1, <1>2, <1>3 DEF SampleInv

LEMMA SampleStep == SampleInv /\ [LoadersNext]_loaderVars => SampleInv'
<1> SUFFICES ASSUME SampleInv, [LoadersNext]_loaderVars PROVE SampleInv'
  OBVIOUS
<1>1. LoadInv /\ TimedInv /\ Underway /\ LoadIsSample
  BY DEF SampleInv
<1>2. LoadInv' /\ TimedInv'
  BY <1>1, LoadersStep
<1>3. CASE Open
  <2>1. pc' # "done"
    BY <1>3 DEF Open
  <2> QED
    BY <1>1, <1>2, <1>3, <2>1, OpenSample DEF SampleInv, LoadIsSample
<1>4. CASE EndOfFile
  <2>1. pc' # "done"
    BY <1>4 DEF EndOfFile
  <2> QED
    BY <1>1, <1>2, <1>4, <2>1, EndOfFileSample DEF SampleInv, LoadIsSample
<1>5. CASE ReadChunk
  <2>1. pc' # "done"
    BY <1>5 DEF ReadChunk
  <2> QED
    BY <1>1, <1>2, <1>5, <2>1, ReadChunkSample DEF SampleInv, LoadIsSample
<1>6. CASE ReadFile
  <2>1. pc' # "done"
    BY <1>6 DEF ReadFile
  <2> QED
    BY <1>1, <1>2, <1>6, <2>1, ReadFileSample DEF SampleInv, LoadIsSample
<1>7. CASE Return
  BY <1>1, <1>2, <1>7, ReturnSample DEF SampleInv
<1>8. CASE UNCHANGED loaderVars
  BY <1>1, <1>2, <1>8, StillSample DEF SampleInv
<1> QED
  BY <1>3, <1>4, <1>5, <1>6, <1>7, <1>8 DEF LoadersNext

\* A load is its sample, whatever the chunks are: every row of the sample that has a
\* class, once, or under a limit the first of them in the order of reading, of captures
\* rows spread evenly in time; without a limit, those passed over that the loader counts
\* are counted, each once, and a budget reaches over more than half of every file
\* (_iter_chunks, _read_rows and the load functions).
THEOREM LoadIsSampleHolds == LoadersSpec => []LoadIsSample
<1>1. SampleInv => LoadIsSample
  BY DEF SampleInv
<1> QED
  BY <1>1, SampleStart, SampleStep, PTL DEF LoadersSpec

-----------------------------------------------------------------------------
(* What the features can tell.  A sum over a set is a recursive function on  *)
(* its subsets, taking out an element that CHOOSE picks.  What the best      *)
(* guess gets right satisfies the recursion; a smallest subset on which      *)
(* another solution differs from it does not exist, nor one on which another *)
(* guess gets more right.                                                    *)

ClassOf(r) == Class(r[1], r[2])
AnyOf(s) == CHOOSE x \in s : TRUE

\* What the guess g gets right of the rows whose vectors are in s
Right(g, judged, s) == {r \in judged : VectorOf(r) \in s /\ ClassOf(r) = g[VectorOf(r)]}
Hits(g, judged, s) == Cardinality(Right(g, judged, s))

\* g guesses the class that most rows have.
Best(g, judged, D) ==
  \A v \in D : g[v] \in Loader.keeps /\ CountOf(judged, v, g[v]) = Majority(judged, v)

\* f adds up majorities over every subset of D.
AddsMajorities(f, judged, D) ==
  f = [s \in SUBSET D |-> IF s = {} THEN 0 ELSE Majority(judged, AnyOf(s)) + f[s \ {AnyOf(s)}]]

LEMMA SmallestSubset ==
  ASSUME NEW D, IsFiniteSet(D), NEW B \in SUBSET (SUBSET D), B # {}
  PROVE  \E x \in B : \A y \in B : ~(y \subseteq x /\ y # x)
<1>1. B \subseteq FiniteSubsetsOf(D)
  BY FS_Subset DEF FiniteSubsetsOf
<1>2. \E x \in B : \A y \in B : ~(<<y, x>> \in StrictSubsetOrdering(D))
  BY <1>1, FS_StrictSubsetOrderingWellFounded, WFMin
<1> QED
  BY <1>2 DEF StrictSubsetOrdering

LEMMA SeveralOf ==
  ASSUME NEW S, IsFiniteSet(S)
  PROVE  Cardinality(S) > 1 <=> \E a, b \in S : a # b
<1>1. Cardinality(S) \in Nat
  BY FS_CardinalityType
<1>2. ASSUME NEW a \in S, NEW b \in S, a # b PROVE Cardinality(S) > 1
  <2>1. Cardinality(S) # 0
    BY FS_EmptySet
  <2>2. Cardinality(S) # 1
    <3> SUFFICES ASSUME Cardinality(S) = 1 PROVE FALSE
      OBVIOUS
    <3>1. PICK x : S = {x}
      BY FS_Singleton
    <3> QED
      BY <1>2, <3>1
  <2> QED
    BY <1>1, <2>1, <2>2
<1>3. ASSUME Cardinality(S) > 1 PROVE \E a, b \in S : a # b
  <2>1. S # {}
    BY <1>3, FS_EmptySet
  <2>2. PICK a \in S : TRUE
    BY <2>1
  <2>3. S # {a}
    BY <1>3, FS_Singleton
  <2> QED
    BY <2>2, <2>3
<1> QED
  BY <1>2, <1>3

\* The rows that are judged are rows of the sample that have a class.
LEMMA JudgedRows ==
  ASSUME LoadInv, NEW judged \in SUBSET MappedRows
  PROVE  /\ IsFiniteSet(judged)
         /\ \A r \in judged : ClassOf(r) \in Loader.keeps
         /\ Loader.keeps \subseteq Values /\ Loader.keeps # {}
<1>1. judged \subseteq Sampled
  BY DEF MappedRows
<1>2. IsFiniteSet(judged)
  BY <1>1, SampledRows, FS_Subset
<1>3. Loader.keeps \subseteq Values /\ Loader.keeps # {}
  BY LoaderKinds DEF LoadInv, Kinds, Values
<1>4. \A r \in judged : ClassOf(r) \in Loader.keeps
  BY DEF MappedRows, Known, ClassOf
<1> QED
  BY <1>2, <1>3, <1>4

LEMMA CountIs ==
  ASSUME LoadInv, NEW judged \in SUBSET MappedRows, NEW v, NEW c
  PROVE  /\ CountOf(judged, v, c) = Cardinality({r \in judged : VectorOf(r) = v /\ ClassOf(r) = c})
         /\ CountOf(judged, v, c) \in Nat
         /\ CountOf(judged, v, c) > 0 <=> \E r \in judged : VectorOf(r) = v /\ ClassOf(r) = c
         /\ c \notin Loader.keeps => CountOf(judged, v, c) = 0
<1> DEFINE R == {r \in judged : VectorOf(r) = v /\ ClassOf(r) = c}
<1>1. CountOf(judged, v, c) = Cardinality(R)
  BY DEF CountOf, VectorOf, ClassOf
<1>2. IsFiniteSet(R)
  BY JudgedRows, FS_Subset
<1>3. Cardinality(R) \in Nat /\ (Cardinality(R) = 0 <=> R = {})
  BY <1>2, FS_CardinalityType, FS_EmptySet
<1>4. R # {} <=> \E r \in judged : VectorOf(r) = v /\ ClassOf(r) = c
  OBVIOUS
<1>5. c \notin Loader.keeps => R = {}
  BY JudgedRows
<1> HIDE DEF R
<1>6. Cardinality(R) > 0 <=> R # {}
  BY <1>3
<1> QED
  BY <1>1, <1>3, <1>4, <1>5, <1>6 DEF R

LEMMA MajorityIs ==
  ASSUME LoadInv, NEW judged \in SUBSET MappedRows, NEW v
  PROVE  /\ Majority(judged, v) \in Nat
         /\ \A c \in Values : CountOf(judged, v, c) <= Majority(judged, v)
         /\ \E c \in Loader.keeps : CountOf(judged, v, c) = Majority(judged, v)
<1> DEFINE a == CountOf(judged, v, "attack")
           b == CountOf(judged, v, "benign")
           u == CountOf(judged, v, "unmapped")
           N == {CountOf(judged, v, c) : c \in Values}
<1>1. a \in Nat /\ b \in Nat /\ u \in Nat
  BY CountIs
<1>2. N = {a, b, u}
  BY DEF Values
<1>3. PICK x \in N : x \in Nat /\ \A y \in N : y <= x
  <2> HIDE DEF a, b, u, N
  <2> QED
    BY <1>1, <1>2
<1>4. N \subseteq Int
  <2> HIDE DEF a, b, u, N
  <2> QED
    BY <1>1, <1>2
<1>5. Majority(judged, v) = x
  <2>1. Max(N) = x
    <3> HIDE DEF N
    <3> QED
      BY <1>3, <1>4, GreatestIs
  <2> QED
    BY <2>1 DEF Majority
<1>6. \A c \in Values : CountOf(judged, v, c) <= x
  BY <1>3
<1>7. PICK c \in Values : CountOf(judged, v, c) = x
  BY <1>3
<1>8. \E e \in Loader.keeps : CountOf(judged, v, e) = x
  <2>1. CASE c \in Loader.keeps
    BY <1>7, <2>1
  <2>2. CASE c \notin Loader.keeps
    <3>1. x = 0
      BY <1>7, <2>2, CountIs
    <3>2. PICK e \in Loader.keeps : e \in Values
      BY JudgedRows
    <3>3. CountOf(judged, v, e) <= 0 /\ CountOf(judged, v, e) \in Nat
      BY <1>6, <3>1, <3>2, CountIs
    <3> QED
      BY <3>1, <3>2, <3>3
  <2> QED
    BY <2>1, <2>2
<1> HIDE DEF N
<1> QED
  BY <1>3, <1>5, <1>6, <1>8

LEMMA HitsType ==
  ASSUME LoadInv, NEW judged \in SUBSET MappedRows, NEW g, NEW s
  PROVE  IsFiniteSet(Right(g, judged, s)) /\ Hits(g, judged, s) \in Nat
<1>1. Right(g, judged, s) \subseteq judged
  BY DEF Right
<1>2. IsFiniteSet(Right(g, judged, s))
  BY <1>1, JudgedRows, FS_Subset
<1> QED
  BY <1>2, FS_CardinalityType DEF Hits

\* What is right of two sets of vectors
LEMMA HitsApart ==
  ASSUME LoadInv, NEW judged \in SUBSET MappedRows, NEW g, NEW s, NEW t, s \cap t = {}
  PROVE  Hits(g, judged, s \cup t) = Hits(g, judged, s) + Hits(g, judged, t)
<1> DEFINE A == Right(g, judged, s)
           B == Right(g, judged, t)
<1>1. IsFiniteSet(A) /\ IsFiniteSet(B) /\ Cardinality(A) \in Nat /\ Cardinality(B) \in Nat
  BY HitsType DEF Hits
<1>2. A \cap B = {} /\ Right(g, judged, s \cup t) = A \cup B
  BY DEF Right
<1>3. Cardinality(A \cap B) = 0
  BY <1>2, FS_EmptySet
<1>4. Cardinality(A \cup B) = Cardinality(A) + Cardinality(B) - Cardinality(A \cap B)
  BY <1>1, FS_Union
<1> HIDE DEF A, B
<1>5. Cardinality(A \cup B) = Cardinality(A) + Cardinality(B)
  BY <1>1, <1>3, <1>4
<1> QED
  BY <1>2, <1>5 DEF Hits, A, B

LEMMA HitsStep ==
  ASSUME LoadInv, NEW judged \in SUBSET MappedRows, NEW g, NEW s, NEW x \in s
  PROVE  Hits(g, judged, s) = CountOf(judged, x, g[x]) + Hits(g, judged, s \ {x})
<1>1. Hits(g, judged, {x} \cup (s \ {x})) = Hits(g, judged, {x}) + Hits(g, judged, s \ {x})
  <2>1. {x} \cap (s \ {x}) = {}
    OBVIOUS
  <2> QED
    BY <2>1, HitsApart
<1>2. {x} \cup (s \ {x}) = s
  OBVIOUS
<1>3. Right(g, judged, {x}) = {r \in judged : VectorOf(r) = x /\ ClassOf(r) = g[x]}
  BY DEF Right
<1>4. Hits(g, judged, {x}) = CountOf(judged, x, g[x])
  BY <1>3, CountIs DEF Hits
<1> QED
  BY <1>1, <1>2, <1>4

LEMMA HitsNone ==
  ASSUME NEW judged, NEW g
  PROVE  Hits(g, judged, {}) = 0
<1>1. Right(g, judged, {}) = {}
  BY DEF Right
<1> QED
  BY <1>1, FS_EmptySet DEF Hits

LEMMA BestExists ==
  ASSUME LoadInv, NEW judged \in SUBSET MappedRows
  PROVE  \E g \in [VectorsIn(judged) -> Loader.keeps] : Best(g, judged, VectorsIn(judged))
<1> DEFINE g == [v \in VectorsIn(judged) |->
                   CHOOSE c \in Loader.keeps : CountOf(judged, v, c) = Majority(judged, v)]
<1>1. ASSUME NEW v \in VectorsIn(judged)
      PROVE  g[v] \in Loader.keeps /\ CountOf(judged, v, g[v]) = Majority(judged, v)
  <2>1. \E c \in Loader.keeps : CountOf(judged, v, c) = Majority(judged, v)
    BY MajorityIs
  <2> QED
    BY <2>1
<1>2. g \in [VectorsIn(judged) -> Loader.keeps]
  BY <1>1
<1> HIDE DEF g
<1> QED
  BY <1>1, <1>2 DEF Best

\* The sum of the majorities is what the best guess gets right.
LEMMA SumIsBest ==
  ASSUME LoadInv, NEW judged \in SUBSET MappedRows, NEW D, IsFiniteSet(D), NEW g, Best(g, judged, D)
  PROVE  MapThenSumSet(LAMBDA v : Majority(judged, v), D) = Hits(g, judged, D)
<1> DEFINE h == [s \in SUBSET D |-> Hits(g, judged, s)]
<1>1. \A s : s # {} => AnyOf(s) \in s
  BY DEF AnyOf
<1>2. ASSUME NEW s \in SUBSET D, s # {}
      PROVE  Hits(g, judged, s) = Majority(judged, AnyOf(s)) + Hits(g, judged, s \ {AnyOf(s)})
  <2>1. AnyOf(s) \in s /\ AnyOf(s) \in D
    BY <1>1, <1>2
  <2>2. CountOf(judged, AnyOf(s), g[AnyOf(s)]) = Majority(judged, AnyOf(s))
    BY <2>1 DEF Best
  <2>3. \A x \in s : Hits(g, judged, s) = CountOf(judged, x, g[x]) + Hits(g, judged, s \ {x})
    BY HitsStep
  <2> QED
    BY <2>1, <2>2, <2>3
<1>3. AddsMajorities(h, judged, D)
  <2>1. \A s \in SUBSET D : s \ {AnyOf(s)} \in SUBSET D
    OBVIOUS
  <2>2. ASSUME NEW s \in SUBSET D
        PROVE  h[s] = IF s = {} THEN 0 ELSE Majority(judged, AnyOf(s)) + h[s \ {AnyOf(s)}]
    BY <1>2, <2>1, HitsNone
  <2>3. h = [s \in SUBSET D |-> h[s]]
    OBVIOUS
  <2> HIDE DEF h
  <2> QED
    BY <2>2, <2>3 DEF AddsMajorities
<1>4. ASSUME NEW f, AddsMajorities(f, judged, D) PROVE f[D] = Hits(g, judged, D)
  <2>1. \A s \in SUBSET D : f[s] = IF s = {} THEN 0 ELSE Majority(judged, AnyOf(s)) + f[s \ {AnyOf(s)}]
    BY <1>4 DEF AddsMajorities
  <2> DEFINE B == {s \in SUBSET D : f[s] # Hits(g, judged, s)}
  <2>2. B = {}
    <3> SUFFICES ASSUME B # {} PROVE FALSE
      OBVIOUS
    <3>1. PICK x \in B : \A y \in B : ~(y \subseteq x /\ y # x)
      <4>1. B \in SUBSET (SUBSET D)
        OBVIOUS
      <4> HIDE DEF B
      <4> QED
        BY <4>1, SmallestSubset
    <3>2. x # {}
      BY <2>1, HitsNone
    <3> DEFINE y == x \ {AnyOf(x)}
    <3>3. y \in SUBSET D /\ y \subseteq x /\ y # x
      BY <1>1, <3>2
    <3>4. f[y] = Hits(g, judged, y)
      BY <3>1, <3>3
    <3>5. x \in SUBSET D /\ f[x] = Majority(judged, AnyOf(x)) + f[y]
      BY <2>1, <3>2
    <3>6. Hits(g, judged, x) = Majority(judged, AnyOf(x)) + Hits(g, judged, y)
      BY <1>2, <3>2, <3>5
    <3> QED
      BY <3>4, <3>5, <3>6
  <2> QED
    BY <2>2
<1>5. MapThenSumSet(LAMBDA v : Majority(judged, v), D) = (CHOOSE f : AddsMajorities(f, judged, D))[D]
  BY DEF MapThenSumSet, MapThenFoldSet, AddsMajorities, AnyOf
<1>6. AddsMajorities(CHOOSE f : AddsMajorities(f, judged, D), judged, D)
  BY <1>3
<1> QED
  BY <1>4, <1>5, <1>6

\* No guess gets more right.
LEMMA BestIsMost ==
  ASSUME LoadInv, NEW judged \in SUBSET MappedRows, NEW D, IsFiniteSet(D), NEW g, Best(g, judged, D),
         NEW e \in [D -> Loader.keeps]
  PROVE  Hits(e, judged, D) <= Hits(g, judged, D)
<1> DEFINE B == {s \in SUBSET D : ~(Hits(e, judged, s) <= Hits(g, judged, s))}
<1>1. B = {}
  <2> SUFFICES ASSUME B # {} PROVE FALSE
    OBVIOUS
  <2>1. PICK x \in B : \A y \in B : ~(y \subseteq x /\ y # x)
    <3>1. B \in SUBSET (SUBSET D)
      OBVIOUS
    <3> HIDE DEF B
    <3> QED
      BY <3>1, SmallestSubset
  <2>2. x \in SUBSET D /\ ~(Hits(e, judged, x) <= Hits(g, judged, x))
    OBVIOUS
  <2>3. x # {}
    BY <2>2, HitsNone
  <2>4. PICK v \in x : v \in D
    BY <2>2, <2>3
  <2> DEFINE y == x \ {v}
  <2>5. Hits(e, judged, y) <= Hits(g, judged, y)
    BY <2>1, <2>2, <2>4
  <2>6. Hits(e, judged, x) = CountOf(judged, v, e[v]) + Hits(e, judged, y)
    BY HitsStep
  <2>7. Hits(g, judged, x) = CountOf(judged, v, g[v]) + Hits(g, judged, y)
    BY HitsStep
  <2>8. CountOf(judged, v, e[v]) <= CountOf(judged, v, g[v])
    <3>1. e[v] \in Values
      BY <2>4, JudgedRows
    <3>2. CountOf(judged, v, e[v]) <= Majority(judged, v)
      BY <3>1, MajorityIs
    <3> QED
      BY <2>4, <3>2 DEF Best
  <2>9. /\ CountOf(judged, v, e[v]) \in Nat /\ CountOf(judged, v, g[v]) \in Nat
        /\ Hits(e, judged, y) \in Nat /\ Hits(g, judged, y) \in Nat
    BY CountIs, HitsType
  <2> HIDE DEF y, B
  <2> QED
    BY <2>2, <2>5, <2>6, <2>7, <2>8, <2>9
<1> QED
  BY <1>1

LEMMA VectorsFinite ==
  ASSUME LoadInv, NEW judged \in SUBSET MappedRows
  PROVE  IsFiniteSet(VectorsIn(judged)) /\ \A v : v \in VectorsIn(judged) <=> \E r \in judged : VectorOf(r) = v
<1> DEFINE g == [r \in judged |-> VectorOf(r)]
<1>1. VectorsIn(judged) = {VectorOf(r) : r \in judged}
  BY DEF VectorsIn, VectorOf
<1>2. g \in Surjection(judged, VectorsIn(judged))
  BY <1>1 DEF Surjection
<1> QED
  BY <1>1, <1>2, JudgedRows, FS_Surjection

\* The ceiling of the first report
LEMMA CeilingIs ==
  ASSUME LoadInv, NEW judged \in SUBSET MappedRows
  PROVE  Achievable(judged) = Max({Cardinality({r \in judged : g[Vector(r[1], r[2])] = Class(r[1], r[2])}) :
                                   g \in [VectorsIn(judged) -> Loader.keeps]})
<1> DEFINE V == VectorsIn(judged)
           N == {Cardinality({r \in judged : g[Vector(r[1], r[2])] = Class(r[1], r[2])}) : g \in [V -> Loader.keeps]}
<1>1. IsFiniteSet(V) /\ \A r \in judged : VectorOf(r) \in V
  BY VectorsFinite
<1>2. ASSUME NEW g
      PROVE  Cardinality({r \in judged : g[Vector(r[1], r[2])] = Class(r[1], r[2])}) = Hits(g, judged, V)
  <2>1. {r \in judged : g[Vector(r[1], r[2])] = Class(r[1], r[2])}
          = {r \in judged : VectorOf(r) \in V /\ ClassOf(r) = g[VectorOf(r)]}
    <3>1. \A r \in judged : /\ VectorOf(r) \in V
                            /\ VectorOf(r) = Vector(r[1], r[2]) /\ ClassOf(r) = Class(r[1], r[2])
      BY <1>1 DEF VectorOf, ClassOf
    <3> HIDE DEF V
    <3> QED
      BY <3>1
  <2> QED
    BY <2>1 DEF Hits, Right
<1>3. N = {Hits(g, judged, V) : g \in [V -> Loader.keeps]}
  <2> HIDE DEF V
  <2> QED
    BY <1>2
<1>4. PICK b \in [V -> Loader.keeps] : Best(b, judged, V)
  BY BestExists
<1>5. Achievable(judged) = Hits(b, judged, V)
  BY <1>1, <1>4, SumIsBest DEF Achievable
<1> HIDE DEF V, N
<1>6. N \subseteq Int
  BY <1>3, HitsType
<1>7. Hits(b, judged, V) \in N
  BY <1>3
<1>8. \A x \in N : x <= Hits(b, judged, V)
  BY <1>1, <1>3, <1>4, BestIsMost
<1>9. Max(N) = Hits(b, judged, V)
  BY <1>6, <1>7, <1>8, GreatestIs
<1> QED
  BY <1>5, <1>9 DEF N, V

LEMMA TwiceIs ==
  ASSUME LoadInv, NEW judged \in SUBSET MappedRows, NEW v
  PROVE  v \in AmbiguousIn(judged) <=>
           \E q, r \in judged : /\ VectorOf(q) = v /\ VectorOf(r) = v
                                /\ ClassOf(q) # ClassOf(r)
<1> DEFINE S == {c \in Values : CountOf(judged, v, c) > 0}
<1>1. IsFiniteSet(S)
  <2>1. IsFiniteSet(Values)
    <3>1. Values = ({"attack"} \cup {"benign"}) \cup {"unmapped"}
      BY DEF Values
    <3>2. IsFiniteSet({"attack"}) /\ IsFiniteSet({"benign"}) /\ IsFiniteSet({"unmapped"})
      BY FS_Singleton
    <3> QED
      BY <3>1, <3>2, FS_Union
  <2> QED
    BY <2>1, FS_Subset
<1>2. \A c : c \in S <=> \E r \in judged : VectorOf(r) = v /\ ClassOf(r) = c
  <2>1. \A r \in judged : ClassOf(r) \in Values
    BY JudgedRows
  <2>2. \A c : CountOf(judged, v, c) > 0 <=> \E r \in judged : VectorOf(r) = v /\ ClassOf(r) = c
    BY CountIs
  <2> QED
    BY <2>1, <2>2
<1>3. v \in AmbiguousIn(judged) <=> v \in VectorsIn(judged) /\ Cardinality(S) > 1
  BY DEF AmbiguousIn
<1> HIDE DEF S
<1>4. Cardinality(S) > 1 <=> \E a, b \in S : a # b
  BY <1>1, SeveralOf
<1>5. v \in VectorsIn(judged) <=> \E r \in judged : VectorOf(r) = v
  BY VectorsFinite
<1> QED
  BY <1>2, <1>3, <1>4, <1>5

\* The rows of a vector of one class are all right.
LEMMA WaysAgree ==
  ASSUME LoadInv, NEW judged \in SUBSET MappedRows
  PROVE  Achievable2019(judged) = Achievable(judged)
<1> DEFINE V == VectorsIn(judged)
           T == AmbiguousIn(judged)
           A == {r \in judged : Vector(r[1], r[2]) \in T}
           B == {r \in judged : VectorOf(r) \in V \ T}
<1>1. T \subseteq V /\ IsFiniteSet(V) /\ IsFiniteSet(T) /\ \A r \in judged : VectorOf(r) \in V
  <2>1. T \subseteq V
    BY DEF AmbiguousIn
  <2>2. IsFiniteSet(V) /\ \A r \in judged : VectorOf(r) \in V
    BY VectorsFinite
  <2> QED
    BY <2>1, <2>2, FS_Subset
<1>2. PICK b \in [V -> Loader.keeps] : Best(b, judged, V)
  BY BestExists
<1>3. Best(b, judged, T)
  BY <1>1, <1>2 DEF Best
<1>4. Achievable(judged) = Hits(b, judged, V)
  BY <1>1, <1>2, SumIsBest DEF Achievable
<1>5. MapThenSumSet(LAMBDA v : Majority(judged, v), T) = Hits(b, judged, T)
  BY <1>1, <1>3, SumIsBest
<1>6. Achievable2019(judged) = Cardinality(judged) - Cardinality(A) + Hits(b, judged, T)
  BY <1>5 DEF Achievable2019
<1>7. Hits(b, judged, V) = Hits(b, judged, T) + Hits(b, judged, V \ T)
  <2>1. T \cup (V \ T) = V /\ T \cap (V \ T) = {}
    BY <1>1
  <2> QED
    BY <2>1, HitsApart
<1>8. Right(b, judged, V \ T) = B
  <2>1. ASSUME NEW r \in judged, VectorOf(r) \in V \ T PROVE ClassOf(r) = b[VectorOf(r)]
    <3> DEFINE v == VectorOf(r)
    <3>1. CountOf(judged, v, ClassOf(r)) > 0 /\ CountOf(judged, v, ClassOf(r)) \in Nat
      BY CountIs
    <3>2. CountOf(judged, v, ClassOf(r)) <= Majority(judged, v)
      BY JudgedRows, MajorityIs
    <3>3. CountOf(judged, v, b[v]) = Majority(judged, v) /\ Majority(judged, v) \in Nat
      BY <1>2, <2>1, MajorityIs DEF Best
    <3>4. CountOf(judged, v, b[v]) > 0
      <4> HIDE DEF v
      <4> QED
        BY <3>1, <3>2, <3>3
    <3>5. PICK q \in judged : VectorOf(q) = v /\ ClassOf(q) = b[v]
      BY <3>4, CountIs
    <3>6. v \notin T
      BY <2>1
    <3> QED
      BY <3>5, <3>6, TwiceIs
  <2> HIDE DEF V, T
  <2> QED
    BY <2>1 DEF Right
<1>9. A \cup B = judged /\ A \cap B = {}
  <2>1. \A r \in judged : VectorOf(r) = Vector(r[1], r[2])
    BY DEF VectorOf
  <2> HIDE DEF V, T
  <2> QED
    BY <1>1, <2>1
<1>10. Cardinality(judged) = Cardinality(A) + Cardinality(B) /\ Cardinality(A) \in Nat /\ Cardinality(B) \in Nat
  <2>1. IsFiniteSet(A) /\ IsFiniteSet(B)
    <3>1. A \subseteq judged /\ B \subseteq judged
      OBVIOUS
    <3> HIDE DEF A, B
    <3> QED
      BY <3>1, JudgedRows, FS_Subset
  <2> HIDE DEF A, B
  <2>2. Cardinality(A \cap B) = 0
    BY <1>9, FS_EmptySet
  <2>3. Cardinality(A) \in Nat /\ Cardinality(B) \in Nat
    BY <2>1, FS_CardinalityType
  <2>4. Cardinality(A \cup B) = Cardinality(A) + Cardinality(B) - Cardinality(A \cap B)
    BY <2>1, FS_Union
  <2>5. Cardinality(A \cup B) = Cardinality(A) + Cardinality(B)
    BY <2>2, <2>3, <2>4
  <2> QED
    BY <1>9, <2>3, <2>5
<1>11. Hits(b, judged, V \ T) = Cardinality(B)
  BY <1>8 DEF Hits
<1>12. Hits(b, judged, T) \in Nat
  BY HitsType
<1> HIDE DEF A, B, V, T
<1> QED
  BY <1>4, <1>6, <1>7, <1>10, <1>11, <1>12

\* Where ambiguous vectors are left out, what is due are the first rows of the others.
LEMMA DueVectors ==
  ASSUME LoadInv, Loader.unique
  PROVE  /\ \A r, q \in Due : VectorOf(r) = VectorOf(q) => r = q
         /\ VectorsIn(Due) = VectorsIn(MappedRows) \ AmbiguousIn(MappedRows)
<1>1. /\ Due \subseteq MappedRows /\ MappedRows \subseteq Sampled /\ MappedRows \subseteq FileRows
      /\ Due = {r \in MappedRows : /\ ~TwoClasses(VectorOf(r))
                                   /\ \A q \in MappedRows : VectorOf(q) = VectorOf(r) => ~Earlier(q, r)}
  BY DueIs, SampledRows DEF MappedRows
<1>2. ASSUME NEW r \in Due, NEW q \in Due, VectorOf(r) = VectorOf(q) PROVE r = q
  <2>1. ~Earlier(q, r) /\ ~Earlier(r, q) /\ r \in FileRows /\ q \in FileRows
    BY <1>1, <1>2
  <2> QED
    BY <2>1, EarlierOrders
<1>3. Loader.keeps = {"attack", "benign"}
  BY LoaderKinds DEF LoadInv, Kinds
<1>4. ASSUME NEW v PROVE v \in AmbiguousIn(MappedRows) <=> TwoClasses(v)
  <2>1. TwoClasses(v) <=> /\ \E r \in MappedRows : ClassOf(r) = "attack" /\ VectorOf(r) = v
                          /\ \E r \in MappedRows : ClassOf(r) = "benign" /\ VectorOf(r) = v
    BY <1>3 DEF TwoClasses, SampledAs, MappedRows, Known, VectorOf, ClassOf
  <2>2. \A r \in MappedRows : ClassOf(r) \in {"attack", "benign"}
    BY <1>3, JudgedRows
  <2>3. v \in AmbiguousIn(MappedRows) <=>
          \E q, r \in MappedRows : VectorOf(q) = v /\ VectorOf(r) = v /\ ClassOf(q) # ClassOf(r)
    BY TwiceIs
  <2> QED
    BY <2>1, <2>2, <2>3
<1>5. ASSUME NEW r \in MappedRows, ~TwoClasses(VectorOf(r))
      PROVE  \E q \in Due : VectorOf(q) = VectorOf(r)
  <2> DEFINE M == {q \in MappedRows : VectorOf(q) = VectorOf(r)}
  <2>1. M \in SUBSET Sampled /\ M # {}
    BY <1>1
  <2>2. PICK q \in M : \A t \in M : ~Earlier(t, q)
    <3> HIDE DEF M
    <3> QED
      BY <2>1, EarliestRow
  <2>3. q \in Due
    BY <1>1, <1>5, <2>2
  <2> QED
    BY <2>2, <2>3
<1>6. /\ \A v : v \in VectorsIn(Due) <=> \E r \in Due : VectorOf(r) = v
      /\ \A v : v \in VectorsIn(MappedRows) <=> \E r \in MappedRows : VectorOf(r) = v
  BY <1>1, VectorsFinite
<1>7. ASSUME NEW v
      PROVE  v \in VectorsIn(Due) <=> v \in VectorsIn(MappedRows) /\ v \notin AmbiguousIn(MappedRows)
  BY <1>1, <1>4, <1>5, <1>6
<1> QED
  BY <1>2, <1>7

\* What is known of a load that has returned
LEMMA AmbiguityOfLoad ==
  ASSUME SampleInv, pc = "done"
  PROVE  AmbiguityIsKnown
<1>1. LoadInv /\ Chosen /\ ManyDue
  BY LoadIsSampleParts DEF SampleInv
<1>2. Returned \subseteq Due /\ Cardinality(Returned) = Len(loaded)
  BY <1>1 DEF Chosen
<1>3. Judged \in SUBSET MappedRows /\ (Loader.unique => Judged = MappedRows)
  <2>1. CASE ~Loader.unique
    BY <1>2, <2>1, DueIs DEF Judged
  <2>2. CASE Loader.unique
    BY <1>1, <2>2, AmbiguousIs DEF Judged
  <2> QED
    BY <2>1, <2>2
<1>4. Achievable(Judged) = Max({Cardinality({r \in Judged : g[Vector(r[1], r[2])] = Class(r[1], r[2])}) :
                                g \in [VectorsIn(Judged) -> Loader.keeps]})
  BY <1>1, <1>3, CeilingIs
<1>5. Achievable2019(Judged) = Achievable(Judged)
  BY <1>1, <1>3, WaysAgree
<1>6. IsFiniteSet(Due) /\ IsFiniteSet(Returned)
  <2>1. Due \subseteq Sampled
    BY DueIs DEF MappedRows
  <2>2. IsFiniteSet(Due)
    BY <1>1, <2>1, SampledRows, FS_Subset
  <2> QED
    BY <1>2, <2>2, FS_Subset
<1>7. ASSUME Loader.unique PROVE Cardinality(VectorsIn(Returned)) = Len(loaded)
  <2> DEFINE g == [r \in Returned |-> VectorOf(r)]
  <2>1. VectorsIn(Returned) = {VectorOf(r) : r \in Returned}
    BY DEF VectorsIn, VectorOf
  <2>2. \A r, q \in Returned : VectorOf(r) = VectorOf(q) => r = q
    BY <1>1, <1>2, <1>7, DueVectors
  <2>3. g \in Bijection(Returned, VectorsIn(Returned))
    BY <2>1, <2>2 DEF Bijection, Injection, Surjection, IsInjective
  <2> QED
    BY <1>2, <1>6, <2>3, FS_Bijection DEF ExistsBijection
<1>8. ASSUME Loader.unique, Cap = None
      PROVE  VectorsIn(Returned) = VectorsIn(Judged) \ AmbiguousIn(Judged)
  <2>1. Len(loaded) = Cardinality(Due)
    BY <1>1, <1>8 DEF ManyDue, Limited
  <2>2. Returned = Due
    BY <1>2, <1>6, <2>1, FS_Subset
  <2> QED
    BY <1>1, <1>3, <1>8, <2>2, DueVectors
<1> QED
  BY <1>4, <1>5, <1>7, <1>8 DEF AmbiguityIsKnown

\* The ceiling that the reports give is what some function of the features reaches and
\* none exceeds, in either way of counting; a loader that leaves ambiguous vectors out
\* returns one row of each of the others, and without a limit it leaves none of those
\* out (label_quality_report of run_cicids2018_experiment.py and of
\* run_cicddos2019_experiment.py, find_ambiguous_vectors of twin/dnsexf2021.py).
THEOREM AmbiguityIsKnownHolds == LoadersSpec => []AmbiguityIsKnown
<1>1. SampleInv => AmbiguityIsKnown
  BY AmbiguityOfLoad DEF AmbiguityIsKnown
<1> QED
  BY <1>1, SampleStart, SampleStep, PTL DEF LoadersSpec

=============================================================================
