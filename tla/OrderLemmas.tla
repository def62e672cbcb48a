----------------------------- MODULE OrderLemmas -----------------------------
(***************************************************************************)
(* A set of naturals has a least element, and a bounded one a greatest:    *)
(* what the choices of a first or a last in the components rest on.  And   *)
(* what filtering a list by positions does: the entries that are kept keep *)
(* their order and their neighbours.                                       *)
(***************************************************************************)
EXTENDS Positions, Integers, FiniteSetTheorems, WellFoundedInduction, TLAPS

LEMMA LeastNatural ==
  ASSUME NEW S, S \subseteq Nat, S # {}
  PROVE  \E m \in S : \A n \in S : m <= n
<1>1. \E m \in S : \A n \in S : ~ (<<n, m>> \in OpToRel(<, Nat))
  BY NatLessThanWellFounded, WFMin
<1>2. PICK m \in S : \A n \in S : ~ (<<n, m>> \in OpToRel(<, Nat))
  BY <1>1
<1>3. ASSUME NEW n \in S PROVE m <= n
  <2>1. n \in Nat /\ m \in Nat
    OBVIOUS
  <2>2. ~ (n < m)
    <3>1. n < m => <<n, m>> \in OpToRel(<, Nat)
      BY <2>1 DEF OpToRel
    <3> QED
      BY <3>1, <1>2
  <2> QED
    BY <2>1, <2>2
<1> QED
  BY <1>3

LEMMA GreatestNatural ==
  ASSUME NEW b \in Nat, NEW S, S \subseteq 0..b, S # {}
  PROVE  \E m \in S : \A n \in S : n <= m
<1> DEFINE T == {i \in 0..b : b - i \in S}
<1>1. \A n \in S : b - n \in T
  OBVIOUS
<1>2. T \subseteq Nat
  OBVIOUS
<1>3. T # {}
  <2>1. PICK n \in S : TRUE
    OBVIOUS
  <2> QED
    BY <1>1, <2>1
<1> HIDE DEF T
<1>4. PICK k \in T : \A n \in T : k <= n
  BY <1>2, <1>3, LeastNatural
<1>5. b - k \in S /\ k \in 0..b
  BY DEF T
<1>6. \A n \in S : n <= b - k
  BY <1>1, <1>4, <1>5
<1> QED
  BY <1>5, <1>6

\* Two finite sets that correspond have one size.
LEMMA Corresponding ==
  ASSUME NEW S, NEW T, NEW f \in [S -> T], IsFiniteSet(S),
         \A x, y \in S : x # y => f[x] # f[y],
         \A y \in T : \E x \in S : f[x] = y
  PROVE  IsFiniteSet(T) /\ Cardinality(T) = Cardinality(S)
<1>1. f \in Bijection(S, T)
  <2>1. f \in Injection(S, T)
    BY DEF Injection, IsInjective
  <2>2. f \in Surjection(S, T)
    BY DEF Surjection
  <2> QED
    BY <2>1, <2>2 DEF Bijection
<1>2. ExistsBijection(S, T)
  BY <1>1 DEF ExistsBijection
<1> QED
  BY <1>2, FS_Bijection

-----------------------------------------------------------------------------
(* Lists filtered by positions.                                            *)

\* How many positions of S are not behind k.
Rank(S, k) == Cardinality({i \in S : i <= k})

LEMMA RankFacts ==
  ASSUME NEW n \in Nat, NEW S, S \subseteq 1 .. n
  PROVE  /\ IsFiniteSet(S)
         /\ Cardinality(S) \in Nat
         /\ \A k \in 0 .. n : Rank(S, k) \in Nat
         /\ Rank(S, 0) = 0
         /\ Rank(S, n) = Cardinality(S)
         /\ \A k \in 1 .. n :
              Rank(S, k) = Rank(S, k - 1) + (IF k \in S THEN 1 ELSE 0)
         /\ \A k, m \in 0 .. n : k <= m => Rank(S, k) <= Rank(S, m)
<1> DEFINE Upto(k) == {i \in S : i <= k}
<1>0. \A i \in S : i \in Int /\ 1 <= i /\ i <= n
  OBVIOUS
<1>1. IsFiniteSet(1 .. n)
  BY FS_Interval
<1>2. IsFiniteSet(S)
  BY <1>1, FS_Subset
<1>3. Cardinality(S) \in Nat
  BY <1>2, FS_CardinalityType
<1>4. \A k \in 0 .. n : IsFiniteSet(Upto(k))
  <2> TAKE k \in 0 .. n
  <2>1. Upto(k) \in SUBSET S
    OBVIOUS
  <2> QED
    BY <1>2, <2>1, FS_Subset
<1>5. \A k \in 0 .. n : Rank(S, k) = Cardinality(Upto(k))
  BY DEF Rank
<1>6. \A k \in 0 .. n : Rank(S, k) \in Nat
  BY <1>4, <1>5, FS_CardinalityType
<1>7. Rank(S, 0) = 0
  <2>1. \A i \in S : ~ (i <= 0)
    BY <1>0
  <2>2. Upto(0) = {}
    BY <2>1
  <2> QED
    BY <1>5, <2>2, FS_EmptySet
<1>8. Rank(S, n) = Cardinality(S)
  <2>1. Upto(n) = S
    BY <1>0
  <2> QED
    BY <1>5, <2>1
<1>9. \A k \in 1 .. n : Rank(S, k) = Rank(S, k - 1) + (IF k \in S THEN 1 ELSE 0)
  <2> TAKE k \in 1 .. n
  <2>1. k - 1 \in 0 .. n /\ k \in 0 .. n /\ ~ (k <= k - 1)
    OBVIOUS
  <2> DEFINE Now == Upto(k)
             Before == Upto(k - 1)
  <2>4. \A i \in S : i <= k <=> (i <= k - 1 \/ i = k)
    BY <1>0
  <2>2. CASE k \in S
    <3>1. Now = Before \cup {k} /\ k \notin Before
      BY <2>1, <2>2, <2>4
    <3>3. IsFiniteSet(Before)
      BY <1>4, <2>1
    <3>2. Cardinality(Now) = Cardinality(Before) + 1
      <4> HIDE DEF Now, Before
      <4> QED
        BY <3>1, <3>3, FS_AddElement
    <3> QED
      BY <3>2, <2>1, <2>2, <1>5
  <2>3. CASE k \notin S
    <3>1. Upto(k) = Upto(k - 1)
      BY <2>3, <2>4
    <3>2. Rank(S, k) = Rank(S, k - 1)
      BY <3>1, <2>1, <1>5
    <3> QED
      BY <3>2, <2>1, <2>3, <1>6
  <2> QED
    BY <2>2, <2>3
<1>10. \A k, m \in 0 .. n : k <= m => Rank(S, k) <= Rank(S, m)
  <2> SUFFICES ASSUME NEW k \in 0 .. n, NEW m \in 0 .. n, k <= m
               PROVE  Rank(S, k) <= Rank(S, m)
    OBVIOUS
  <2> DEFINE Fewer == Upto(k)
             More == Upto(m)
  <2>1. Fewer \in SUBSET More
    <3>1. \A i \in S : i <= k => i <= m
      BY <1>0
    <3> QED
      BY <3>1
  <2>3. IsFiniteSet(More)
    BY <1>4
  <2>2. Cardinality(Fewer) <= Cardinality(More)
    <3> HIDE DEF Fewer, More
    <3> QED
      BY <2>1, <2>3, FS_Subset
  <2> QED
    BY <2>2, <1>5
<1> QED
  BY <1>2, <1>3, <1>6, <1>7, <1>8, <1>9, <1>10

\* NthOf counts through S in its order and leaves none out.
LEMMA NthFacts ==
  ASSUME NEW n \in Nat, NEW S, S \subseteq 1 .. n
  PROVE  /\ \A j \in 1 .. Cardinality(S) : NthOf(S, j) \in S /\ Rank(S, NthOf(S, j)) = j
         /\ \A k \in S : Rank(S, k) \in 1 .. Cardinality(S) /\ NthOf(S, Rank(S, k)) = k
         /\ \A i, j \in 1 .. Cardinality(S) : i < j => NthOf(S, i) < NthOf(S, j)
         /\ \A k \in S : k > 1 /\ k - 1 \in S => Rank(S, k) = Rank(S, k - 1) + 1
<1> DEFINE D == Cardinality(S)
<1>0. /\ D \in Nat
      /\ \A k \in 0 .. n : Rank(S, k) \in Nat
      /\ Rank(S, 0) = 0
      /\ Rank(S, n) = D
      /\ \A k \in 1 .. n :
           Rank(S, k) = Rank(S, k - 1) + (IF k \in S THEN 1 ELSE 0)
      /\ \A k, m \in 0 .. n : k <= m => Rank(S, k) <= Rank(S, m)
  BY RankFacts
<1> HIDE DEF D
<1>1. \A k \in S : /\ k \in Int /\ k \in 1 .. n /\ k \in 0 .. n /\ k - 1 \in 0 .. n
                   /\ Rank(S, k) = Rank(S, k - 1) + 1
  <2> TAKE k \in S
  <2>1. k \in Int /\ k \in 1 .. n /\ k \in 0 .. n /\ k - 1 \in 0 .. n
    OBVIOUS
  <2>2. Rank(S, k) = Rank(S, k - 1) + (IF k \in S THEN 1 ELSE 0)
    BY <1>0, <2>1
  <2> QED
    BY <2>1, <2>2
<1>2. \A k \in S : Rank(S, k) \in 1 .. D
  <2> TAKE k \in S
  <2>1. Rank(S, k) = Rank(S, k - 1) + 1 /\ Rank(S, k - 1) \in Nat
    BY <1>0, <1>1
  <2>2. n \in 0 .. n /\ k \in 0 .. n /\ k <= n
    BY <1>1
  <2>3. Rank(S, k) <= D
    BY <1>0, <2>2
  <2> QED
    BY <1>0, <2>1, <2>3
<1>3. \A k, m \in S : k < m => Rank(S, k) < Rank(S, m)
  <2> SUFFICES ASSUME NEW k \in S, NEW m \in S, k < m
               PROVE  Rank(S, k) < Rank(S, m)
    OBVIOUS
  <2>1. k \in 0 .. n /\ m - 1 \in 0 .. n /\ k <= m - 1
    BY <1>1
  <2>2. Rank(S, m) = Rank(S, m - 1) + 1
    BY <1>1
  <2>3. Rank(S, k) <= Rank(S, m - 1) /\ Rank(S, k) \in Nat /\ Rank(S, m - 1) \in Nat
    BY <1>0, <2>1
  <2> QED
    BY <2>2, <2>3
<1>4. \A k, m \in S : Rank(S, k) = Rank(S, m) => k = m
  <2> SUFFICES ASSUME NEW k \in S, NEW m \in S, Rank(S, k) = Rank(S, m), k # m
               PROVE  FALSE
    OBVIOUS
  <2>1. k \in Int /\ m \in Int
    BY <1>1
  <2>2. k < m \/ m < k
    BY <2>1
  <2>3. Rank(S, k) \in Int /\ Rank(S, m) \in Int
    BY <1>2
  <2> QED
    BY <1>3, <2>2, <2>3
<1>5. \A j \in 1 .. D : \E k \in S : Rank(S, k) = j
  <2> TAKE j \in 1 .. D
  <2> DEFINE T == {k \in 0 .. n : j <= Rank(S, k)}
  <2>1. n \in T /\ T \subseteq Nat
    BY <1>0
  <2>2. PICK m \in T : \A k \in T : m <= k
    <3> HIDE DEF T
    <3> QED
      BY <2>1, LeastNatural
  <2>3. m \in 0 .. n /\ j <= Rank(S, m) /\ m # 0
    BY <1>0, <2>2
  <2>4. m - 1 \in 0 .. n /\ m \in 1 .. n
    BY <2>3
  <2>5. m - 1 \notin T
    BY <2>2, <2>4
  <2>6. ~ (j <= Rank(S, m - 1)) /\ Rank(S, m - 1) \in Nat
    BY <1>0, <2>4, <2>5
  <2>7. Rank(S, m) = Rank(S, m - 1) + (IF m \in S THEN 1 ELSE 0)
    BY <1>0, <2>4
  <2>8. m \in S /\ Rank(S, m) = j
    BY <2>3, <2>6, <2>7
  <2> QED
    BY <2>8
<1>6. \A j \in 1 .. D : NthOf(S, j) \in S /\ Rank(S, NthOf(S, j)) = j
  BY <1>5 DEF NthOf, Rank
<1>7. \A k \in S : NthOf(S, Rank(S, k)) = k
  BY <1>2, <1>4, <1>6
<1>8. \A i, j \in 1 .. D : i < j => NthOf(S, i) < NthOf(S, j)
  <2> SUFFICES ASSUME NEW i \in 1 .. D, NEW j \in 1 .. D, i < j,
                      ~ (NthOf(S, i) < NthOf(S, j))
               PROVE  FALSE
    OBVIOUS
  <2>1. NthOf(S, i) \in S /\ NthOf(S, j) \in S
    BY <1>6
  <2>2. NthOf(S, i) \in Int /\ NthOf(S, j) \in Int
    BY <1>1, <2>1
  <2>3. NthOf(S, j) = NthOf(S, i) \/ NthOf(S, j) < NthOf(S, i)
    BY <2>2
  <2>4. Rank(S, NthOf(S, i)) = i /\ Rank(S, NthOf(S, j)) = j /\ i \in Int /\ j \in Int
    BY <1>6
  <2>5. j = i \/ j < i
    BY <1>3, <2>1, <2>3, <2>4
  <2> QED
    BY <2>4, <2>5
<1>9. \A k \in S : k > 1 /\ k - 1 \in S => Rank(S, k) = Rank(S, k - 1) + 1
  BY <1>1
<1> QED
  BY <1>2, <1>6, <1>7, <1>8, <1>9 DEF D

\* A sublist is one of the list's entries, in their order, all those asked for.
LEMMA SublistFacts ==
  ASSUME NEW X, NEW s \in Seq(X), NEW S, S \subseteq DOMAIN s
  PROVE  /\ Sublist(s, S) \in Seq(X)
         /\ Len(Sublist(s, S)) = Cardinality(S)
         /\ DOMAIN Sublist(s, S) = 1 .. Cardinality(S)
         /\ \A j \in 1 .. Cardinality(S) :
              NthOf(S, j) \in S /\ Sublist(s, S)[j] = s[NthOf(S, j)]
         /\ \A k \in S : Rank(S, k) \in 1 .. Cardinality(S) /\ Sublist(s, S)[Rank(S, k)] = s[k]
<1>1. Len(s) \in Nat /\ S \subseteq 1 .. Len(s)
  OBVIOUS
<1>2. Cardinality(S) \in Nat
  BY <1>1, RankFacts
<1>3. \A j \in 1 .. Cardinality(S) : NthOf(S, j) \in S
  BY <1>1, NthFacts
<1>4. Sublist(s, S) \in [1 .. Cardinality(S) -> X]
  BY <1>3 DEF Sublist
<1>5. Sublist(s, S) \in Seq(X)
  BY <1>2, <1>4
<1>6. DOMAIN Sublist(s, S) = 1 .. Cardinality(S)
  BY DEF Sublist
<1>7. \A j \in 1 .. Cardinality(S) : Sublist(s, S)[j] = s[NthOf(S, j)]
  BY DEF Sublist
<1>8. \A k \in S : Rank(S, k) \in 1 .. Cardinality(S) /\ NthOf(S, Rank(S, k)) = k
  BY <1>1, NthFacts
<1>9. Len(Sublist(s, S)) = Cardinality(S)
  BY <1>2, <1>5, <1>6
<1> QED
  BY <1>3, <1>5, <1>6, <1>7, <1>8, <1>9

\* In a whole list, and in one that lacks a place.
LEMMA RankOfAll ==
  ASSUME NEW n \in Nat, NEW x \in 1 .. n
  PROVE  Rank(1 .. n, x) = x /\ NthOf(1 .. n, x) = x
<1>1. {i \in 1 .. n : i <= x} = 1 .. x
  OBVIOUS
<1>2. Cardinality(1 .. x) = x
  BY FS_Interval, x \in Nat
<1>3. Rank(1 .. n, x) = x
  BY <1>1, <1>2 DEF Rank
<1> DEFINE S == 1 .. n
<1>4. S \subseteq 1 .. n /\ x \in S
  OBVIOUS
<1> HIDE DEF S
<1>5. NthOf(S, Rank(S, x)) = x
  BY <1>4, NthFacts
<1> QED
  BY <1>3, <1>5 DEF S

LEMMA RankButOne ==
  ASSUME NEW n \in Nat, NEW k \in 1 .. n
  PROVE  LET S == (1 .. n) \ {k}
         IN  /\ Cardinality(S) = n - 1
             /\ \A x \in 1 .. n - 1 : NthOf(S, x) = IF x < k THEN x ELSE x + 1
<1> DEFINE S == (1 .. n) \ {k}
<1>1. S \subseteq 1 .. n
  OBVIOUS
<1>2. \A y \in Nat : IsFiniteSet(1 .. y) /\ Cardinality(1 .. y) = y
  BY FS_Interval
<1>3. \A y \in Nat : k \in 1 .. y => Cardinality((1 .. y) \ {k}) = y - 1
  BY <1>2, FS_RemoveElement
<1>4. Cardinality(S) = n - 1
  BY <1>3
<1>5. ASSUME NEW x \in 1 .. n - 1 PROVE NthOf(S, x) = IF x < k THEN x ELSE x + 1
  <2>1. CASE x < k
    <3>1. {i \in S : i <= x} = 1 .. x
      BY <2>1
    <3>2. Rank(S, x) = x
      <4>1. Cardinality({i \in S : i <= x}) = Cardinality(1 .. x)
        BY <3>1
      <4>2. Cardinality(1 .. x) = x
        BY <1>2, x \in Nat
      <4> QED
        BY <4>1, <4>2 DEF Rank
    <3>3. x \in S
      BY <2>1
    <3> HIDE DEF S
    <3>4. NthOf(S, Rank(S, x)) = x
      BY <1>1, <3>3, NthFacts
    <3> QED
      BY <2>1, <3>2, <3>4
  <2>2. CASE ~(x < k)
    <3> DEFINE y == x + 1
    <3>1. y \in S /\ y \in Nat /\ k \in 1 .. y
      BY <2>2
    <3>2. {i \in S : i <= y} = (1 .. y) \ {k}
      BY <2>2
    <3>3. Rank(S, y) = y - 1
      BY <1>3, <3>1, <3>2 DEF Rank
    <3>4. y - 1 = x
      OBVIOUS
    <3> HIDE DEF S, y
    <3>5. NthOf(S, Rank(S, y)) = y
      BY <1>1, <3>1, NthFacts
    <3>6. NthOf(S, x) = y
      BY <3>3, <3>4, <3>5
    <3> QED
      BY <2>2, <3>6 DEF y
  <2> QED
    BY <2>1, <2>2
<1> QED
  BY <1>4, <1>5
=============================================================================
