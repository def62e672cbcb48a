--------------------------- MODULE LoadOrderProofs ---------------------------
(***************************************************************************)
(* What topo_sort does for every list, every graph of masters and every    *)
(* order asked for: it puts masters first, fails to do so for cycles only, *)
(* and follows the order asked for if that puts masters first.  And what   *)
(* write_content leaves in every set of configurations.                    *)
(***************************************************************************)
EXTENDS LoadOrder, FiniteSetTheorems, TLAPS

\* What has left the heap.
Popped == ToSet(out)

\* The heap and the counts say which plugins wait for what.
HeapInv ==
  /\ out \in Seq(ToSet(content))
  /\ IsInjective(out)
  /\ heap = {p \in ToSet(content) \ Popped : Needs(p) \subseteq Popped}
  /\ indeg = [p \in ToSet(content) |-> Cardinality(Needs(p) \ Popped)]

\* Nothing of a cycle leaves the heap.
CyclesWait ==
  \A S \in SUBSET ToSet(content) : Deadlocked(S) => S \cap Popped = {}

\* Every plugin has its place in the order asked for; if that puts masters
\* first, the new order has followed it so far.
PrefInv ==
  /\ pref \in Seq(ToSet(content))
  /\ IsInjective(pref)
  /\ ToSet(pref) = ToSet(content)
  /\ Violations(pref) = {} =>
       /\ Len(out) <= Len(pref)
       /\ \A i \in 1..Len(out) : out[i] = pref[i]

\* What the configurations list are plugins.
ListsInv ==
  /\ cfg \in [Files -> Seq(Plugins) \cup {Torn}]
  /\ bak \in [Files -> Seq(Plugins) \cup {Torn}]
  /\ content \in Seq(Plugins)
  /\ out \in Seq(Plugins)

SortInv ==
  /\ pc \in {"idle", "rank"} => out = <<>>
  /\ pc = "pop" => HeapInv /\ PrefInv /\ CyclesWait
  /\ MastersFirst
  /\ OnlyCyclesRefused
  /\ PreferenceKept

-----------------------------------------------------------------------------
(* Lists.                                                                  *)

LEMMA PlaceOf ==
  ASSUME NEW S, NEW s \in Seq(S), IsInjective(s), NEW i \in DOMAIN s
  PROVE  At(s, s[i]) = i
BY DEF At, IsInjective

LEMMA FiniteList ==
  ASSUME NEW S, NEW s \in Seq(S)
  PROVE  IsFiniteSet(ToSet(s))
<1>1. IsFiniteSet(1..Len(s))
  BY FS_Interval
<1>2. s \in Surjection(1..Len(s), ToSet(s))
  BY DEF ToSet, Surjection
<1> QED
  BY <1>1, <1>2, FS_Surjection

LEMMA ListAppended ==
  ASSUME NEW S, NEW s \in Seq(S), NEW p \in S
  PROVE  /\ Append(s, p) \in Seq(S)
         /\ ToSet(Append(s, p)) = ToSet(s) \cup {p}
<1> DEFINE t == Append(s, p)
<1>1. /\ t \in Seq(S) /\ Len(t) = Len(s) + 1 /\ t[Len(s) + 1] = p
      /\ \A i \in 1..Len(s) : t[i] = s[i]
  OBVIOUS
<1>2. DOMAIN t = 1..(Len(s) + 1) /\ DOMAIN s = 1..Len(s) /\ Len(s) \in Nat
  BY <1>1
<1>3. ASSUME NEW x \in ToSet(t) PROVE x \in ToSet(s) \cup {p}
  <2>1. PICK i \in 1..(Len(s) + 1) : x = t[i]
    BY <1>2 DEF ToSet
  <2>2. CASE i = Len(s) + 1
    BY <2>1, <2>2, <1>1
  <2>3. CASE i \in 1..Len(s)
    BY <2>1, <2>3, <1>1, <1>2 DEF ToSet
  <2> QED
    BY <2>2, <2>3, <1>2
<1>4. ASSUME NEW x \in ToSet(s) \cup {p} PROVE x \in ToSet(t)
  <2>1. CASE x = p
    BY <2>1, <1>1, <1>2 DEF ToSet
  <2>2. CASE x \in ToSet(s)
    <3>1. PICK i \in 1..Len(s) : x = s[i]
      BY <2>2, <1>2 DEF ToSet
    <3>2. i \in DOMAIN t /\ t[i] = x
      BY <3>1, <1>1, <1>2
    <3> QED
      BY <3>2 DEF ToSet
  <2> QED
    BY <2>1, <2>2
<1> QED
  BY <1>1, <1>3, <1>4

LEMMA ListJoined ==
  ASSUME NEW S, NEW s \in Seq(S), NEW t \in Seq(S)
  PROVE  /\ s \o t \in Seq(S)
         /\ Len(s \o t) = Len(s) + Len(t)
         /\ \A i \in 1..Len(s) : (s \o t)[i] = s[i]
         /\ \A i \in 1..Len(t) : (s \o t)[Len(s) + i] = t[i]
         /\ ToSet(s \o t) = ToSet(s) \cup ToSet(t)
         /\ IsInjective(s) /\ IsInjective(t) /\ ToSet(s) \cap ToSet(t) = {}
              => IsInjective(s \o t)
<1> DEFINE u == s \o t
<1>1. /\ u \in Seq(S) /\ Len(u) = Len(s) + Len(t)
      /\ \A i \in 1..Len(s) : u[i] = s[i]
      /\ \A i \in 1..Len(t) : u[Len(s) + i] = t[i]
      /\ Len(s) \in Nat /\ Len(t) \in Nat
      /\ DOMAIN s = 1..Len(s) /\ DOMAIN t = 1..Len(t) /\ DOMAIN u = 1..(Len(s) + Len(t))
  OBVIOUS
<1> HIDE DEF u
\* An element of the second list lies behind the first.
<1>2. \A i \in DOMAIN u : i \in DOMAIN s \/ \E k \in DOMAIN t : i = Len(s) + k
  <2> SUFFICES ASSUME NEW i \in DOMAIN u, i \notin DOMAIN s
               PROVE  \E k \in DOMAIN t : i = Len(s) + k
    OBVIOUS
  <2>1. i - Len(s) \in DOMAIN t /\ i = Len(s) + (i - Len(s))
    BY <1>1
  <2> QED
    BY <2>1
<1>3. \A k \in DOMAIN t : Len(s) + k \in DOMAIN u
  BY <1>1
<1>4. DOMAIN s \subseteq DOMAIN u
  BY <1>1
<1>5. ToSet(u) = ToSet(s) \cup ToSet(t)
  <2>1. \A x \in ToSet(u) : x \in ToSet(s) \cup ToSet(t)
    BY <1>1, <1>2 DEF ToSet
  <2>2. \A x \in ToSet(s) \cup ToSet(t) : x \in ToSet(u)
    BY <1>1, <1>3, <1>4 DEF ToSet
  <2> QED
    BY <2>1, <2>2
<1>6. ASSUME IsInjective(s), IsInjective(t), ToSet(s) \cap ToSet(t) = {}
      PROVE  IsInjective(u)
  <2> SUFFICES ASSUME NEW i \in DOMAIN u, NEW j \in DOMAIN u, u[i] = u[j]
               PROVE  i = j
    BY DEF IsInjective
  <2>1. CASE i \in DOMAIN s /\ j \in DOMAIN s
    BY <2>1, <1>1, <1>6 DEF IsInjective
  <2>2. CASE i \notin DOMAIN s /\ j \notin DOMAIN s
    <3>1. PICK k \in DOMAIN t, l \in DOMAIN t : i = Len(s) + k /\ j = Len(s) + l
      BY <2>2, <1>2
    <3> QED
      BY <3>1, <1>1, <1>6 DEF IsInjective
  <2>3. ASSUME NEW k \in DOMAIN u, NEW l \in DOMAIN u, k \in DOMAIN s, l \notin DOMAIN s
        PROVE  u[k] # u[l]
    <3>1. PICK h \in DOMAIN t : l = Len(s) + h
      BY <2>3, <1>2
    <3>2. u[k] = s[k] /\ u[l] = t[h]
      BY <2>3, <3>1, <1>1
    <3>3. s[k] \in ToSet(s) /\ t[h] \in ToSet(t)
      BY <2>3 DEF ToSet
    <3> QED
      BY <3>2, <3>3, <1>6
  <2> QED
    BY <2>1, <2>2, <2>3
<1> QED
  BY <1>1, <1>5, <1>6 DEF u

\* A permutation of a finite set lists all of it.
LEMMA PermutationLists ==
  ASSUME NEW X, IsFiniteSet(X), NEW t \in SetToSeqs(X)
  PROVE  t \in Seq(X) /\ IsInjective(t) /\ ToSet(t) = X
<1>1. Cardinality(X) \in Nat
  BY FS_CardinalityType
<1>2. /\ t \in [1..Cardinality(X) -> X]
      /\ \A i, j \in 1..Cardinality(X) : i # j => t[i] # t[j]
  BY DEF SetToSeqs
<1>3. t \in Injection(1..Cardinality(X), X)
  BY <1>2 DEF Injection, IsInjective
<1>4. Cardinality(1..Cardinality(X)) = Cardinality(X)
  BY <1>1, FS_Interval
<1>5. t \in Surjection(1..Cardinality(X), X)
  BY <1>3, <1>4, FS_Injection
<1> QED
  BY <1>1, <1>2, <1>5 DEF ToSet, IsInjective, Surjection

LEMMA KeptLists ==
  ASSUME NEW S, NEW s \in Seq(S), NEW X, NEW t \in Kept(s, X)
  PROVE  /\ t \in Seq(ToSet(s)) /\ t \in Seq(S)
         /\ IsInjective(t)
         /\ ToSet(t) = ToSet(s) \cap X
<1>1. IsFiniteSet(ToSet(s) \cap X)
  BY FiniteList, FS_Subset
<1>2. t \in SetToSeqs(ToSet(s) \cap X)
  BY DEF Kept
<1>3. t \in Seq(ToSet(s) \cap X) /\ IsInjective(t) /\ ToSet(t) = ToSet(s) \cap X
  BY <1>1, <1>2, PermutationLists
<1>4. ToSet(s) \subseteq S
  BY DEF ToSet
<1> QED
  BY <1>3, <1>4

\* What a plugin waits for before and after p leaves the heap.
LEMMA OneLess ==
  ASSUME NEW N, IsFiniteSet(N), NEW D, NEW p, p \notin D
  PROVE  /\ Cardinality(N \ D) \in Nat
         /\ p \in N => Cardinality(N \ (D \cup {p})) = Cardinality(N \ D) - 1
         /\ p \notin N => N \ (D \cup {p}) = N \ D
         /\ p \in N => (Cardinality(N \ D) = 1 <=> N \subseteq D \cup {p})
<1>1. IsFiniteSet(N \ D)
  BY FS_Difference
<1>2. Cardinality(N \ D) \in Nat
  BY <1>1, FS_CardinalityType
<1>3. N \ (D \cup {p}) = (N \ D) \ {p}
  OBVIOUS
<1>4. ASSUME p \in N
      PROVE  /\ Cardinality((N \ D) \ {p}) = Cardinality(N \ D) - 1
             /\ Cardinality(N \ D) = 1 <=> N \subseteq D \cup {p}
  <2>1. p \in N \ D
    BY <1>4
  <2>2. /\ IsFiniteSet((N \ D) \ {p})
        /\ Cardinality((N \ D) \ {p}) = Cardinality(N \ D) - 1
    BY <1>1, <2>1, FS_RemoveElement
  <2>3. Cardinality((N \ D) \ {p}) = 0 <=> (N \ D) \ {p} = {}
    BY <2>2, FS_EmptySet
  <2> QED
    BY <2>1, <2>2, <2>3, <1>2
<1> QED
  BY <1>2, <1>3, <1>4

LEMMA NeedsFinite ==
  ASSUME ListsInv, NEW p
  PROVE  IsFiniteSet(Needs(p))
<1>1. IsFiniteSet(ToSet(content))
  BY FiniteList DEF ListsInv
<1>2. Needs(p) \subseteq ToSet(content)
  BY DEF Needs
<1> QED
  BY <1>1, <1>2, FS_Subset

-----------------------------------------------------------------------------

\* As long as the order asked for puts masters first and is followed, its next
\* plugin is in the heap.
LEMMA NextIsReady ==
  ASSUME HeapInv, PrefInv, Violations(pref) = {}, ToSet(content) \ Popped # {}
  PROVE  /\ Len(out) + 1 \in DOMAIN pref
         /\ pref[Len(out) + 1] \in heap
<1> DEFINE n == Len(out) + 1
<1>1. /\ out \in Seq(ToSet(content)) /\ Len(out) \in Nat
      /\ Len(pref) \in Nat /\ DOMAIN pref = 1..Len(pref) /\ DOMAIN out = 1..Len(out)
      /\ \A i \in 1..Len(out) : i \in DOMAIN pref /\ out[i] = pref[i]
  BY DEF HeapInv, PrefInv
<1>2. n \in DOMAIN pref
  <2>1. PICK q \in ToSet(content) : q \notin Popped
    OBVIOUS
  <2>2. PICK j \in DOMAIN pref : pref[j] = q
    BY <2>1 DEF PrefInv, ToSet
  <2>3. j \notin 1..Len(out)
    BY <1>1, <2>1, <2>2 DEF Popped, ToSet
  <2> QED
    BY <1>1, <2>3
<1>3. pref[n] \in ToSet(content)
  BY <1>2 DEF PrefInv
<1>4. pref[n] \notin Popped
  <2> SUFFICES ASSUME pref[n] \in Popped PROVE FALSE
    OBVIOUS
  <2>1. PICK i \in DOMAIN out : out[i] = pref[n]
    BY DEF Popped, ToSet
  <2>2. i = n
    BY <2>1, <1>1, <1>2 DEF PrefInv, IsInjective
  <2> QED
    BY <2>1, <2>2, <1>1
<1>5. ASSUME NEW m \in Needs(pref[n]) PROVE m \in Popped
  <2>1. m \in ToSet(pref) /\ m # pref[n] /\ m \in masters[pref[n]]
    BY <1>5 DEF Needs, PrefInv
  <2>2. PICK j \in DOMAIN pref : pref[j] = m
    BY <2>1 DEF ToSet
  <2>3. At(pref, m) = j /\ At(pref, pref[n]) = n
    BY <1>2, <2>2, PlaceOf DEF PrefInv
  <2>4. ~ (j > n)
    <3>1. <<pref[n], m>> \in ToSet(pref) \X ToSet(pref)
      BY <1>2, <2>1 DEF ToSet
    <3>2. <<pref[n], m>>[1] = pref[n] /\ <<pref[n], m>>[2] = m
      OBVIOUS
    <3>3. \A e \in ToSet(pref) \X ToSet(pref) :
             ~ (e[2] \in masters[e[1]] /\ At(pref, e[2]) > At(pref, e[1]))
      BY DEF Violations
    <3> QED
      BY <3>1, <3>2, <3>3, <2>1, <2>3
  <2>5. j \in 1..Len(out)
    BY <2>1, <2>2, <2>4, <1>1
  <2> QED
    BY <2>2, <2>5, <1>1 DEF Popped, ToSet
<1> QED
  BY <1>2, <1>3, <1>4, <1>5 DEF HeapInv

LEMMA RankedSorts ==
  ASSUME ListsInv, SortInv, pc = "rank", NEW order, Ranked(order),
         order \in Seq(ToSet(content)), IsInjective(order),
         ToSet(order) = ToSet(content)
  PROVE  SortInv'
<1>1. out = <<>> /\ out' = <<>> /\ content' = content /\ masters' = masters
      /\ pref' = order /\ pc' = "pop"
  BY DEF SortInv, Ranked
<1>2. ToSet(out) = {} /\ ToSet(out') = {} /\ DOMAIN out' = {} /\ Len(out') = 0
  BY <1>1 DEF ToSet
<1>3. \A p : Needs(p)' = Needs(p)
  BY <1>1 DEF Needs
<1>4. HeapInv'
  <2>1. out' \in Seq(ToSet(content')) /\ IsInjective(out')
    BY <1>1, <1>2 DEF IsInjective
  <2>2. heap' = {p \in ToSet(content) : Needs(p) = {}}
        /\ indeg' = [p \in ToSet(content) |-> Cardinality(Needs(p))]
    BY DEF Ranked
  <2>3. \A p : Needs(p) \ {} = Needs(p) /\ (Needs(p) \subseteq {} <=> Needs(p) = {})
    OBVIOUS
  <2> QED
    BY <1>1, <1>2, <1>3, <2>1, <2>2, <2>3 DEF HeapInv, Popped
<1>5. PrefInv'
  <2>1. Len(pref') \in Nat
    BY <1>1
  <2> QED
    BY <1>1, <1>2, <2>1 DEF PrefInv
<1>6. MastersFirst'
  BY <1>2 DEF MastersFirst
<1>7. CyclesWait'
  BY <1>1, <1>2 DEF CyclesWait, Popped
<1> QED
  BY <1>1, <1>4, <1>5, <1>6, <1>7 DEF SortInv, OnlyCyclesRefused, PreferenceKept

LEMMA PopSorts ==
  ASSUME ListsInv, SortInv, Pop
  PROVE  SortInv'
<1> DEFINE Heirs(p) == {q \in ToSet(content) : p \in Needs(q)}
<1>1. PICK p \in heap :
        /\ \A q \in heap : At(pref, p) <= At(pref, q)
        /\ out' = Append(out, p)
        /\ indeg' = [q \in DOMAIN indeg |->
                       IF q \in Heirs(p) THEN indeg[q] - 1 ELSE indeg[q]]
        /\ heap' = (heap \ {p}) \cup {q \in Heirs(p) : indeg[q] = 1}
  BY DEF Pop
<1>2. pc = "pop" /\ pc' = "pop" /\ content' = content /\ masters' = masters /\ pref' = pref
  BY DEF Pop
<1>3. HeapInv /\ PrefInv /\ CyclesWait /\ MastersFirst
  BY <1>2 DEF SortInv
<1>4. p \in ToSet(content) /\ p \notin Popped /\ Needs(p) \subseteq Popped
  BY <1>1, <1>3 DEF HeapInv
<1>5. out' \in Seq(ToSet(content)) /\ Popped' = Popped \cup {p}
  BY <1>1, <1>3, <1>4, ListAppended DEF HeapInv, Popped
<1>6. \A q : Needs(q)' = Needs(q)
  BY <1>2 DEF Needs
<1>7. \A q : /\ Cardinality(Needs(q) \ Popped) \in Nat
             /\ p \in Needs(q) => Cardinality(Needs(q) \ (Popped \cup {p}))
                                    = Cardinality(Needs(q) \ Popped) - 1
             /\ p \notin Needs(q) => Needs(q) \ (Popped \cup {p}) = Needs(q) \ Popped
             /\ p \in Needs(q) => (Cardinality(Needs(q) \ Popped) = 1
                                     <=> Needs(q) \subseteq Popped \cup {p})
  BY <1>4, NeedsFinite, OneLess
<1>8. indeg' = [q \in ToSet(content) |-> Cardinality(Needs(q) \ (Popped \cup {p}))]
  <2>1. DOMAIN indeg = ToSet(content)
    BY <1>3 DEF HeapInv
  <2>2. \A q \in ToSet(content) :
          (IF q \in Heirs(p) THEN indeg[q] - 1 ELSE indeg[q])
            = Cardinality(Needs(q) \ (Popped \cup {p}))
    BY <1>3, <1>7 DEF HeapInv
  <2> QED
    BY <1>1, <2>1, <2>2
\* A plugin that has left the heap waited for nothing that is still there.
<1>9. \A q \in Popped : p \notin Needs(q)
  <2> SUFFICES ASSUME NEW q \in Popped, p \in Needs(q) PROVE FALSE
    OBVIOUS
  <2>1. PICK i \in DOMAIN out : out[i] = q
    BY DEF Popped, ToSet
  <2>2. PICK j \in 1..(i - 1) : out[j] = p
    BY <2>1, <1>2, <1>3 DEF MastersFirst
  <2>3. j \in DOMAIN out
    BY <2>1, <2>2, <1>3 DEF HeapInv
  <2> QED
    BY <2>2, <2>3, <1>4 DEF Popped, ToSet
<1>10. heap' = {q \in ToSet(content) \ (Popped \cup {p}) : Needs(q) \subseteq Popped \cup {p}}
  <2>1. p \notin Needs(p)
    BY DEF Needs
  <2>2. ASSUME NEW q \in heap' 
        PROVE  q \in ToSet(content) \ (Popped \cup {p}) /\ Needs(q) \subseteq Popped \cup {p}
    <3>1. CASE q \in heap \ {p}
      BY <3>1, <1>3 DEF HeapInv
    <3>2. CASE q \in Heirs(p) /\ indeg[q] = 1
      <4>1. Cardinality(Needs(q) \ Popped) = 1
        BY <3>2, <1>3 DEF HeapInv
      <4> QED
        BY <3>2, <4>1, <2>1, <1>7, <1>9
    <3> QED
      BY <2>2, <3>1, <3>2, <1>1
  <2>3. ASSUME NEW q \in ToSet(content) \ (Popped \cup {p}), Needs(q) \subseteq Popped \cup {p}
        PROVE  q \in heap'
    <3>1. CASE p \in Needs(q)
      <4>1. Cardinality(Needs(q) \ Popped) = 1
        BY <3>1, <2>3, <1>7
      <4>2. indeg[q] = 1
        BY <4>1, <1>3 DEF HeapInv
      <4> QED
        BY <3>1, <4>2, <1>1
    <3>2. CASE p \notin Needs(q)
      BY <3>2, <2>3, <1>1, <1>3 DEF HeapInv
    <3> QED
      BY <3>1, <3>2
  <2> QED
    BY <2>2, <2>3
<1>11. HeapInv'
  <2>1. IsInjective(out')
    <3>1. /\ DOMAIN out' = 1..(Len(out) + 1) /\ DOMAIN out = 1..Len(out) /\ Len(out) \in Nat
          /\ out'[Len(out) + 1] = p /\ \A i \in 1..Len(out) : out'[i] = out[i]
      BY <1>1, <1>3, <1>4 DEF HeapInv
    <3>2. \A i \in DOMAIN out : out[i] # p
      BY <1>4 DEF Popped, ToSet
    <3> QED
      BY <3>1, <3>2, <1>3 DEF HeapInv, IsInjective
  <2> QED
    BY <2>1, <1>2, <1>5, <1>6, <1>8, <1>10 DEF HeapInv, Popped
<1>12. MastersFirst'
  <2> SUFFICES ASSUME NEW i \in DOMAIN out', NEW m \in Needs(out'[i])
               PROVE  \E j \in 1..(i - 1) : out'[j] = m
    BY <1>6 DEF MastersFirst
  <2>1. /\ Len(out') = Len(out) + 1 /\ out'[Len(out) + 1] = p
        /\ \A j \in 1..Len(out) : out'[j] = out[j]
        /\ DOMAIN out' = 1..(Len(out) + 1) /\ DOMAIN out = 1..Len(out) /\ Len(out) \in Nat
    BY <1>1, <1>3, <1>4 DEF HeapInv
  <2>2. CASE i = Len(out) + 1
    <3>1. m \in Popped
      BY <2>1, <2>2, <1>4
    <3>2. PICK j \in 1..Len(out) : out[j] = m
      BY <3>1, <2>1 DEF Popped, ToSet
    <3> QED
      BY <3>2, <2>1, <2>2
  <2>3. CASE i \in 1..Len(out)
    <3>1. out'[i] = out[i]
      BY <2>1, <2>3
    <3>2. PICK j \in 1..(i - 1) : out[j] = m
      BY <3>1, <2>1, <2>3, <1>2, <1>3 DEF MastersFirst
    <3>3. j \in 1..Len(out)
      BY <3>2, <2>1, <2>3
    <3> QED
      BY <3>2, <3>3, <2>1
  <2> QED
    BY <2>1, <2>2, <2>3
<1>13. PrefInv'
  <2>1. Violations(pref)' = Violations(pref)
    BY <1>2 DEF Violations, At
  <2>2. ASSUME Violations(pref) = {}
        PROVE  /\ Len(out') <= Len(pref)
               /\ \A i \in 1..Len(out') : out'[i] = pref[i]
    <3> DEFINE n == Len(out) + 1
    <3>1. n \in DOMAIN pref /\ pref[n] \in heap
      BY <2>2, <1>3, <1>4, NextIsReady
    <3>2. At(pref, pref[n]) = n
      BY <3>1, <1>3, PlaceOf DEF PrefInv
    <3>3. PICK j \in DOMAIN pref : pref[j] = p
      BY <1>3, <1>4 DEF PrefInv, ToSet
    <3>4. At(pref, p) = j
      BY <3>3, <1>3, PlaceOf DEF PrefInv
    <3>5. j <= n
      BY <3>1, <3>2, <3>4, <1>1
    <3>6. /\ Len(out) \in Nat /\ Len(pref) \in Nat /\ DOMAIN pref = 1..Len(pref)
          /\ DOMAIN out = 1..Len(out)
          /\ Len(out') = n /\ out'[n] = p /\ \A i \in 1..Len(out) : out'[i] = out[i]
      BY <1>1, <1>3, <1>4 DEF HeapInv, PrefInv
    <3>7. j \notin 1..Len(out)
      <4> SUFFICES ASSUME j \in 1..Len(out) PROVE FALSE
        OBVIOUS
      <4>1. out[j] = p
        BY <2>2, <3>3, <1>3 DEF PrefInv
      <4> QED
        BY <4>1, <3>6, <1>4 DEF Popped, ToSet
    <3>8. j = n
      BY <3>3, <3>5, <3>6, <3>7
    <3> QED
      BY <3>1, <3>3, <3>6, <3>8, <2>2, <1>3 DEF PrefInv
  <2> QED
    BY <2>1, <2>2, <1>2, <1>3 DEF PrefInv
\* In a cycle with p there would be one that p waits for.
<1>14. CyclesWait'
  <2>1. \A S : Deadlocked(S)' <=> Deadlocked(S)
    BY <1>6 DEF Deadlocked
  <2>2. ASSUME NEW S \in SUBSET ToSet(content), Deadlocked(S) PROVE S \cap Popped' = {}
    <3>1. S \cap Popped = {}
      BY <2>2, <1>3 DEF CyclesWait
    <3>2. p \notin S
      BY <2>2, <3>1, <1>4 DEF Deadlocked
    <3> QED
      BY <3>1, <3>2, <1>5
  <2> QED
    BY <2>1, <2>2, <1>2 DEF CyclesWait
<1> QED
  BY <1>2, <1>11, <1>12, <1>13, <1>14 DEF SortInv, OnlyCyclesRefused, PreferenceKept


\* The end of the loop: what is left waits for each other.
LEMMA PopEndsSorts ==
  ASSUME ListsInv, SortInv, PopEnds
  PROVE  SortInv'
<1> DEFINE left == ToSet(content) \ Popped
<1>1. PICK rest \in Kept(content, left) : out' = out \o rest
  BY DEF PopEnds, Popped
<1>2. /\ pc = "pop" /\ pc' = "sorted" /\ heap = {}
      /\ content' = content /\ masters' = masters /\ pref' = pref
  BY DEF PopEnds
<1>3. HeapInv /\ PrefInv /\ CyclesWait /\ MastersFirst
  BY <1>2 DEF SortInv
<1>4. rest \in Seq(ToSet(content)) /\ IsInjective(rest) /\ ToSet(rest) = left
  BY KeptLists DEF ListsInv
<1>5. /\ out' \in Seq(ToSet(content))
      /\ Len(out') = Len(out) + Len(rest)
      /\ \A i \in 1..Len(out) : out'[i] = out[i]
      /\ \A i \in 1..Len(rest) : out'[Len(out) + i] = rest[i]
      /\ ToSet(out') = ToSet(content)
      /\ IsInjective(out')
  <2>1. out \in Seq(ToSet(content)) /\ IsInjective(out)
    BY <1>3 DEF HeapInv
  <2>2. Popped \cup left = ToSet(content) /\ Popped \cap left = {}
    BY <2>1 DEF Popped, ToSet
  <2>3. ToSet(out) = Popped
    BY DEF Popped
  <2> HIDE DEF left
  <2>4. /\ out \o rest \in Seq(ToSet(content))
        /\ Len(out \o rest) = Len(out) + Len(rest)
        /\ \A i \in 1..Len(out) : (out \o rest)[i] = out[i]
        /\ \A i \in 1..Len(rest) : (out \o rest)[Len(out) + i] = rest[i]
        /\ ToSet(out \o rest) = ToSet(out) \cup ToSet(rest)
    BY <1>4, <2>1, ListJoined
  <2>5. IsInjective(out \o rest)
    BY <1>4, <2>1, <2>2, <2>3, ListJoined
  <2> QED
    BY <1>1, <1>4, <2>2, <2>3, <2>4, <2>5
<1>6. /\ Len(out) \in Nat /\ Len(rest) \in Nat /\ Len(out') \in Nat
      /\ DOMAIN out = 1..Len(out) /\ DOMAIN rest = 1..Len(rest)
      /\ DOMAIN out' = 1..(Len(out) + Len(rest))
  BY <1>3, <1>4, <1>5 DEF HeapInv
<1>7. \A p : Needs(p)' = Needs(p)
  BY <1>2 DEF Needs
<1>8. \A i \in DOMAIN out' : At(out', out'[i]) = i
  BY <1>5, PlaceOf
<1>9. ASSUME NEW p \in left
      PROVE  \E m \in left : m \in Needs(p) /\ m # p /\ m \in masters[p]
  BY <1>2, <1>3 DEF HeapInv, Needs
<1>10. Violations(out)' =
         {e \in ToSet(content) \X ToSet(content) :
            e[2] \in masters[e[1]] /\ At(out', e[2]) > At(out', e[1])}
  BY <1>2, <1>5 DEF Violations
\* With something left, it is a cycle, and the first of it comes before one
\* of its masters.
<1>11. ASSUME left # {}
       PROVE  /\ \E S \in SUBSET ToSet(content) : Deadlocked(S)
              /\ Violations(out)' # {}
  <2>1. Deadlocked(left) /\ left \subseteq ToSet(content)
    BY <1>9, <1>11 DEF Deadlocked
  <2>2. 1 \in DOMAIN rest
    <3>1. PICK i \in DOMAIN rest : rest[i] \in left
      BY <1>4, <1>11 DEF ToSet
    <3> QED
      BY <3>1, <1>6
  <2>3. rest[1] \in left
    BY <2>2, <1>4 DEF ToSet
  <2>4. PICK m \in left : m # rest[1] /\ m \in masters[rest[1]]
    BY <2>3, <1>9
  <2>5. PICK j \in DOMAIN rest : rest[j] = m
    BY <1>4 DEF ToSet
  <2>6. j > 1
    BY <2>4, <2>5, <1>6
  <2>7. At(out', rest[1]) = Len(out) + 1 /\ At(out', m) = Len(out) + j
    BY <2>2, <2>5, <1>5, <1>6, <1>8
  <2>8. <<rest[1], m>> \in Violations(out)'
    BY <2>3, <2>4, <2>6, <2>7, <1>6, <1>10
  <2> QED
    BY <2>1, <2>8
\* With nothing left, all have come after their masters.
<1>12. ASSUME left = {}
       PROVE  /\ out' = out
              /\ \A S \in SUBSET ToSet(content) : ~ Deadlocked(S)
              /\ Violations(out)' = {}
  <2>1. out' = out
    <3>1. rest = <<>>
      BY <1>4, <1>6, <1>12 DEF ToSet
    <3> QED
      BY <3>1, <1>1, <1>3 DEF HeapInv
  <2>2. \A i \in DOMAIN out : \A m \in Needs(out[i]) : \E j \in 1..(i - 1) : out[j] = m
    BY <1>2, <1>3 DEF MastersFirst
  <2>3. ASSUME NEW S \in SUBSET ToSet(content), Deadlocked(S) PROVE FALSE
    <3>1. S \cap Popped = {} /\ Popped = ToSet(content)
      BY <2>1, <2>3, <1>3, <1>5 DEF CyclesWait, Popped
    <3> QED
      BY <2>3, <3>1 DEF Deadlocked
  <2>4. ASSUME NEW e \in Violations(out)' PROVE FALSE
    <3>1. /\ e[1] \in ToSet(out) /\ e[2] \in ToSet(out) /\ e[2] \in masters[e[1]]
          /\ At(out, e[2]) > At(out, e[1])
      BY <2>1, <2>4, <1>5, <1>10
    <3>2. PICK i \in DOMAIN out, k \in DOMAIN out : out[i] = e[1] /\ out[k] = e[2]
      BY <3>1 DEF ToSet
    <3>3. k > i
      BY <3>1, <3>2, <2>1, <1>8
    <3>4. e[2] \in Needs(out[i])
      BY <3>1, <3>2, <3>3, <2>1, <1>5, <1>6 DEF Needs, IsInjective
    <3>5. PICK j \in 1..(i - 1) : out[j] = e[2]
      BY <2>2, <3>4
    <3>6. j = k
      BY <3>2, <3>5, <2>1, <1>5, <1>6 DEF IsInjective
    <3> QED
      BY <3>3, <3>5, <3>6, <1>6
  <2> QED
    BY <2>1, <2>3, <2>4
<1>13. OnlyCyclesRefused'
  <2>1. \A S : Deadlocked(S)' <=> Deadlocked(S)
    BY <1>7 DEF Deadlocked
  <2> QED
    BY <2>1, <1>2, <1>5, <1>11, <1>12 DEF OnlyCyclesRefused
<1>14. PreferenceKept'
  <2>1. Violations(pref)' = Violations(pref)
    BY <1>2 DEF Violations
  <2>2. ASSUME Violations(pref) = {} PROVE out' = pref
    <3>1. /\ Len(out) <= Len(pref) /\ \A i \in 1..Len(out) : out[i] = pref[i]
          /\ pref \in Seq(ToSet(content)) /\ IsInjective(pref)
          /\ ToSet(pref) = ToSet(content)
      BY <2>2, <1>3 DEF PrefInv
    <3>2. left = {}
      BY <2>2, <1>2, <1>3, NextIsReady
    <3>3. Len(pref) = Len(out)
      <4> SUFFICES ASSUME Len(pref) # Len(out) PROVE FALSE
        OBVIOUS
      <4>1. Len(out) + 1 \in DOMAIN pref
        BY <3>1, <1>6
      <4>2. PICK i \in DOMAIN out : out[i] = pref[Len(out) + 1]
        BY <4>1, <3>1, <3>2 DEF Popped, ToSet
      <4>3. i \in DOMAIN pref /\ pref[i] = pref[Len(out) + 1]
        BY <4>2, <3>1, <1>6
      <4> QED
        BY <4>1, <4>2, <4>3, <3>1, <1>6 DEF IsInjective
    <3> QED
      BY <3>1, <3>2, <3>3, <1>3, <1>12 DEF HeapInv
  <2> QED
    BY <2>1, <2>2, <1>2 DEF PreferenceKept
<1> QED
  BY <1>2, <1>13, <1>14 DEF SortInv, MastersFirst

-----------------------------------------------------------------------------

LEMMA MainIsFile == Main \in Files
<1>1. Len(Also) \in Nat /\ Len(<<Main>>) = 1 /\ <<Main>>[1] = Main
  BY PathsAssumption
<1>2. 1 \in DOMAIN Paths /\ Paths[1] = Main
  BY <1>1, PathsAssumption DEF Paths
<1> QED
  BY <1>2 DEF Files, ToSet

\* The configurations keep their lists of plugins.
LEMMA InitLists == Init => ListsInv /\ SortInv
<1> SUFFICES ASSUME Init PROVE ListsInv /\ SortInv
  OBVIOUS
<1>1. cfg \in [Files -> Seq(Plugins)]
  BY GivenAssumption DEF Init, Lists
<1> QED
  BY <1>1 DEF Init, ListsInv, SortInv, MastersFirst, OnlyCyclesRefused, PreferenceKept

LEMMA NextLists ==
  ASSUME ListsInv, SortInv, Next
  PROVE  ListsInv'
<1> Main \in Files /\ <<>> \in Seq(Plugins)
  BY MainIsFile
<1>1. CASE ReadOrder
  BY <1>1 DEF ReadOrder, ListsInv, sort
<1>2. CASE RunMlox \/ RankWithoutMlox
  BY <1>2 DEF RunMlox, RankWithoutMlox, Ranked, ListsInv
<1>3. CASE Pop
  <2>1. PICK p \in heap : out' = Append(out, p)
    BY <1>3 DEF Pop
  <2>2. p \in Plugins
    BY <1>3 DEF Pop, SortInv, HeapInv, ListsInv, ToSet
  <2> QED
    BY <1>3, <2>1, <2>2 DEF Pop, ListsInv
<1>4. CASE PopEnds
  <2>1. PICK rest \in Kept(content, ToSet(content) \ ToSet(out)) : out' = out \o rest
    BY <1>4 DEF PopEnds
  <2>2. rest \in Seq(Plugins)
    BY KeptLists DEF ListsInv
  <2> QED
    BY <1>4, <2>1, <2>2 DEF PopEnds, ListsInv
<1>5. CASE Preview \/ Dies
  BY <1>5 DEF Preview, Dies, Returns, ListsInv
<1>6. CASE Save \/ Truncate
  BY <1>6 DEF Save, Truncate, ListsInv, sort
<1>7. CASE Write
  <2>1. PICK order \in Kept(out, ToSet(lines)) : cfg' = [cfg EXCEPT ![Paths[path]] = order]
    BY <1>7 DEF Write, Written
  <2>2. order \in Seq(Plugins)
    BY KeptLists DEF ListsInv
  <2>3. cfg' \in [Files -> Seq(Plugins) \cup {Torn}]
    BY <2>1, <2>2 DEF ListsInv
  <2>4. (content' = content /\ out' = out) \/ (content' = <<>> /\ out' = <<>>)
    BY <1>7 DEF Write, Returns, sort
  <2>5. bak' = bak
    BY <1>7 DEF Write
  <2> QED
    BY <2>3, <2>4, <2>5 DEF ListsInv
<1>8. CASE OtherRegisters
  BY <1>8 DEF OtherRegisters, ListsInv, call, sort
<1>9. CASE OtherUnregisters
  <2>1. PICK p : \E rest \in Kept(cfg[Main], Plugins \ {p}) : cfg' = [cfg EXCEPT ![Main] = rest]
    BY <1>9 DEF OtherUnregisters
  <2>2. cfg[Main] \in Seq(Plugins)
    BY <1>9 DEF OtherUnregisters, ListsInv
  <2>3. PICK rest \in Kept(cfg[Main], Plugins \ {p}) : cfg' = [cfg EXCEPT ![Main] = rest]
    BY <2>1
  <2>4. rest \in Seq(Plugins)
    BY <2>2, KeptLists
  <2> QED
    BY <1>9, <2>3, <2>4 DEF OtherUnregisters, ListsInv, call, sort
<1>10. CASE UserRestores
  BY <1>10 DEF UserRestores, ListsInv, call, sort
<1>11. CASE Apply \/ ReadLines
  <2>1. cfg' = cfg /\ bak' = bak /\ (content' = content \/ content' = <<>>) /\ out' = out
    BY <1>11 DEF Apply, ReadLines, sort
  <2> QED
    BY <2>1 DEF ListsInv
<1> QED
  BY <1>1, <1>2, <1>3, <1>4, <1>5, <1>6, <1>7, <1>8, <1>9, <1>10, <1>11 DEF Next

LEMMA NextSorts ==
  ASSUME ListsInv, SortInv, Next
  PROVE  SortInv'
<1> USE DEF SortInv, MastersFirst, OnlyCyclesRefused, PreferenceKept
<1>1. CASE ReadOrder
  BY <1>1 DEF ReadOrder, sort
<1>2. CASE RunMlox
  <2>1. pc = "rank"
    BY <1>2 DEF RunMlox
  <2>10. PICK order \in SetToAllKPermutations(ToSet(content)) :
          \E rest \in Kept(content, ToSet(content) \ ToSet(order)) : Ranked(order \o rest)
    BY <1>2 DEF RunMlox
  <2>2. PICK rest \in Kept(content, ToSet(content) \ ToSet(order)) : Ranked(order \o rest)
    BY <2>10
  <2>3. PICK S \in SUBSET ToSet(content) : order \in SetToSeqs(S)
    BY DEF SetToAllKPermutations
  <2>4. IsFiniteSet(S)
    BY FiniteList, FS_Subset DEF ListsInv
  <2>5. order \in Seq(S) /\ IsInjective(order) /\ ToSet(order) = S
    BY <2>3, <2>4, PermutationLists
  <2>6. /\ rest \in Seq(ToSet(content)) /\ IsInjective(rest)
        /\ ToSet(rest) = ToSet(content) \ S
    BY <2>5, KeptLists DEF ListsInv
  <2>7. order \in Seq(ToSet(content))
    BY <2>5
  <2>8. /\ order \o rest \in Seq(ToSet(content)) /\ IsInjective(order \o rest)
        /\ ToSet(order \o rest) = ToSet(order) \cup ToSet(rest)
    BY <2>5, <2>6, <2>7, ListJoined
  <2>9. ToSet(order \o rest) = ToSet(content)
    BY <2>5, <2>6, <2>8
  <2> QED
    BY <2>1, <2>2, <2>8, <2>9, RankedSorts
<1>3. CASE RankWithoutMlox
  <2>1. PICK order \in SetToSeqs(ToSet(content)) : Ranked(order)
    BY <1>3 DEF RankWithoutMlox
  <2>2. IsFiniteSet(ToSet(content))
    BY FiniteList DEF ListsInv
  <2>3. order \in Seq(ToSet(content)) /\ IsInjective(order) /\ ToSet(order) = ToSet(content)
    BY <2>1, <2>2, PermutationLists
  <2> QED
    BY <1>3, <2>1, <2>3, RankedSorts DEF RankWithoutMlox
<1>4. CASE Pop
  BY <1>4, PopSorts
<1>5. CASE PopEnds
  BY <1>5, PopEndsSorts
<1>6. CASE Preview \/ Dies
  BY <1>6 DEF Preview, Dies, Returns
<1>7. CASE Apply \/ ReadLines \/ Save \/ Truncate
  BY <1>7 DEF Apply, ReadLines, Save, Truncate
<1>8. CASE Write
  BY <1>8 DEF Write, Returns
<1>9. CASE OtherRegisters \/ OtherUnregisters \/ UserRestores
  BY <1>9 DEF OtherRegisters, OtherUnregisters, UserRestores, OthersMay, call, sort
<1> QED
  BY <1>1, <1>2, <1>3, <1>4, <1>5, <1>6, <1>7, <1>8, <1>9 DEF Next

LEMMA Sorts == Spec => [](ListsInv /\ SortInv)
<1>1. ListsInv /\ SortInv /\ [Next]_vars => (ListsInv /\ SortInv)'
  <2> SUFFICES ASSUME ListsInv, SortInv, [Next]_vars PROVE (ListsInv /\ SortInv)'
    OBVIOUS
  <2>1. CASE Next
    BY <2>1, NextLists, NextSorts
  <2>2. CASE UNCHANGED vars
    BY <2>2 DEF vars, call, sort, ListsInv, SortInv, HeapInv, PrefInv, CyclesWait, Popped,
                MastersFirst, OnlyCyclesRefused, PreferenceKept, Needs, Violations,
                Deadlocked
  <2> QED
    BY <2>1, <2>2
<1> QED
  BY <1>1, InitLists, PTL DEF Spec

\* At every moment of a sort, the plugins that have left the heap come after
\* all of their listed masters, whatever the list, the masters and the order
\* that mlox or the caller asks for.
THEOREM MastersAlwaysFirst == Spec => []MastersFirst
BY Sorts, PTL DEF SortInv

\* The result lists every plugin once, and breaks the order of masters exactly
\* when some of them wait for each other: no other list is refused, and no
\* list with a cycle is written.
THEOREM SortFailsForCyclesOnly == Spec => []OnlyCyclesRefused
BY Sorts, PTL DEF SortInv

\* An order that puts masters first is returned as it was asked for.
THEOREM ValidPreferenceIsKept == Spec => []PreferenceKept
BY Sorts, PTL DEF SortInv

-----------------------------------------------------------------------------
(* What the configurations list while they are written.                    *)

Writing == pc \in {"read", "save", "truncate", "write"}

\* One configuration at a time is cut short, in write_content; between calls,
\* those that a call which died has left so.
TornInv ==
  /\ path \in DOMAIN Paths
  /\ pc # "idle" => \A f \in Files : cfg[f] = Torn => pc = "write" /\ f = Paths[path]

\* What is written puts masters first.
OrderInv == Writing => Violations(out) = {}

\* The lists that the call holds have all that is registered: others only take
\* lines away meanwhile.
HeldInv ==
  /\ pc \in {"rank", "pop", "sorted"} => registered \subseteq ToSet(content)
  /\ Writing => registered \subseteq ToSet(out)
  /\ pc \in {"save", "truncate", "write"} /\ Paths[path] = Main => ToSet(lines) = registered
  /\ pc = "truncate" /\ Paths[path] = Main => ToSet(bak[Main]) = registered
  /\ RegisteredKept

LEMMA PathFacts ==
  /\ 1 \in DOMAIN Paths
  /\ Len(Paths) \in Nat /\ DOMAIN Paths = 1..Len(Paths)
  /\ \A i \in DOMAIN Paths : Paths[i] \in Files
<1>1. Paths \in Seq(STRING \cup {Main}) /\ Len(Paths) = 1 + Len(Also) /\ Len(Also) \in Nat
  BY PathsAssumption DEF Paths
<1> QED
  BY <1>1 DEF Files, ToSet

\* Taking plugins from a list that puts masters first leaves one that does.
LEMMA KeptInOrder ==
  ASSUME NEW s \in Seq(Plugins), NEW X, NEW t \in Kept(s, X), Violations(s) = {}
  PROVE  Violations(t) = {}
<1> SUFFICES ASSUME NEW e \in Violations(t) PROVE FALSE
  OBVIOUS
<1>1. /\ e \in ToSet(t) \X ToSet(t) /\ e[2] \in masters[e[1]]
      /\ At(t, e[2]) > At(t, e[1])
  BY DEF Violations
<1>2. t \in Seq(Plugins) /\ IsInjective(t) /\ ToSet(t) \subseteq ToSet(s)
  BY KeptLists
<1>3. PICK i \in DOMAIN t, j \in DOMAIN t : t[i] = e[1] /\ t[j] = e[2]
  BY <1>1 DEF ToSet
<1>4. At(t, e[1]) = i /\ At(t, e[2]) = j
  BY <1>2, <1>3, PlaceOf
<1>5. \A k, l \in DOMAIN t : k < l => At(s, t[k]) < At(s, t[l])
  BY DEF Kept
<1>6. i \in Nat /\ j \in Nat /\ i < j
  BY <1>1, <1>2, <1>3, <1>4
<1>7. At(s, e[1]) < At(s, e[2])
  BY <1>3, <1>5, <1>6
<1>8. \A p \in ToSet(s) : At(s, p) \in Nat
  BY DEF At, ToSet
<1>9. e \in ToSet(s) \X ToSet(s) /\ At(s, e[2]) > At(s, e[1])
  BY <1>1, <1>2, <1>7, <1>8
<1> QED
  BY <1>1, <1>9 DEF Violations

LEMMA NextTorn ==
  ASSUME ListsInv, TornInv, Next
  PROVE  TornInv'
<1> USE PathFacts, MainIsFile DEF TornInv
<1>1. CASE ReadOrder
  BY <1>1 DEF ReadOrder
<1>2. CASE RunMlox \/ RankWithoutMlox
  BY <1>2 DEF RunMlox, RankWithoutMlox, Ranked
<1>3. CASE Pop
  BY <1>3 DEF Pop
<1>4. CASE PopEnds \/ Apply
  BY <1>4 DEF PopEnds, Apply
<1>5. CASE Preview \/ Dies
  BY <1>5 DEF Preview, Dies, Returns
<1>6. CASE ReadLines \/ Save
  BY <1>6 DEF ReadLines, Save
<1>7. CASE Truncate
  BY <1>7 DEF Truncate, ListsInv
<1>8. CASE Write
  <2>1. PICK order \in Kept(out, ToSet(lines)) : cfg' = [cfg EXCEPT ![Paths[path]] = order]
    BY <1>8 DEF Write, Written
  <2>2. order # Torn
    BY KeptLists, TornAssumption DEF ListsInv
  <2>3. \A f \in Files : cfg'[f] # Torn
    BY <1>8, <2>1, <2>2 DEF Write, ListsInv
  <2>4. path' \in DOMAIN Paths
    BY <1>8 DEF Write, Returns
  <2> QED
    BY <2>3, <2>4
<1>9. CASE OtherRegisters
  <2>1. PICK p \in Plugins : cfg' = [cfg EXCEPT ![Main] = Append(cfg[Main], p)]
    BY <1>9 DEF OtherRegisters
  <2>2. Append(cfg[Main], p) # Torn
    <3>1. cfg[Main] \in Seq(Plugins)
      BY <1>9 DEF OtherRegisters, ListsInv
    <3>2. Append(cfg[Main], p) \in Seq(Plugins)
      BY <3>1
    <3> QED
      BY <3>2, TornAssumption
  <2> QED
    BY <1>9, <2>1, <2>2 DEF OtherRegisters, call, ListsInv
<1>10. CASE OtherUnregisters
  <2>1. cfg[Main] \in Seq(Plugins)
    BY <1>10 DEF OtherUnregisters, ListsInv
  <2>2. PICK p \in ToSet(cfg[Main]) :
          \E rest \in Kept(cfg[Main], Plugins \ {p}) : cfg' = [cfg EXCEPT ![Main] = rest]
    BY <1>10 DEF OtherUnregisters
  <2>10. PICK rest \in Kept(cfg[Main], Plugins \ {p}) : cfg' = [cfg EXCEPT ![Main] = rest]
    BY <2>2
  <2>3. rest # Torn
    BY <2>1, KeptLists, TornAssumption
  <2> QED
    BY <1>10, <2>10, <2>3 DEF OtherUnregisters, call, ListsInv
<1>11. CASE UserRestores
  BY <1>11 DEF UserRestores, call
<1> QED
  BY <1>1, <1>2, <1>3, <1>4, <1>5, <1>6, <1>7, <1>8, <1>9, <1>10, <1>11 DEF Next

LEMMA NextInOrder ==
  ASSUME OrderInv, Next
  PROVE  OrderInv'
<1> USE DEF OrderInv, Writing, Violations
<1>1. CASE ReadOrder \/ Preview \/ Dies
  BY <1>1 DEF ReadOrder, Preview, Dies, Returns
<1>2. CASE RunMlox \/ RankWithoutMlox
  BY <1>2 DEF RunMlox, RankWithoutMlox, Ranked
<1>3. CASE Pop \/ PopEnds
  BY <1>3 DEF Pop, PopEnds
<1>4. CASE Apply \/ ReadLines \/ Save \/ Truncate
  BY <1>4 DEF Apply, ReadLines, Save, Truncate, sort
<1>5. CASE Write
  BY <1>5 DEF Write, Returns, sort
<1>6. CASE OtherRegisters \/ OtherUnregisters \/ UserRestores
  BY <1>6 DEF OtherRegisters, OtherUnregisters, UserRestores, call, sort
<1> QED
  BY <1>1, <1>2, <1>3, <1>4, <1>5, <1>6 DEF Next

LEMMA Writes == Spec => [](TornInv /\ OrderInv)
<1>1. Init => TornInv /\ OrderInv
  BY PathFacts DEF Init, TornInv, OrderInv, Writing
<1>2. ListsInv /\ TornInv /\ OrderInv /\ [Next]_vars => (TornInv /\ OrderInv)'
  <2> SUFFICES ASSUME ListsInv, TornInv, OrderInv, [Next]_vars
               PROVE  (TornInv /\ OrderInv)'
    OBVIOUS
  <2>1. CASE UNCHANGED vars
    BY <2>1 DEF vars, call, sort, TornInv, OrderInv, Writing, Violations
  <2> QED
    BY <2>1, NextTorn, NextInOrder
<1> QED
  BY <1>1, <1>2, Sorts, PTL DEF Spec

\* Whatever the configurations list, each that is written puts masters first:
\* what others changed since the order was computed does not matter.
THEOREM WrittenAlwaysLoads == Spec => WrittenOrderLoads
<1>1. ListsInv /\ TornInv /\ OrderInv /\ [Next]_vars
        => [pc = "write" /\ cfg' # cfg =>
              \A f \in Files : cfg'[f] # cfg[f] => Violations(cfg'[f]) = {}]_vars
  <2> SUFFICES ASSUME ListsInv, TornInv, OrderInv, Next, pc = "write",
                      NEW f \in Files, cfg'[f] # cfg[f]
               PROVE  Violations(cfg'[f]) = {}
    OBVIOUS
  <2>1. CASE Write
    <3>1. PICK order \in Kept(out, ToSet(lines)) : cfg' = [cfg EXCEPT ![Paths[path]] = order]
      BY <2>1 DEF Write, Written
    <3>2. f = Paths[path] /\ cfg'[f] = order
      BY <3>1 DEF ListsInv
    <3>3. out \in Seq(Plugins) /\ Violations(out) = {}
      BY DEF ListsInv, OrderInv, Writing
    <3> QED
      BY <3>2, <3>3, KeptInOrder
  <2>2. CASE Dies
    BY <2>2 DEF Dies
  <2> QED
    BY <2>1, <2>2
       DEF Next, ReadOrder, RunMlox, RankWithoutMlox, Pop, PopEnds, Preview, Apply, ReadLines,
           Save, Truncate, OtherRegisters, OtherUnregisters, UserRestores, OthersMay
<1> QED
  BY <1>1, Sorts, Writes, PTL DEF Spec, WrittenOrderLoads

-----------------------------------------------------------------------------

LEMMA NextHeld ==
  ASSUME "registers" \notin Faults, ListsInv, SortInv, TornInv, HeldInv, Next
  PROVE  HeldInv'
<1> USE PathFacts, MainIsFile DEF HeldInv, Writing, RegisteredKept
<1>1. CASE ReadOrder
  BY <1>1 DEF ReadOrder
<1>2. CASE RunMlox \/ RankWithoutMlox
  BY <1>2 DEF RunMlox, RankWithoutMlox, Ranked
<1>3. CASE Pop
  BY <1>3 DEF Pop
<1>4. CASE PopEnds
  <2>1. content' = content /\ cfg' = cfg /\ bak' = bak /\ registered' = registered /\ pc' = "sorted"
    BY <1>4 DEF PopEnds
  <2> QED
    BY <1>4, <2>1 DEF PopEnds
<1>5. CASE Preview \/ Dies
  BY <1>5 DEF Preview, Dies, Returns
<1>6. CASE Apply
  <2>1. registered \subseteq ToSet(out)
    BY <1>6 DEF Apply, SortInv, OnlyCyclesRefused
  <2> QED
    BY <1>6, <2>1 DEF Apply
<1>7. CASE ReadLines
  <2>1. cfg[Paths[path]] # Torn
    BY <1>7 DEF ReadLines, TornInv
  <2>2. Paths[path] = Main => ToSet(lines') = registered
    BY <1>7, <2>1 DEF ReadLines
  <2> QED
    BY <1>7, <2>2 DEF ReadLines, sort
<1>8. CASE Save
  <2>1. cfg[Paths[path]] # Torn
    BY <1>8 DEF Save, TornInv
  <2>2. Main # Paths[path] => bak'[Main] = bak[Main]
    BY <1>8 DEF Save, ListsInv
  <2>3. Main = Paths[path] => bak'[Main] = cfg[Main] /\ cfg[Main] # Torn
    BY <1>8, <2>1 DEF Save, ListsInv
  <2>4. RegisteredKept'
    BY <1>8, <2>2, <2>3 DEF Save
  <2> QED
    BY <1>8, <2>3, <2>4 DEF Save, sort
<1>9. CASE Truncate
  <2>1. Main # Paths[path] => cfg'[Main] = cfg[Main]
    BY <1>9 DEF Truncate, ListsInv
  <2>2. Main = Paths[path] => cfg'[Main] = Torn /\ ToSet(bak[Main]) = registered
    BY <1>9 DEF Truncate, ListsInv, TornInv
  <2> QED
    BY <1>9, <2>1, <2>2 DEF Truncate, sort
<1>10. CASE Write
  <2>1. PICK order \in Kept(out, ToSet(lines)) : cfg' = [cfg EXCEPT ![Paths[path]] = order]
    BY <1>10 DEF Write, Written
  <2>2. /\ order \in Seq(Plugins) /\ order # Torn
        /\ ToSet(order) = ToSet(out) \cap ToSet(lines)
    BY KeptLists, TornAssumption DEF ListsInv
  <2>3. Main # Paths[path] => cfg'[Main] = cfg[Main]
    BY <2>1 DEF ListsInv
  <2>4. Main = Paths[path] => cfg'[Main] = order /\ ToSet(order) = registered
    BY <1>10, <2>1, <2>2 DEF Write, ListsInv
  <2>5. RegisteredKept'
    BY <1>10, <2>2, <2>3, <2>4 DEF Write
  <2>6. pc' = "idle" \/ (pc' = "read" /\ out' = out)
    BY <1>10 DEF Write, Returns, sort
  <2>7. pc' = "read" => registered' \subseteq ToSet(out')
    BY <1>10, <2>6 DEF Write
  <2> QED
    BY <2>5, <2>6, <2>7
<1>11. CASE OtherRegisters
  <2>1. PICK p \in Plugins :
          /\ cfg[Main] # Torn
          /\ cfg' = [cfg EXCEPT ![Main] = Append(cfg[Main], p)]
          /\ registered' = registered \cup {p}
    BY <1>11 DEF OtherRegisters
  <2>2. cfg[Main] \in Seq(Plugins)
    BY <2>1 DEF ListsInv
  <2>3. Append(cfg[Main], p) \in Seq(Plugins) /\ ToSet(Append(cfg[Main], p)) = ToSet(cfg[Main]) \cup {p}
    BY <2>2, ListAppended
  <2>4. cfg'[Main] = Append(cfg[Main], p)
    BY <2>1 DEF ListsInv
  <2>5. RegisteredKept'
    BY <2>1, <2>3, <2>4, TornAssumption
  <2>6. pc' = "idle"
    BY <1>11 DEF OtherRegisters, call
  <2> QED
    BY <2>5, <2>6
<1>12. CASE OtherUnregisters
  <2>1. PICK p \in ToSet(cfg[Main]) :
          /\ \E rest \in Kept(cfg[Main], Plugins \ {p}) : cfg' = [cfg EXCEPT ![Main] = rest]
          /\ registered' = registered \ {p}
    BY <1>12 DEF OtherUnregisters
  <2>2. cfg[Main] # Torn /\ cfg[Main] \in Seq(Plugins)
    BY <1>12 DEF OtherUnregisters, ListsInv
  <2>3. PICK rest \in Kept(cfg[Main], Plugins \ {p}) : cfg' = [cfg EXCEPT ![Main] = rest]
    BY <2>1
  <2>4. rest \in Seq(Plugins) /\ ToSet(rest) = ToSet(cfg[Main]) \cap (Plugins \ {p})
    BY <2>2, KeptLists
  <2>5. ToSet(cfg[Main]) \subseteq Plugins
    BY <2>2 DEF ToSet
  <2>6. ToSet(rest) = registered \ {p} /\ rest # Torn
    BY <2>2, <2>4, <2>5, TornAssumption
  <2>7. cfg'[Main] = rest
    BY <2>3 DEF ListsInv
  <2>8. RegisteredKept'
    BY <2>1, <2>6, <2>7
  <2>9. /\ pc' = pc /\ content' = content /\ out' = out
        /\ pc \in {"idle", "rank", "read"}
    BY <1>12 DEF OtherUnregisters, OthersMay, call, sort
  <2> QED
    BY <2>1, <2>8, <2>9
<1>13. CASE UserRestores
  <2>1. PICK f \in Files : cfg[f] = Torn /\ cfg' = [cfg EXCEPT ![f] = bak[f]]
    BY <1>13 DEF UserRestores
  <2>2. bak' = bak /\ registered' = registered /\ pc' = "idle"
    BY <1>13 DEF UserRestores, call
  <2>3. CASE f = Main
    <3>1. cfg'[Main] = bak[Main] /\ ToSet(bak[Main]) = registered
      BY <2>1, <2>3 DEF ListsInv
    <3> QED
      BY <2>2, <3>1
  <2>4. CASE f # Main
    <3>1. cfg'[Main] = cfg[Main]
      BY <2>1, <2>4 DEF ListsInv
    <3> QED
      BY <2>2, <3>1
  <2> QED
    BY <2>3, <2>4
<1> QED
  BY <1>1, <1>2, <1>3, <1>4, <1>5, <1>6, <1>7, <1>8, <1>9, <1>10, <1>11, <1>12, <1>13
     DEF Next

\* If nothing is registered while an order is computed, the openmw.cfg or its
\* backup lists what is registered, wherever the process dies, with any
\* configurations beside and any number of calls.
THEOREM RegisteredNeverLost ==
  ASSUME "registers" \notin Faults
  PROVE  Spec => []RegisteredKept
<1>1. Init => HeldInv
  <2> SUFFICES ASSUME Init PROVE HeldInv
    OBVIOUS
  <2>1. cfg[Main] \in Seq(Plugins)
    BY MainIsFile, GivenAssumption DEF Init, Lists
  <2> QED
    BY <2>1, TornAssumption DEF Init, HeldInv, Writing, RegisteredKept
<1>2. ListsInv /\ SortInv /\ TornInv /\ HeldInv /\ [Next]_vars => HeldInv'
  <2> SUFFICES ASSUME ListsInv, SortInv, TornInv, HeldInv, [Next]_vars PROVE HeldInv'
    OBVIOUS
  <2>1. CASE UNCHANGED vars
    BY <2>1 DEF vars, call, sort, HeldInv, Writing, RegisteredKept
  <2> QED
    BY <2>1, NextHeld
<1>3. HeldInv => RegisteredKept
  BY DEF HeldInv
<1> QED
  BY <1>1, <1>2, <1>3, Sorts, Writes, PTL DEF Spec

-----------------------------------------------------------------------------

\* Only while the sort runs is there a heap.
ShapeInv ==
  /\ TypeOK
  /\ pc # "pop" => heap = {}

\* The types of what a list of configurations is written to and read from.
LEMMA NextConfigurations ==
  ASSUME ListsInv, ListsInv', TornInv, ShapeInv, Next
  PROVE  /\ cfg' \in [Files -> Seq(Plugins) \cup {Torn}]
         /\ bak' \in [Files -> Seq(Plugins)]
         /\ lines' \in Seq(Plugins)
         /\ registered' \in SUBSET Plugins
         /\ calls' \in 0..MaxCalls
<1> USE DEF ShapeInv, TypeOK
<1> <<>> \in Seq(Plugins)
  OBVIOUS
<1>1. cfg' \in [Files -> Seq(Plugins) \cup {Torn}]
  BY DEF ListsInv
<1>2. bak' \in [Files -> Seq(Plugins)]
  <2>1. CASE Save
    <3>1. cfg[Paths[path]] \in Seq(Plugins)
      BY <2>1, PathFacts DEF Save, TornInv
    <3> QED
      BY <2>1, <3>1 DEF Save
  <2>2. CASE ~ Save
    <3>1. bak' = bak
      BY <2>2 DEF Next, ReadOrder, RunMlox, RankWithoutMlox, Ranked, Pop, PopEnds, Preview,
            Apply, ReadLines, Truncate, Write, OtherRegisters, OtherUnregisters, Dies,
            UserRestores
    <3> QED
      BY <3>1
  <2> QED
    BY <2>1, <2>2
<1>3. lines' \in Seq(Plugins)
  <2>1. CASE ReadLines
    BY <2>1, PathFacts DEF ReadLines, TornInv
  <2>2. CASE ~ ReadLines
    <3>1. lines' = lines \/ lines' = <<>>
      BY <2>2 DEF Next, ReadOrder, RunMlox, RankWithoutMlox, Ranked, Pop, PopEnds, Preview,
            Apply, Save, Truncate, Write, OtherRegisters, OtherUnregisters, Dies,
            UserRestores, Returns, call
    <3> QED
      BY <3>1
  <2> QED
    BY <2>1, <2>2
<1>4. registered' \in SUBSET Plugins
  <2>1. \/ registered' = registered
        \/ \E p \in Plugins : registered' = registered \cup {p}
        \/ \E p \in ToSet(cfg[Main]) : registered' = registered \ {p}
    BY DEF Next, ReadOrder, RunMlox, RankWithoutMlox, Ranked, Pop, PopEnds, Preview,
          Apply, ReadLines, Save, Truncate, Write, OtherRegisters, OtherUnregisters, Dies,
          UserRestores
  <2> QED
    BY <2>1
<1>5. calls' \in 0..MaxCalls
  <2>1. calls' = calls \/ (calls < MaxCalls /\ calls' = calls + 1)
    BY DEF Next, ReadOrder, RunMlox, RankWithoutMlox, Ranked, Pop, PopEnds, Preview,
          Apply, ReadLines, Save, Truncate, Write, OtherRegisters, OtherUnregisters, Dies,
          UserRestores
  <2> QED
    BY <2>1, MaxCallsAssumption
<1> QED
  BY <1>1, <1>2, <1>3, <1>4, <1>5

\* The types of what the sort works on.
LEMMA NextCall ==
  ASSUME ListsInv, ListsInv', SortInv, SortInv', TornInv, ShapeInv, Next
  PROVE  /\ pc' \in {"idle", "rank", "pop", "sorted", "read", "save", "truncate", "write"}
         /\ pc' \in {"rank", "pop", "sorted"} => masters' \in [ToSet(content') -> SUBSET Plugins]
         /\ pref' \in Seq(Plugins)
         /\ heap' \in SUBSET ToSet(content')
         /\ pc' # "pop" => heap' = {}
<1> USE DEF ShapeInv, TypeOK
<1> <<>> \in Seq(Plugins)
  OBVIOUS
<1>1. CASE ReadOrder
  <2>1. cfg[Main] \in Seq(Plugins) /\ content' = cfg[Main]
    BY <1>1, MainIsFile DEF ReadOrder
  <2>2. ToSet(content') \subseteq Plugins
    BY <2>1 DEF ToSet
  <2>3. PICK header \in Headers : masters' = Restrict(header, ToSet(content'))
    BY <1>1 DEF ReadOrder
  <2>4. masters' \in [ToSet(content') -> SUBSET Plugins]
    BY <2>2, <2>3, HeadersAssumption DEF Restrict
  <2>5. heap' = {} /\ pref' = pref /\ pc' = "rank"
    BY <1>1 DEF ReadOrder, sort
  <2> QED
    BY <2>4, <2>5
<1>2. CASE RunMlox \/ RankWithoutMlox
  <2>1. pc' = "pop" /\ content' = content /\ masters' = masters
        /\ heap' \subseteq ToSet(content)
    BY <1>2 DEF RunMlox, RankWithoutMlox, Ranked
  <2>2. pref' \in Seq(ToSet(content)) /\ ToSet(content) \subseteq Plugins
    BY <2>1 DEF SortInv, PrefInv, ToSet
  <2>3. masters \in [ToSet(content) -> SUBSET Plugins]
    BY <1>2 DEF RunMlox, RankWithoutMlox
  <2> QED
    BY <2>1, <2>2, <2>3
<1>3. CASE Pop
  BY <1>3 DEF Pop
<1>4. CASE PopEnds
  BY <1>4 DEF PopEnds
<1>5. CASE Preview \/ Dies
  BY <1>5 DEF Preview, Dies, Returns
<1>6. CASE Apply
  BY <1>6 DEF Apply
<1>7. CASE ReadLines \/ Save \/ Truncate
  BY <1>7 DEF ReadLines, Save, Truncate, sort
<1>8. CASE Write
  BY <1>8 DEF Write, Returns, sort
<1>9. CASE OtherRegisters \/ OtherUnregisters \/ UserRestores
  <2>1. UNCHANGED <<pc, content, masters, pref, heap>>
    BY <1>9 DEF OtherRegisters, OtherUnregisters, UserRestores, call, sort
  <2> QED
    BY <2>1
<1> QED
  BY <1>1, <1>2, <1>3, <1>4, <1>5, <1>6, <1>7, <1>8, <1>9 DEF Next

\* The types, for every set of configurations and plugins: no backup is made
\* of a list that is cut short, and no new list is made from one.
THEOREM AlwaysTypeOK == Spec => []TypeOK
<1>1. Init => ShapeInv
  <2> SUFFICES ASSUME Init PROVE ShapeInv
    OBVIOUS
  <2>1. cfg \in [Files -> Seq(Plugins)] /\ \A f \in Files : cfg[f] \in Seq(Plugins)
    BY GivenAssumption DEF Init, Lists
  <2>2. registered \in SUBSET Plugins
    BY <2>1, MainIsFile DEF Init, ToSet
  <2> QED
    BY <2>1, <2>2, PathFacts, MaxCallsAssumption DEF Init, ShapeInv, TypeOK
<1>2. ListsInv /\ SortInv /\ TornInv /\ ShapeInv /\ ListsInv' /\ SortInv' /\ TornInv'
      /\ [Next]_vars => ShapeInv'
  <2> SUFFICES ASSUME ListsInv, SortInv, TornInv, ShapeInv,
                      ListsInv', SortInv', TornInv', [Next]_vars
               PROVE  ShapeInv'
    OBVIOUS
  <2>1. CASE Next
    <3>1. content' \in Seq(Plugins) /\ out' \in Seq(Plugins) /\ path' \in DOMAIN Paths
      BY DEF ListsInv, TornInv
    <3> QED
      BY <2>1, <3>1, NextConfigurations, NextCall DEF ShapeInv, TypeOK
  <2>2. CASE UNCHANGED vars
    BY <2>2 DEF vars, call, sort, ShapeInv, TypeOK
  <2> QED
    BY <2>1, <2>2
<1>3. ShapeInv => TypeOK
  BY DEF ShapeInv
<1> QED
  BY <1>1, <1>2, <1>3, Sorts, Writes, PTL DEF Spec
=============================================================================
