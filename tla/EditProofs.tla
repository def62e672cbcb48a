----------------------------- MODULE EditProofs -----------------------------
(* Theorems about EditServers.                                             *)
EXTENDS EditServers, OrderLemmas

-----------------------------------------------------------------------------
(* The tree: nodes, groups and where the references lie.                   *)

LEMMA NodeFacts ==
  ASSUME NEW b \in Seq(Node), NEW k \in DOMAIN b
  PROVE  /\ b[k] \in Node
         /\ b[k].kind \in {"cell", "children"}
         /\ b[k].id \in Id
         /\ b[k].groups \in Seq(Group)
         /\ b[k].kind = "cell" => b[k].groups = <<>>
<1>1. b[k] \in Node
  OBVIOUS
<1>2. <<>> \in Seq(Group)
  OBVIOUS
<1> QED
  BY <1>1, <1>2 DEF Node

LEMMA Predecessor ==
  ASSUME NEW b \in Seq(Node), NEW k \in DOMAIN b, k > 1
  PROVE  k - 1 \in DOMAIN b /\ (k - 1) + 1 = k
OBVIOUS

LEMMA Successor ==
  ASSUME NEW b \in Seq(Node), NEW k \in DOMAIN b, NEW l, l = k + 1
  PROVE  l > 1 /\ l - 1 = k
OBVIOUS

LEMMA PlaceFacts ==
  ASSUME NEW b
  PROVE  /\ \A s \in Subgroups(b) : /\ s = <<s[1], s[2]>>
                                    /\ s[1] \in DOMAIN b
                                    /\ s[2] \in DOMAIN b[s[1]].groups
         /\ \A k \in DOMAIN b : \A j \in DOMAIN b[k].groups :
              <<k, j>> \in Subgroups(b)
<1>1. ASSUME NEW s \in Subgroups(b)
      PROVE  s = <<s[1], s[2]>> /\ s[1] \in DOMAIN b /\ s[2] \in DOMAIN b[s[1]].groups
  <2>1. PICK k \in DOMAIN b : s \in {k} \X DOMAIN b[k].groups
    BY DEF Subgroups
  <2> QED
    BY <2>1
<1>2. ASSUME NEW k \in DOMAIN b, NEW j \in DOMAIN b[k].groups
      PROVE  <<k, j>> \in Subgroups(b)
  <2>1. <<k, j>> \in {k} \X DOMAIN b[k].groups
    OBVIOUS
  <2> QED
    BY <2>1 DEF Subgroups
<1> QED
  BY <1>1, <1>2

\* A place holds a finite set of ids.
LEMMA RefsAtFacts ==
  ASSUME NEW b \in Seq(Node), NEW s \in Subgroups(b)
  PROVE  /\ b[s[1]].kind = "children"
         /\ b[s[1]].groups[s[2]] \in Group
         /\ RefsAt(b, s) \subseteq Id /\ IsFiniteSet(RefsAt(b, s))
<1>1. s[1] \in DOMAIN b /\ s[2] \in DOMAIN b[s[1]].groups
  BY PlaceFacts
<1>2. b[s[1]].groups \in Seq(Group) /\ b[s[1]].kind \in {"cell", "children"}
      /\ (b[s[1]].kind = "cell" => b[s[1]].groups = <<>>)
  BY <1>1, NodeFacts
<1>3. b[s[1]].groups[s[2]] \in Group
  BY <1>1, <1>2
<1>4. b[s[1]].kind # "cell"
  BY <1>1, <1>2
<1> QED
  BY <1>2, <1>3, <1>4 DEF RefsAt, Group

\* h takes each cell of b2, but for one of N, to a cell of b ...
CellMap(b, b2, N, h) ==
  /\ \A k \in DOMAIN b2 : b2[k].kind = "cell" =>
       \/ b2[k].id \in N
       \/ h[k] \in DOMAIN b /\ b[h[k]].kind = "cell" /\ b[h[k]].id = b2[k].id
  /\ \A k, l \in DOMAIN b2 :
       k # l /\ b2[k].kind = "cell" /\ b2[l].kind = "cell" =>
         IF b2[k].id \in N THEN b2[l].id \notin N ELSE b2[l].id \in N \/ h[k] # h[l]

\* ... and g each group of b2 that has records to a group of b that has them.
GroupMap(b, b2, g) ==
  /\ \A s \in Subgroups(b2) : RefsAt(b2, s) # {} =>
       g[s] \in Subgroups(b) /\ RefsAt(b2, s) \subseteq RefsAt(b, g[s])
  /\ \A s, u \in Subgroups(b2) :
       s # u /\ RefsAt(b2, s) # {} /\ RefsAt(b2, u) # {} => g[s] # g[u]

\* b2 has the ids of b, but for those that are gone, and N.
Kept(b, b2, N) ==
  /\ CellsIn(b2) \subseteq CellsIn(b) \cup N
  /\ RefsIn(b2) \subseteq RefsIn(b)

\* The cells and the references of b2.
Holds(b2, cells, refs) == CellsIn(b2) = cells /\ RefsIn(b2) = refs

\* b2 is b with N in one of the groups.
OneGains(b, b2, s0, N) ==
  /\ DOMAIN b2 = DOMAIN b
  /\ \A k \in DOMAIN b : b2[k].kind = b[k].kind /\ b2[k].id = b[k].id
  /\ Subgroups(b2) = Subgroups(b)
  /\ \A s \in Subgroups(b) :
       RefsAt(b2, s) = IF s = s0 THEN RefsAt(b, s) \cup N ELSE RefsAt(b, s)

\* Uniqueness survives when nodes and groups only go, move or lose records, and
\* one new cell comes.
LEMMA Reshaped ==
  ASSUME NEW t, NEW b, NEW t2, NEW b2, NEW N, NEW h, NEW g,
         Unique(t, b), t2 \subseteq t, N \cap Records(t, b) = {},
         CellMap(b, b2, N, h), GroupMap(b, b2, g)
  PROVE  Unique(t2, b2) /\ Kept(b, b2, N)
<1>1. CellsIn(b2) \subseteq CellsIn(b) \cup N
  BY DEF CellsIn, CellMap
<1>2. RefsIn(b2) \subseteq RefsIn(b)
  <2> SUFFICES ASSUME NEW s \in Subgroups(b2), NEW x \in RefsAt(b2, s)
               PROVE  x \in RefsIn(b)
    BY DEF RefsIn
  <2>1. g[s] \in Subgroups(b) /\ x \in RefsAt(b, g[s])
    BY DEF GroupMap
  <2> QED
    BY <2>1 DEF RefsIn
<1>3. N \cap t = {} /\ N \cap CellsIn(b) = {} /\ N \cap RefsIn(b) = {}
  BY DEF Records
<1>4. ASSUME NEW k \in DOMAIN b2, NEW l \in DOMAIN b2, k # l,
             b2[k].kind = "cell", b2[l].kind = "cell"
      PROVE  b2[k].id # b2[l].id
  <2>1. CASE b2[k].id \in N
    BY <1>1, <1>3, <1>4, <2>1 DEF CellMap, CellsIn
  <2>2. CASE b2[l].id \in N
    BY <1>4, <2>2 DEF CellMap
  <2>3. CASE b2[k].id \notin N /\ b2[l].id \notin N
    BY <1>4, <2>3 DEF Unique, CellMap
  <2> QED
    BY <2>1, <2>2, <2>3
<1>5. ASSUME NEW s \in Subgroups(b2), NEW u \in Subgroups(b2), s # u
      PROVE  RefsAt(b2, s) \cap RefsAt(b2, u) = {}
  <2>1. CASE RefsAt(b2, s) = {} \/ RefsAt(b2, u) = {}
    BY <2>1
  <2>2. CASE RefsAt(b2, s) # {} /\ RefsAt(b2, u) # {}
    <3>1. RefsAt(b, g[s]) \cap RefsAt(b, g[u]) = {}
      BY <1>5, <2>2 DEF Unique, GroupMap
    <3> QED
      BY <2>2, <3>1 DEF GroupMap
  <2> QED
    BY <2>1, <2>2
<1>6. t \cap CellsIn(b) = {} /\ (t \cup CellsIn(b)) \cap RefsIn(b) = {}
  BY DEF Unique
<1> QED
  BY <1>1, <1>2, <1>3, <1>4, <1>5, <1>6 DEF Unique, Kept

\* ... and when one group gains records that were in none.
LEMMA Gained ==
  ASSUME NEW t, NEW b, NEW b2, NEW s0, NEW N, s0 \in Subgroups(b),
         Unique(t, b), N \cap Records(t, b) = {}, OneGains(b, b2, s0, N)
  PROVE  Unique(t, b2) /\ RefsIn(b2) = RefsIn(b) \cup N /\ CellsIn(b2) = CellsIn(b)
<1>1. CellsIn(b2) = CellsIn(b)
  BY DEF CellsIn, OneGains
<1>2. RefsIn(b2) = RefsIn(b) \cup N
  BY DEF RefsIn, OneGains
<1>3. \A s \in Subgroups(b) : RefsAt(b, s) \subseteq RefsIn(b)
  BY DEF RefsIn
<1>4. N \cap RefsIn(b) = {} /\ N \cap CellsIn(b) = {} /\ N \cap t = {}
  BY DEF Records
<1>5. \A k, l \in DOMAIN b2 :
        k # l /\ b2[k].kind = "cell" /\ b2[l].kind = "cell" => b2[k].id # b2[l].id
  BY DEF Unique, OneGains
<1>6. ASSUME NEW s \in Subgroups(b2), NEW u \in Subgroups(b2), s # u
      PROVE  RefsAt(b2, s) \cap RefsAt(b2, u) = {}
  <2>1. RefsAt(b, s) \cap RefsAt(b, u) = {}
    BY <1>6 DEF Unique, OneGains
  <2>2. RefsAt(b, s) \cap N = {} /\ RefsAt(b, u) \cap N = {}
    BY <1>3, <1>4 DEF OneGains
  <2> QED
    BY <1>6, <2>1, <2>2 DEF OneGains
<1>7. t \cap CellsIn(b) = {} /\ (t \cup CellsIn(b)) \cap RefsIn(b) = {}
  BY DEF Unique
<1> QED
  BY <1>1, <1>2, <1>4, <1>5, <1>6, <1>7 DEF Unique

\* b2 is b with other groups in one node.
Regrouped(b, b2, k, gs) ==
  /\ b2 \in Seq(Node)
  /\ DOMAIN b2 = DOMAIN b
  /\ \A l \in DOMAIN b : /\ b2[l].kind = b[l].kind
                         /\ b2[l].id = b[l].id
                         /\ b2[l].groups = IF l = k THEN gs ELSE b[l].groups

LEMMA GroupsAt ==
  ASSUME NEW b \in Seq(Node), NEW k \in DOMAIN b, b[k].kind = "children",
         NEW gs \in Seq(Group), NEW b2, b2 = [b EXCEPT ![k].groups = gs]
  PROVE  Regrouped(b, b2, k, gs)
<1>1. b[k] \in [kind : {"children"}, id : Id, groups : Seq(Group)]
  BY DEF Node
<1> DEFINE new == [b[k] EXCEPT !.groups = gs]
<1>2. new \in [kind : {"children"}, id : Id, groups : Seq(Group)]
  BY <1>1
<1>3. new \in Node /\ new.kind = b[k].kind /\ new.id = b[k].id /\ new.groups = gs
  BY <1>1, <1>2 DEF Node
<1>4. b2 = [b EXCEPT ![k] = new]
  OBVIOUS
<1> HIDE DEF new
<1>5. \A l \in DOMAIN b : b2[l] = IF l = k THEN new ELSE b[l]
  BY <1>4
<1>6. b2 \in Seq(Node) /\ DOMAIN b2 = DOMAIN b
  BY <1>3, <1>4
<1> QED
  BY <1>3, <1>5, <1>6 DEF Regrouped

\* AddRefs adds to one group, and leaves types and places as they are.
LEMMA AddRefsFacts ==
  ASSUME NEW gs \in Seq(Group), HasPersistent(gs),
         NEW N \in SUBSET Id, IsFiniteSet(N)
  PROVE  /\ AddRefs(gs, N) \in Seq(Group) /\ DOMAIN AddRefs(gs, N) = DOMAIN gs
         /\ \A j \in DOMAIN gs : AddRefs(gs, N)[j].type = gs[j].type
         /\ \E first \in DOMAIN gs : \A j \in DOMAIN gs :
              AddRefs(gs, N)[j].refs = IF j = first THEN gs[j].refs \cup N ELSE gs[j].refs
<1> DEFINE P == {j \in DOMAIN gs : gs[j].type = Persistent}
           first == CHOOSE j \in DOMAIN gs :
                      /\ gs[j].type = Persistent
                      /\ \A i \in DOMAIN gs : gs[i].type = Persistent => j <= i
<1>1. \E j \in P : \A i \in P : j <= i
  <2>1. P # {} /\ P \subseteq Nat
    BY DEF HasPersistent
  <2> HIDE DEF P
  <2> QED
    BY <2>1, LeastNatural
<1>2. \E j \in DOMAIN gs :
        /\ gs[j].type = Persistent
        /\ \A i \in DOMAIN gs : gs[i].type = Persistent => j <= i
  BY <1>1
<1>3. first \in DOMAIN gs
  BY <1>2
<1>4. AddRefs(gs, N) = [gs EXCEPT ![first].refs = @ \cup N]
  BY DEF AddRefs
<1> HIDE DEF first
<1>5. gs[first] \in Group
  BY <1>3
<1> DEFINE new == [gs[first] EXCEPT !.refs = @ \cup N]
<1>6. gs[first].refs \cup N \in {R \in SUBSET Id : IsFiniteSet(R)}
  <2>1. gs[first].refs \in SUBSET Id /\ IsFiniteSet(gs[first].refs)
    BY <1>5 DEF Group
  <2>2. IsFiniteSet(gs[first].refs \cup N)
    BY <2>1, FS_Union
  <2> QED
    BY <2>1, <2>2
<1>7. new \in Group /\ new.type = gs[first].type /\ new.refs = gs[first].refs \cup N
  BY <1>5, <1>6 DEF Group
<1>8. AddRefs(gs, N) = [gs EXCEPT ![first] = new]
  BY <1>4
<1> HIDE DEF new
<1>9. \A j \in DOMAIN gs :
        AddRefs(gs, N)[j].refs = IF j = first THEN gs[j].refs \cup N ELSE gs[j].refs
  BY <1>3, <1>7, <1>8
<1>10. AddRefs(gs, N) \in Seq(Group) /\ DOMAIN AddRefs(gs, N) = DOMAIN gs
  BY <1>3, <1>7, <1>8
<1>11. \A j \in DOMAIN gs : AddRefs(gs, N)[j].type = gs[j].type
  BY <1>3, <1>7, <1>8
<1> QED
  BY <1>3, <1>9, <1>10, <1>11

\* e is gs with a persistent group: an empty one is made if there was none.
Ensures(gs, e) ==
  /\ e \in Seq(Group)
  /\ HasPersistent(e)
  /\ Len(e) = Len(gs) + (IF HasPersistent(gs) THEN 0 ELSE 1)
  /\ \E f : /\ \A j \in DOMAIN e : e[j].refs # {} =>
                 f[j] \in DOMAIN gs /\ gs[f[j]].refs = e[j].refs
            /\ \A i, j \in DOMAIN e :
                 i # j /\ e[i].refs # {} /\ e[j].refs # {} => f[i] # f[j]
  /\ \A i \in DOMAIN gs : \E j \in DOMAIN e : e[j].refs = gs[i].refs

EmptyPersistent == [type |-> Persistent, refs |-> {}]

LEMMA EmptyIsGroup == EmptyPersistent \in Group
<1>1. {} \in {R \in SUBSET Id : IsFiniteSet(R)}
  BY FS_EmptySet
<1> QED
  BY <1>1 DEF EmptyPersistent, Group

LEMMA EnsuredAsItIs ==
  ASSUME NEW gs \in Seq(Group), HasPersistent(gs)
  PROVE  Ensures(gs, gs)
<1> DEFINE f == [j \in DOMAIN gs |-> j]
<1>1. /\ \A j \in DOMAIN gs : gs[j].refs # {} =>
                 f[j] \in DOMAIN gs /\ gs[f[j]].refs = gs[j].refs
      /\ \A i, j \in DOMAIN gs :
                 i # j /\ gs[i].refs # {} /\ gs[j].refs # {} => f[i] # f[j]
  OBVIOUS
<1>2. \A i \in DOMAIN gs : \E j \in DOMAIN gs : gs[j].refs = gs[i].refs
  OBVIOUS
<1>3. Len(gs) = Len(gs) + (IF HasPersistent(gs) THEN 0 ELSE 1)
  OBVIOUS
<1> HIDE DEF f
<1> QED
  BY <1>1, <1>2, <1>3 DEF Ensures

LEMMA EnsuredInFront ==
  ASSUME NEW gs \in Seq(Group), ~HasPersistent(gs)
  PROVE  /\ Ensures(gs, <<EmptyPersistent>> \o gs)
         /\ (<<EmptyPersistent>> \o gs)[1] = EmptyPersistent
         /\ \A j \in DOMAIN gs : (<<EmptyPersistent>> \o gs)[j + 1] = gs[j]
         /\ DOMAIN (<<EmptyPersistent>> \o gs) = 1 .. (Len(gs) + 1)
<1> DEFINE e == <<EmptyPersistent>> \o gs
           f == [j \in 1 .. (Len(gs) + 1) |-> j - 1]
<1>1. Len(gs) \in Nat /\ DOMAIN gs = 1 .. Len(gs)
  OBVIOUS
<1>2. e \in Seq(Group) /\ Len(e) = Len(gs) + 1
  BY EmptyIsGroup
<1>3. e[1] = EmptyPersistent /\ DOMAIN e = 1 .. (Len(gs) + 1)
  BY <1>1, <1>2
<1>4. \A j \in DOMAIN gs : e[j + 1] = gs[j]
  OBVIOUS
<1> HIDE DEF e
<1>5. EmptyPersistent.type = Persistent /\ EmptyPersistent.refs = {}
  BY DEF EmptyPersistent
<1>6. HasPersistent(e)
  BY <1>1, <1>3, <1>5 DEF HasPersistent
<1>7. \A j \in DOMAIN e : j # 1 => j - 1 \in DOMAIN gs /\ e[j] = gs[j - 1]
  <2> SUFFICES ASSUME NEW j \in DOMAIN e, j # 1
               PROVE  j - 1 \in DOMAIN gs /\ e[j] = gs[j - 1]
    OBVIOUS
  <2>1. j - 1 \in DOMAIN gs /\ (j - 1) + 1 = j
    BY <1>1, <1>3
  <2> QED
    BY <1>4, <2>1
<1>8. \A j \in DOMAIN e : e[j].refs # {} => f[j] \in DOMAIN gs /\ gs[f[j]].refs = e[j].refs
  BY <1>3, <1>5, <1>7
<1>9. \A i, j \in DOMAIN e : i # j => f[i] # f[j]
  BY <1>1, <1>3
<1>10. \A i \in DOMAIN gs : \E j \in DOMAIN e : e[j].refs = gs[i].refs
  <2> TAKE i \in DOMAIN gs
  <2>1. i + 1 \in DOMAIN e
    BY <1>1, <1>3
  <2> QED
    BY <1>4, <2>1
<1> HIDE DEF f
<1>11. Ensures(gs, e)
  BY <1>2, <1>6, <1>8, <1>9, <1>10 DEF Ensures
<1> QED
  BY <1>3, <1>4, <1>11 DEF e

LEMMA EnsuredBehind ==
  ASSUME NEW gs \in Seq(Group), ~HasPersistent(gs)
  PROVE  Ensures(gs, Append(gs, EmptyPersistent))
<1> DEFINE e == Append(gs, EmptyPersistent)
           f == [j \in 1 .. (Len(gs) + 1) |-> j]
<1>1. Len(gs) \in Nat /\ DOMAIN gs = 1 .. Len(gs)
  OBVIOUS
<1>2. e \in Seq(Group) /\ Len(e) = Len(gs) + 1
  BY EmptyIsGroup
<1>3. e[Len(gs) + 1] = EmptyPersistent /\ DOMAIN e = 1 .. (Len(gs) + 1)
  BY <1>1, <1>2
<1>4. \A j \in DOMAIN gs : e[j] = gs[j] /\ j \in DOMAIN e
  BY <1>1, <1>3
<1> HIDE DEF e
<1>5. EmptyPersistent.type = Persistent /\ EmptyPersistent.refs = {}
  BY DEF EmptyPersistent
<1>6. HasPersistent(e)
  BY <1>1, <1>3, <1>5 DEF HasPersistent
<1>7. \A j \in DOMAIN e : e[j].refs # {} => f[j] \in DOMAIN gs /\ gs[f[j]].refs = e[j].refs
  <2> SUFFICES ASSUME NEW j \in DOMAIN e, e[j].refs # {}
               PROVE  f[j] \in DOMAIN gs /\ gs[f[j]].refs = e[j].refs
    OBVIOUS
  <2>1. j # Len(gs) + 1
    BY <1>3, <1>5
  <2>2. j \in DOMAIN gs
    BY <1>1, <1>3, <2>1
  <2> QED
    BY <1>3, <1>4, <2>2
<1>8. \A i, j \in DOMAIN e : i # j => f[i] # f[j]
  BY <1>3
<1> HIDE DEF f
<1>9. Ensures(gs, e)
  BY <1>2, <1>4, <1>6, <1>7, <1>8 DEF Ensures
<1> QED
  BY <1>9 DEF e

\* Both engines do that.
LEMMA BothEnsure ==
  ASSUME NEW gs \in Seq(Group)
  PROVE  Ensures(gs, EnsurePersistent(gs)) /\ Ensures(gs, LegacyEnsured(gs))
BY EnsuredAsItIs, EnsuredInFront, EnsuredBehind
DEF EnsurePersistent, LegacyEnsured, EmptyPersistent

\* What putting new references into the persistent group of a cell does.
LEMMA PutFacts ==
  ASSUME NEW t, NEW b \in Seq(Node), Unique(t, b),
         NEW k \in DOMAIN b, b[k].kind = "children",
         NEW e, Ensures(b[k].groups, e),
         NEW N \in SUBSET Id, IsFiniteSet(N), N \cap Records(t, b) = {},
         NEW b2, b2 = [b EXCEPT ![k].groups = AddRefs(e, N)]
  PROVE  /\ Regrouped(b, b2, k, AddRefs(e, N))
         /\ Unique(t, b2)
         /\ Holds(b2, CellsIn(b), RefsIn(b) \cup N)
<1> DEFINE gs == b[k].groups
           b1 == [b EXCEPT ![k].groups = e]
<1>1. gs \in Seq(Group) /\ e \in Seq(Group) /\ HasPersistent(e)
  BY NodeFacts DEF Ensures
<1>2. /\ AddRefs(e, N) \in Seq(Group) /\ DOMAIN AddRefs(e, N) = DOMAIN e
  BY <1>1, AddRefsFacts
<1>3. PICK first \in DOMAIN e : \A j \in DOMAIN e :
        AddRefs(e, N)[j].refs = IF j = first THEN e[j].refs \cup N ELSE e[j].refs
  BY <1>1, AddRefsFacts
<1>0. b1 = [b EXCEPT ![k].groups = e]
  OBVIOUS
<1> HIDE DEF b1
<1>4. Regrouped(b, b1, k, e)
  BY <1>0, <1>1, GroupsAt
<1>5. Regrouped(b, b2, k, AddRefs(e, N))
  BY <1>2, GroupsAt
<1> DEFINE Same(c, l) == c[l].kind = b[l].kind /\ c[l].id = b[l].id
<1>16. /\ DOMAIN b1 = DOMAIN b /\ DOMAIN b2 = DOMAIN b
       /\ b1[k].groups = e /\ b2[k].groups = AddRefs(e, N)
       /\ \A l \in DOMAIN b : Same(b1, l) /\ Same(b2, l)
       /\ \A l \in DOMAIN b : l # k => b1[l].groups = b[l].groups /\ b2[l].groups = b[l].groups
  BY <1>4, <1>5 DEF Regrouped
<1>6. PICK f : /\ \A j \in DOMAIN e : e[j].refs # {} =>
                    f[j] \in DOMAIN gs /\ gs[f[j]].refs = e[j].refs
               /\ \A i, j \in DOMAIN e :
                    i # j /\ e[i].refs # {} /\ e[j].refs # {} => f[i] # f[j]
  BY DEF Ensures
<1>7. Unique(t, b1) /\ CellsIn(b1) = CellsIn(b) /\ RefsIn(b1) \subseteq RefsIn(b)
  <2> DEFINE h == [l \in DOMAIN b |-> l]
             g == [s \in Subgroups(b1) |-> IF s[1] = k THEN <<k, f[s[2]]>> ELSE s]
  <2>1. CellMap(b, b1, {}, h)
    BY <1>16 DEF CellMap
  <2>3. ASSUME NEW s \in Subgroups(b1)
        PROVE  RefsAt(b1, s) # {} =>
                 g[s] \in Subgroups(b) /\ RefsAt(b1, s) = RefsAt(b, g[s])
    <3>1. s = <<s[1], s[2]>> /\ s[1] \in DOMAIN b /\ s[2] \in DOMAIN b1[s[1]].groups
      BY <1>16, PlaceFacts
    <3>2. CASE s[1] = k
      <4>1. s[2] \in DOMAIN e /\ RefsAt(b1, s) = e[s[2]].refs
        BY <1>16, <3>1, <3>2 DEF RefsAt
      <4>2. g[s] = <<k, f[s[2]]>>
        BY <3>2
      <4>3. e[s[2]].refs # {} =>
              f[s[2]] \in DOMAIN gs /\ RefsAt(b, <<k, f[s[2]]>>) = e[s[2]].refs
        BY <1>6, <4>1 DEF RefsAt
      <4> QED
        BY <4>1, <4>2, <4>3, PlaceFacts
    <3>3. CASE s[1] # k
      <4>1. s[2] \in DOMAIN b[s[1]].groups /\ g[s] = s
        BY <1>16, <3>1, <3>3
      <4>2. s \in Subgroups(b)
        BY <3>1, <4>1, PlaceFacts
      <4>3. RefsAt(b1, s) = RefsAt(b, s)
        BY <1>16, <3>1, <3>3 DEF RefsAt
      <4> QED
        BY <4>1, <4>2, <4>3
    <3> QED
      BY <3>2, <3>3
  <2>4. ASSUME NEW s \in Subgroups(b1), NEW u \in Subgroups(b1), s # u,
               RefsAt(b1, s) # {}, RefsAt(b1, u) # {}
        PROVE  g[s] # g[u]
    <3>1. /\ s = <<s[1], s[2]>> /\ s[1] \in DOMAIN b /\ s[2] \in DOMAIN b1[s[1]].groups
          /\ u = <<u[1], u[2]>> /\ u[1] \in DOMAIN b /\ u[2] \in DOMAIN b1[u[1]].groups
      BY <1>16, PlaceFacts
    <3>2. CASE s[1] = k /\ u[1] = k
      <4>1. s[2] \in DOMAIN e /\ RefsAt(b1, s) = e[s[2]].refs
            /\ u[2] \in DOMAIN e /\ RefsAt(b1, u) = e[u[2]].refs
        BY <1>16, <3>1, <3>2 DEF RefsAt
      <4>2. s[2] # u[2]
        BY <2>4, <3>1, <3>2
      <4>3. f[s[2]] # f[u[2]]
        BY <1>6, <2>4, <4>1, <4>2
      <4> QED
        BY <3>2, <4>3
    <3>3. CASE s[1] # k \/ u[1] # k
      <4>1. g[s][1] = s[1] /\ g[u][1] = u[1]
        OBVIOUS
      <4> QED
        BY <2>4, <3>1, <3>3, <4>1
    <3> QED
      BY <3>2, <3>3
  <2>5. t \subseteq t /\ {} \cap Records(t, b) = {}
    OBVIOUS
  <2> HIDE DEF h, g
  <2>2. GroupMap(b, b1, g)
    BY <2>3, <2>4 DEF GroupMap
  <2>6. Unique(t, b1) /\ Kept(b, b1, {})
    BY <2>1, <2>2, <2>5, Reshaped
  <2>7. CellsIn(b1) = CellsIn(b)
    BY <1>16, SMTT(20) DEF CellsIn
  <2> QED
    BY <2>6, <2>7 DEF Kept
<1>8. RefsIn(b) \subseteq RefsIn(b1)
  <2> SUFFICES ASSUME NEW s \in Subgroups(b), NEW x \in RefsAt(b, s)
               PROVE  x \in RefsIn(b1)
    BY DEF RefsIn
  <2>1. s = <<s[1], s[2]>> /\ s[1] \in DOMAIN b /\ s[2] \in DOMAIN b[s[1]].groups
    BY PlaceFacts
  <2>2. \E u \in Subgroups(b1) : x \in RefsAt(b1, u)
    <3>1. CASE s[1] = k
      <4>1. PICK j \in DOMAIN e : e[j].refs = gs[s[2]].refs
        BY <2>1, <3>1 DEF Ensures
      <4>2. <<k, j>> \in Subgroups(b1)
        BY <1>16, <4>1, PlaceFacts
      <4>3. RefsAt(b1, <<k, j>>) = RefsAt(b, s)
        BY <1>16, <3>1, <4>1 DEF RefsAt
      <4> QED
        BY <4>2, <4>3
    <3>2. CASE s[1] # k
      <4>1. <<s[1], s[2]>> \in Subgroups(b1)
        BY <1>16, <2>1, <3>2, PlaceFacts
      <4>2. RefsAt(b1, s) = RefsAt(b, s)
        BY <1>16, <2>1, <3>2 DEF RefsAt
      <4> QED
        BY <2>1, <4>1, <4>2
    <3> QED
      BY <3>1, <3>2
  <2> QED
    BY <2>2 DEF RefsIn
<1>9. <<k, first>> \in Subgroups(b1)
  BY <1>3, <1>16, PlaceFacts
<1>10. Subgroups(b2) = Subgroups(b1)
  <2>1. \A l \in DOMAIN b : DOMAIN b2[l].groups = DOMAIN b1[l].groups
    BY <1>2, <1>16
  <2> QED
    BY <1>16, <2>1 DEF Subgroups
<1>11. \A s \in Subgroups(b1) : RefsAt(b2, s) =
         IF s = <<k, first>> THEN RefsAt(b1, s) \cup N ELSE RefsAt(b1, s)
  <2> TAKE s \in Subgroups(b1)
  <2>1. s = <<s[1], s[2]>> /\ s[1] \in DOMAIN b /\ s[2] \in DOMAIN b1[s[1]].groups
    BY <1>16, PlaceFacts
  <2>2. CASE s[1] = k
    <3>1. s[2] \in DOMAIN e /\ RefsAt(b1, s) = e[s[2]].refs
          /\ RefsAt(b2, s) = AddRefs(e, N)[s[2]].refs
      BY <1>16, <2>1, <2>2 DEF RefsAt
    <3>2. s = <<k, first>> <=> s[2] = first
      BY <2>1, <2>2
    <3> QED
      BY <1>3, <3>1, <3>2
  <2>3. CASE s[1] # k
    <3>1. RefsAt(b1, s) = RefsAt(b2, s)
      BY <1>16, <2>1, <2>3 DEF RefsAt
    <3> QED
      BY <2>3, <3>1
  <2> QED
    BY <2>2, <2>3
<1>12. N \cap Records(t, b1) = {}
  BY <1>7, <1>8 DEF Records
<1>13. OneGains(b1, b2, <<k, first>>, N)
  BY <1>10, <1>11, <1>16 DEF OneGains
<1>14. Unique(t, b2) /\ RefsIn(b2) = RefsIn(b1) \cup N /\ CellsIn(b2) = CellsIn(b1)
  <2> DEFINE place == <<k, first>>
  <2>1. place \in Subgroups(b1) /\ OneGains(b1, b2, place, N)
    BY <1>9, <1>13
  <2> HIDE DEF place
  <2>2. Unique(t, b1)
    BY <1>7
  <2>3. Unique(t, b2)
    BY <1>12, <2>1, <2>2, Gained
  <2>4. RefsIn(b2) = RefsIn(b1) \cup N
    BY <1>12, <2>1, <2>2, Gained
  <2>5. CellsIn(b2) = CellsIn(b1)
    BY <1>12, <2>1, <2>2, Gained
  <2> QED
    BY <2>3, <2>4, <2>5
<1>15. RefsIn(b1) = RefsIn(b)
  BY <1>7, <1>8, ZenonT(30)
<1> QED
  BY <1>5, <1>7, <1>14, <1>15 DEF Holds

\* b2 is b with other records in the groups of one node.
Refilled(b, b2, k) ==
  \E gs \in Seq(Group) :
    /\ Regrouped(b, b2, k, gs)
    /\ DOMAIN gs = DOMAIN b[k].groups
    /\ \A j \in DOMAIN gs : gs[j].type = b[k].groups[j].type

\* What a clone in a group does.
LEMMA GroupCloneFacts ==
  ASSUME NEW t, NEW b \in Seq(Node), Unique(t, b),
         NEW s0 \in Subgroups(b),
         NEW N \in SUBSET Id, IsFiniteSet(N), N \cap Records(t, b) = {},
         NEW b2, b2 = [b EXCEPT ![s0[1]].groups[s0[2]].refs = @ \cup N]
  PROVE  /\ Refilled(b, b2, s0[1])
         /\ b[s0[1]].kind = "children"
         /\ Unique(t, b2)
         /\ Holds(b2, CellsIn(b), RefsIn(b) \cup N)
<1> DEFINE k == s0[1]
           i == s0[2]
           old == b[k].groups
           gr == [old[i] EXCEPT !.refs = @ \cup N]
           gs == [old EXCEPT ![i] = gr]
<1>1. s0 = <<k, i>> /\ k \in DOMAIN b /\ i \in DOMAIN old
  BY PlaceFacts
<1>2. b[k].kind = "children" /\ old[i] \in Group /\ IsFiniteSet(old[i].refs)
      /\ old[i].refs \in SUBSET Id
  BY RefsAtFacts DEF RefsAt
<1>3. old \in Seq(Group)
  BY <1>1, NodeFacts
<1>4. old[i].refs \cup N \in {R \in SUBSET Id : IsFiniteSet(R)}
  BY <1>2, FS_Union
<1>5. gr \in Group /\ gr.type = old[i].type /\ gr.refs = old[i].refs \cup N
  BY <1>2, <1>4 DEF Group
<1>6. b2 = [b EXCEPT ![k].groups = gs]
  BY <1>1
<1> HIDE DEF gr, old, i
<1>7. gs \in Seq(Group)
  BY <1>1, <1>3, <1>5
<1>8. DOMAIN gs = DOMAIN old
  OBVIOUS
<1>9. \A j \in DOMAIN old : gs[j] = IF j = i THEN gr ELSE old[j]
  OBVIOUS
<1> HIDE DEF gs, k
<1>10. Regrouped(b, b2, k, gs)
  BY <1>1, <1>2, <1>6, <1>7, GroupsAt, ZenonT(30)
<1>11. OneGains(b, b2, s0, N)
  <2>1. /\ DOMAIN b2 = DOMAIN b
        /\ \A l \in DOMAIN b : b2[l].kind = b[l].kind /\ b2[l].id = b[l].id
    BY <1>10 DEF Regrouped
  <2>2. \A l \in DOMAIN b : DOMAIN b2[l].groups = DOMAIN b[l].groups
    BY <1>8, <1>10 DEF Regrouped, old
  <2>3. Subgroups(b2) = Subgroups(b)
    BY <2>1, <2>2, SMTT(20) DEF Subgroups
  <2>4. ASSUME NEW s \in Subgroups(b)
        PROVE  RefsAt(b2, s) = IF s = s0 THEN RefsAt(b, s) \cup N ELSE RefsAt(b, s)
    <3>1. s = <<s[1], s[2]>> /\ s[1] \in DOMAIN b /\ s[2] \in DOMAIN b[s[1]].groups
      BY PlaceFacts
    <3>2. CASE s[1] = k
      <4>1. b2[k].groups = gs
        BY <1>1, <1>10 DEF Regrouped
      <4>2. RefsAt(b2, s) = gs[s[2]].refs /\ RefsAt(b, s) = old[s[2]].refs
        BY <3>2, <4>1 DEF RefsAt, old
      <4>3. s = s0 <=> s[2] = i
        BY <1>1, <3>1, <3>2
      <4>4. s[2] \in DOMAIN old
        BY <3>1, <3>2 DEF old
      <4> QED
        BY <1>5, <1>9, <4>2, <4>3, <4>4
    <3>3. CASE s[1] # k
      <4>1. b2[s[1]].groups = b[s[1]].groups
        BY <1>10, <3>1, <3>3 DEF Regrouped
      <4>2. s # s0
        BY <1>1, <3>3
      <4>3. RefsAt(b2, s) = RefsAt(b, s)
        BY <4>1 DEF RefsAt
      <4> QED
        BY <4>2, <4>3
    <3> QED
      BY <3>2, <3>3
  <2> QED
    BY <2>1, <2>3, <2>4 DEF OneGains
<1>12. \A j \in DOMAIN gs : gs[j].type = old[j].type
  BY <1>5, <1>8, <1>9
<1>13. Unique(t, b2)
  BY <1>11, Gained, SMTT(20)
<1>14. CellsIn(b2) = CellsIn(b)
  BY <1>11, Gained, SMTT(20)
<1>15. RefsIn(b2) = RefsIn(b) \cup N
  BY <1>11, Gained, SMTT(20)
<1>16. \E g \in Seq(Group) :
         /\ Regrouped(b, b2, k, g)
         /\ DOMAIN g = DOMAIN b[k].groups
         /\ \A j \in DOMAIN g : g[j].type = b[k].groups[j].type
  BY <1>7, <1>8, <1>10, <1>12 DEF old
<1> QED
  BY <1>2, <1>13, <1>14, <1>15, <1>16 DEF k, old, Holds, Refilled

LEMMA LengthAdds ==
  ASSUME NEW X, NEW p \in Seq(X), NEW q \in Seq(X)
  PROVE  Len(p \o q) = Len(p) + Len(q)
OBVIOUS

\* A list with one more entry between two parts.
Spliced(b2, left, c, right, k, n) ==
  /\ DOMAIN b2 = 1 .. (n + 1)
  /\ \A l \in 1 .. k : b2[l] = left[l]
  /\ b2[k + 1] = c
  /\ \A l \in 1 .. (n - k) : b2[(k + 1) + l] = right[l]

LEMMA Insertion ==
  ASSUME NEW X, NEW n \in Nat, NEW k \in 1 .. n, NEW c \in X,
         NEW left \in Seq(X), Len(left) = k, NEW right \in Seq(X), Len(right) = n - k,
         NEW b2, b2 = left \o <<c>> \o right
  PROVE  b2 \in Seq(X) /\ Spliced(b2, left, c, right, k, n)
<1> DEFINE mid == left \o <<c>>
<1>1. mid \in Seq(X)
  OBVIOUS
<1>2. Len(mid) = k + 1
  OBVIOUS
<1>3. \A l \in 1 .. k : mid[l] = left[l]
  OBVIOUS
<1>4. mid[k + 1] = c
  OBVIOUS
<1>5. b2 = mid \o right
  OBVIOUS
<1> HIDE DEF mid
<1>6. b2 \in Seq(X)
  BY <1>1, <1>5
<1>7. Len(b2) = n + 1
  <2>1. Len(b2) = Len(mid) + Len(right)
    BY <1>1, <1>5, LengthAdds
  <2>2. (k + 1) + (n - k) = n + 1
    OBVIOUS
  <2> QED
    BY <1>2, <2>1, <2>2
<1>8. \A l \in 1 .. (k + 1) : b2[l] = mid[l]
  BY <1>1, <1>2, <1>5
<1>9. \A l \in 1 .. (n - k) : b2[(k + 1) + l] = right[l]
  BY <1>1, <1>2, <1>5
<1>10. \A l \in 1 .. k : l \in 1 .. (k + 1)
  OBVIOUS
<1>11. k + 1 \in 1 .. (k + 1)
  OBVIOUS
<1>12. DOMAIN b2 = 1 .. (n + 1)
  BY <1>6, <1>7
<1>13. \A l \in 1 .. k : b2[l] = left[l]
  BY <1>3, <1>8, <1>10
<1>14. b2[k + 1] = c
  BY <1>4, <1>8, <1>11
<1> QED
  BY <1>6, <1>9, <1>12, <1>13, <1>14 DEF Spliced

LEMMA Behind ==
  ASSUME NEW n \in Nat, NEW k \in 1 .. n, NEW l \in 1 .. (n + 1), ~ (l <= k + 1)
  PROVE  /\ l - (k + 1) \in 1 .. (n - k)
         /\ k + (l - (k + 1)) = l - 1
         /\ (k + 1) + (l - (k + 1)) = l
OBVIOUS

\* What a cloned cell does: the nodes behind it move by one.
Widened(b, b2, k, c) ==
  /\ b2 \in Seq(Node)
  /\ DOMAIN b2 = 1 .. (Len(b) + 1)
  /\ \A l \in DOMAIN b2 : b2[l] = IF l <= k THEN b[l] ELSE IF l = k + 1 THEN c ELSE b[l - 1]

LEMMA CellCloneFacts ==
  ASSUME NEW t, NEW b \in Seq(Node), Unique(t, b),
         NEW k \in DOMAIN b, NEW id \in Id, id \notin Records(t, b),
         NEW c, c = [kind |-> "cell", id |-> id, groups |-> <<>>],
         NEW b2, b2 = SubSeq(b, 1, k) \o <<c>> \o SubSeq(b, k + 1, Len(b))
  PROVE  /\ Widened(b, b2, k, c)
         /\ Unique(t, b2)
         /\ Holds(b2, CellsIn(b) \cup {id}, RefsIn(b))
<1>1. PICK n \in Nat : n = Len(b)
  OBVIOUS
<1>2. k \in 1 .. n /\ DOMAIN b = 1 .. n
  BY <1>1
<1>3. c \in Node /\ c.kind = "cell" /\ c.id = id /\ c.groups = <<>>
  BY DEF Node
<1> DEFINE left == SubSeq(b, 1, k)
           right == SubSeq(b, k + 1, n)
<1>4. left \in Seq(Node) /\ Len(left) = k
  BY <1>1, <1>2
<1>5. \A l \in 1 .. k : left[l] = b[l]
  BY <1>1, <1>2
<1>6. right \in Seq(Node)
  BY <1>1, <1>2
<1>7. Len(right) = n - k
  BY <1>1, <1>2
<1>8. \A l \in 1 .. (n - k) : right[l] = b[k + l]
  BY <1>1, <1>2
<1>9. b2 = left \o <<c>> \o right
  BY <1>1
<1> HIDE DEF left, right
<1>14. b2 \in Seq(Node) /\ Spliced(b2, left, c, right, k, n)
  BY <1>2, <1>3, <1>4, <1>6, <1>7, <1>9, Insertion, ZenonT(30)
<1>16. DOMAIN b2 = 1 .. (n + 1)
  BY <1>14 DEF Spliced
<1>17. ASSUME NEW l \in 1 .. (n + 1)
       PROVE  b2[l] = IF l <= k THEN b[l] ELSE IF l = k + 1 THEN c ELSE b[l - 1]
  <2>0. l \in Nat /\ k \in Nat /\ n \in Nat /\ 1 <= l /\ l <= n + 1 /\ 1 <= k /\ k <= n
    BY <1>2
  <2>1. CASE l <= k
    BY <1>5, <1>14, <2>0, <2>1 DEF Spliced
  <2>2. CASE l = k + 1
    BY <1>14, <2>0, <2>2 DEF Spliced
  <2>3. CASE ~ (l <= k + 1)
    <3>1. /\ l - (k + 1) \in 1 .. (n - k) /\ k + (l - (k + 1)) = l - 1
          /\ (k + 1) + (l - (k + 1)) = l
      BY <1>2, <2>3, Behind
    <3>2. b2[l] = right[l - (k + 1)]
      BY <1>14, <3>1 DEF Spliced
    <3>3. right[l - (k + 1)] = b[l - 1]
      BY <1>8, <3>1
    <3>4. ~ (l <= k) /\ l # k + 1
      BY <2>0, <2>3
    <3> QED
      BY <3>2, <3>3, <3>4
  <2>4. l <= k \/ l = k + 1 \/ ~ (l <= k + 1)
    BY <2>0
  <2> QED
    BY <2>1, <2>2, <2>3, <2>4
<1>18. Widened(b, b2, k, c)
  BY <1>1, <1>14, <1>16, <1>17 DEF Widened
<1> DEFINE from == [l \in 1 .. (n + 1) |-> IF l <= k THEN l ELSE l - 1]
           to == [l \in 1 .. n |-> IF l <= k THEN l ELSE l + 1]
           g == [s \in Subgroups(b2) |-> <<from[s[1]], s[2]>>]
<1>19. ASSUME NEW l \in DOMAIN b2, l # k + 1
       PROVE  from[l] \in DOMAIN b /\ b2[l] = b[from[l]]
  <2>1. l \in 1 .. (n + 1)
    BY <1>16
  <2>2. b2[l] = IF l <= k THEN b[l] ELSE b[l - 1]
    BY <1>17, <1>19, <2>1
  <2>3. IF l <= k THEN l \in 1 .. n ELSE l - 1 \in 1 .. n
    BY <1>2, <1>19, <2>1
  <2> QED
    BY <1>2, <2>1, <2>2, <2>3
<1>20. ASSUME NEW l \in DOMAIN b2, NEW m \in DOMAIN b2, l # m, l # k + 1, m # k + 1
       PROVE  from[l] # from[m]
  <2>1. l \in 1 .. (n + 1) /\ m \in 1 .. (n + 1)
    BY <1>16
  <2>2. from[l] = IF l <= k THEN l ELSE l - 1
    BY <2>1
  <2>3. from[m] = IF m <= k THEN m ELSE m - 1
    BY <2>1
  <2> HIDE DEF from, to, g
  <2>4. PICK x \in Nat : x = l
    BY <2>1
  <2>5. PICK y \in Nat : y = m
    BY <2>1
  <2>6. x # y /\ x # k + 1 /\ y # k + 1 /\ k \in Nat
    BY <1>2, <1>20, <2>4, <2>5
  <2>7. from[l] = IF x <= k THEN x ELSE x - 1
    BY <2>2, <2>4
  <2>8. from[m] = IF y <= k THEN y ELSE y - 1
    BY <2>3, <2>5
  <2> QED
    BY <2>6, <2>7, <2>8
<1>21. b2[k + 1] = c /\ k + 1 \in DOMAIN b2
  <2>1. k + 1 \in 1 .. (n + 1) /\ ~ (k + 1 <= k)
    BY <1>2
  <2> QED
    BY <1>16, <1>17, <2>1
<1>22. ASSUME NEW l \in DOMAIN b
       PROVE  to[l] \in DOMAIN b2 /\ b2[to[l]] = b[l]
  <2>1. l \in 1 .. n /\ l \in 1 .. (n + 1) /\ l + 1 \in 1 .. (n + 1)
    BY <1>2
  <2>2. CASE l <= k
    BY <1>16, <1>17, <2>1, <2>2
  <2>3. CASE ~ (l <= k)
    <3>1. ~ (l + 1 <= k) /\ l + 1 # k + 1 /\ (l + 1) - 1 = l
      BY <1>2, <2>1, <2>3
    <3>2. b2[l + 1] = b[l]
      BY <1>17, <2>1, <3>1
    <3> QED
      BY <1>16, <2>1, <2>3, <3>2
  <2> QED
    BY <2>2, <2>3
<1> HIDE DEF from, to
<1>23. id \notin CellsIn(b) /\ {id} \cap Records(t, b) = {}
  BY DEF Records
<1>24. CellMap(b, b2, {id}, from)
  <2>1. ASSUME NEW l \in DOMAIN b2, b2[l].kind = "cell", b2[l].id = id
        PROVE  l = k + 1
    <3> SUFFICES ASSUME l # k + 1 PROVE FALSE
      OBVIOUS
    <3>1. from[l] \in DOMAIN b /\ b[from[l]].kind = "cell" /\ b[from[l]].id = id
      BY <1>19, <2>1
    <3> QED
      BY <1>23, <3>1 DEF CellsIn
  <2>2. ASSUME NEW l \in DOMAIN b2, b2[l].kind = "cell"
        PROVE  \/ b2[l].id \in {id}
               \/ from[l] \in DOMAIN b /\ b[from[l]].kind = "cell" /\ b[from[l]].id = b2[l].id
    BY <1>3, <1>19, <1>21, <2>2
  <2>3. ASSUME NEW l \in DOMAIN b2, NEW m \in DOMAIN b2, l # m,
               b2[l].kind = "cell", b2[m].kind = "cell"
        PROVE  IF b2[l].id \in {id} THEN b2[m].id \notin {id}
               ELSE b2[m].id \in {id} \/ from[l] # from[m]
    BY <1>3, <1>20, <1>21, <2>1, <2>3
  <2>4. \A l \in DOMAIN b2 : b2[l].kind = "cell" =>
          \/ b2[l].id \in {id}
          \/ from[l] \in DOMAIN b /\ b[from[l]].kind = "cell" /\ b[from[l]].id = b2[l].id
    BY <2>2
  <2>5. \A l, m \in DOMAIN b2 :
          l # m /\ b2[l].kind = "cell" /\ b2[m].kind = "cell" =>
            IF b2[l].id \in {id} THEN b2[m].id \notin {id}
            ELSE b2[m].id \in {id} \/ from[l] # from[m]
    BY <2>3, ZenonT(30)
  <2> QED
    BY <2>4, <2>5 DEF CellMap
<1>25. ASSUME NEW s \in Subgroups(b2)
       PROVE  /\ s = <<s[1], s[2]>> /\ s[1] \in DOMAIN b2 /\ s[1] # k + 1
              /\ g[s] \in Subgroups(b) /\ RefsAt(b2, s) = RefsAt(b, g[s])
  <2>1. s = <<s[1], s[2]>> /\ s[1] \in DOMAIN b2 /\ s[2] \in DOMAIN b2[s[1]].groups
    BY PlaceFacts
  <2>2. s[1] # k + 1
    <3>1. DOMAIN c.groups = {}
      BY <1>3
    <3> QED
      BY <1>21, <2>1, <3>1
  <2>3. from[s[1]] \in DOMAIN b /\ b2[s[1]] = b[from[s[1]]]
    BY <1>19, <2>1, <2>2
  <2>4. <<from[s[1]], s[2]>> \in Subgroups(b)
    BY <2>1, <2>3, PlaceFacts
  <2>5. RefsAt(b2, s) = RefsAt(b, <<from[s[1]], s[2]>>)
    BY <2>3 DEF RefsAt
  <2> QED
    BY <2>1, <2>2, <2>4, <2>5
<1>26. GroupMap(b, b2, g)
  <2>1. ASSUME NEW s \in Subgroups(b2), NEW u \in Subgroups(b2), s # u
        PROVE  g[s] # g[u]
    <3>1. s[1] # u[1] \/ s[2] # u[2]
      BY <1>25, <2>1
    <3>2. s[1] # u[1] => from[s[1]] # from[u[1]]
      BY <1>20, <1>25
    <3> QED
      BY <3>1, <3>2
  <2> HIDE DEF g
  <2> QED
    BY <1>25, <2>1 DEF GroupMap
<1>27. RefsIn(b) \subseteq RefsIn(b2)
  <2> SUFFICES ASSUME NEW s \in Subgroups(b), NEW x \in RefsAt(b, s)
               PROVE  x \in RefsIn(b2)
    BY DEF RefsIn
  <2>1. s[1] \in DOMAIN b /\ s[2] \in DOMAIN b[s[1]].groups
    BY PlaceFacts
  <2>2. to[s[1]] \in DOMAIN b2 /\ b2[to[s[1]]] = b[s[1]]
    BY <1>22, <2>1
  <2>3. <<to[s[1]], s[2]>> \in Subgroups(b2)
    BY <2>1, <2>2, PlaceFacts
  <2>4. x \in RefsAt(b2, <<to[s[1]], s[2]>>)
    BY <2>2 DEF RefsAt
  <2> QED
    BY <2>3, <2>4 DEF RefsIn
<1>28. CellsIn(b) \cup {id} \subseteq CellsIn(b2)
  <2>1. id \in CellsIn(b2)
    BY <1>3, <1>21 DEF CellsIn
  <2>2. CellsIn(b) \subseteq CellsIn(b2)
    <3> SUFFICES ASSUME NEW x \in CellsIn(b) PROVE x \in CellsIn(b2)
      OBVIOUS
    <3>1. PICK l \in DOMAIN b : b[l].kind = "cell" /\ b[l].id = x
      BY DEF CellsIn
    <3>2. to[l] \in DOMAIN b2 /\ b2[to[l]] = b[l]
      BY <1>22
    <3> QED
      BY <3>1, <3>2 DEF CellsIn
  <2> QED
    BY <2>1, <2>2
<1> HIDE DEF g
<1>34. t \subseteq t
  OBVIOUS
<1> DEFINE N == {id}
<1>37. N \cap Records(t, b) = {} /\ CellMap(b, b2, N, from)
  BY <1>23, <1>24
<1>38. CellsIn(b) \cup {id} = CellsIn(b) \cup N
  OBVIOUS
<1> HIDE DEF N
<1>35. Unique(t, b2) /\ Kept(b, b2, N)
  BY <1>26, <1>34, <1>37, Reshaped
<1>36. CellsIn(b2) \subseteq CellsIn(b) \cup N
  BY <1>35 DEF Kept
<1>29. RefsIn(b2) \subseteq RefsIn(b)
  BY <1>35 DEF Kept
<1>30. CellsIn(b2) = CellsIn(b) \cup {id}
  BY <1>28, <1>36, <1>38
<1>39. RefsIn(b2) = RefsIn(b)
  BY <1>27, <1>29
<1> QED
  BY <1>18, <1>35, <1>30, <1>39 DEF Holds

\* Nothing moves where kinds and ids stay.
LEMMA SameBehind ==
  ASSUME NEW b \in Seq(Node), BehindItsCell(b),
         NEW b2, DOMAIN b2 = DOMAIN b,
         \A l \in DOMAIN b : b2[l].kind = b[l].kind /\ b2[l].id = b[l].id
  PROVE  BehindItsCell(b2)
<1> SUFFICES ASSUME NEW k \in DOMAIN b, b[k].kind = "children"
             PROVE  k > 1 /\ b2[k - 1].kind = "cell" /\ b2[k - 1].id = b2[k].id
  BY DEF BehindItsCell
<1>1. k > 1 /\ b[k - 1].kind = "cell" /\ b[k - 1].id = b[k].id
  BY DEF BehindItsCell
<1>2. k - 1 \in DOMAIN b
  BY <1>1
<1> QED
  BY <1>1, <1>2

\* Nothing comes between a cell and its children group if the cloned cell has
\* none.
LEMMA WidenedBehind ==
  ASSUME NEW b \in Seq(Node), BehindItsCell(b), NEW k \in DOMAIN b,
         \A l \in DOMAIN b : b[l].kind = "children" => l # k + 1,
         NEW c, c.kind = "cell", NEW b2, Widened(b, b2, k, c)
  PROVE  BehindItsCell(b2)
<1>1. PICK n \in Nat : n = Len(b)
  OBVIOUS
<1>2. k \in 1 .. n /\ DOMAIN b = 1 .. n /\ DOMAIN b2 = 1 .. (n + 1)
  BY <1>1 DEF Widened
<1>3. \A l \in 1 .. (n + 1) :
        b2[l] = IF l <= k THEN b[l] ELSE IF l = k + 1 THEN c ELSE b[l - 1]
  BY <1>2 DEF Widened
<1>4. \A l \in 1 .. n : b[l].kind = "children" =>
        l > 1 /\ l # k + 1 /\ b[l - 1].kind = "cell" /\ b[l - 1].id = b[l].id
  BY <1>2 DEF BehindItsCell
<1>5. ASSUME NEW l \in 1 .. (n + 1), b2[l].kind = "children"
      PROVE  l > 1 /\ b2[l - 1].kind = "cell" /\ b2[l - 1].id = b2[l].id
  <2>1. CASE l <= k
    <3>1. l \in 1 .. n /\ b2[l] = b[l]
      BY <1>2, <1>3, <2>1
    <3>2. l > 1 /\ b[l - 1].kind = "cell" /\ b[l - 1].id = b[l].id
      BY <1>4, <1>5, <3>1
    <3>3. l - 1 \in 1 .. (n + 1) /\ l - 1 <= k
      BY <1>2, <2>1, <3>1, <3>2
    <3>4. b2[l - 1] = b[l - 1]
      BY <1>3, <3>3
    <3> QED
      BY <3>1, <3>2, <3>4
  <2>2. CASE l = k + 1
    <3>1. ~ (l <= k)
      BY <1>2, <2>2
    <3> QED
      BY <1>3, <1>5, <2>2, <3>1
  <2>3. CASE ~ (l <= k) /\ l # k + 1
    <3>1. l - 1 \in 1 .. n /\ b2[l] = b[l - 1]
      BY <1>2, <1>3, <2>3
    <3>2. l - 1 > 1 /\ l - 1 # k + 1 /\ b[(l - 1) - 1].kind = "cell"
          /\ b[(l - 1) - 1].id = b[l - 1].id
      BY <1>4, <1>5, <3>1
    <3>3. l - 1 \in 1 .. (n + 1) /\ ~ (l - 1 <= k)
      BY <1>2, <2>3, <3>1
    <3>4. b2[l - 1] = b[(l - 1) - 1]
      BY <1>3, <3>2, <3>3
    <3>5. l > 1
      BY <1>2, <2>3
    <3> QED
      BY <3>1, <3>2, <3>4, <3>5
  <2> QED
    BY <2>1, <2>2, <2>3
<1> QED
  BY <1>2, <1>5 DEF BehindItsCell

LEMMA WidenedOrder ==
  ASSUME NEW b \in Seq(Node), Ordered(b), NEW k \in DOMAIN b,
         NEW c, c.groups = <<>>, NEW b2, Widened(b, b2, k, c)
  PROVE  Ordered(b2)
<1> SUFFICES ASSUME NEW l \in DOMAIN b2
             PROVE  \A i, j \in DOMAIN b2[l].groups :
                      i < j => b2[l].groups[i].type < b2[l].groups[j].type
  BY DEF Ordered
<1>1. PICK n \in Nat : n = Len(b)
  OBVIOUS
<1>2. k \in 1 .. n /\ DOMAIN b = 1 .. n /\ l \in 1 .. (n + 1)
  BY <1>1 DEF Widened
<1>3. b2[l] = IF l <= k THEN b[l] ELSE IF l = k + 1 THEN c ELSE b[l - 1]
  BY DEF Widened
<1>4. CASE l <= k
  BY <1>2, <1>3, <1>4 DEF Ordered
<1>5. CASE l = k + 1
  <2>1. ~ (l <= k) /\ DOMAIN <<>> = {}
    BY <1>2, <1>5
  <2> QED
    BY <1>3, <1>5, <2>1
<1>6. CASE ~ (l <= k) /\ l # k + 1
  <2>1. l - 1 \in DOMAIN b
    BY <1>2, <1>6
  <2> QED
    BY <1>3, <1>6, <2>1 DEF Ordered
<1> QED
  BY <1>4, <1>5, <1>6

\* What filtering the nodes leaves: those at the positions in S, as they were.
Filtered(b, b2, S) ==
  /\ b2 \in Seq(Node)
  /\ DOMAIN b2 = 1 .. Cardinality(S)
  /\ \A j \in DOMAIN b2 : NthOf(S, j) \in S /\ b2[j] = b[NthOf(S, j)]
  /\ \A i, j \in DOMAIN b2 : i # j => NthOf(S, i) # NthOf(S, j)
  /\ \A k \in S : /\ Rank(S, k) \in DOMAIN b2
                  /\ b2[Rank(S, k)] = b[k]
                  /\ NthOf(S, Rank(S, k)) = k

LEMMA FilterFacts ==
  ASSUME NEW b \in Seq(Node), NEW S \in SUBSET DOMAIN b
  PROVE  Filtered(b, Sublist(b, S), S)
<1>1. Len(b) \in Nat /\ DOMAIN b = 1 .. Len(b) /\ S \subseteq 1 .. Len(b)
  OBVIOUS
<1>2. \A i, j \in 1 .. Cardinality(S) : i # j => NthOf(S, i) # NthOf(S, j)
  BY <1>1, NthFacts
<1> DEFINE b2 == Sublist(b, S)
<1>3. b2 \in Seq(Node)
  BY SublistFacts
<1>4. DOMAIN b2 = 1 .. Cardinality(S)
  BY SublistFacts
<1>5. \A j \in 1 .. Cardinality(S) : NthOf(S, j) \in S /\ b2[j] = b[NthOf(S, j)]
  BY SublistFacts
<1>6. \A k \in S : Rank(S, k) \in 1 .. Cardinality(S) /\ b2[Rank(S, k)] = b[k]
  BY SublistFacts
<1> HIDE DEF b2
<1>8. \A k \in S : NthOf(S, Rank(S, k)) = k
  BY <1>1, NthFacts
<1>7. Filtered(b, b2, S)
  BY <1>2, <1>3, <1>4, <1>5, <1>6, <1>8 DEF Filtered
<1> QED
  BY <1>7 DEF b2

\* The records that are left, and that their ids are still unique.
LEMMA FilteredRecords ==
  ASSUME NEW t, NEW b \in Seq(Node), Unique(t, b), NEW S \in SUBSET DOMAIN b,
         NEW b2, Filtered(b, b2, S)
  PROVE  /\ Unique(t, b2)
         /\ CellsIn(b2) = {b[k].id : k \in {i \in S : b[i].kind = "cell"}}
         /\ RefsIn(b2) = UNION {RefsAt(b, s) : s \in {u \in Subgroups(b) : u[1] \in S}}
<1> DEFINE h == [j \in DOMAIN b2 |-> NthOf(S, j)]
           g == [s \in Subgroups(b2) |-> <<NthOf(S, s[1]), s[2]>>]
           cells == {b[k].id : k \in {i \in S : b[i].kind = "cell"}}
           places == {u \in Subgroups(b) : u[1] \in S}
<1>1. CellMap(b, b2, {}, h)
  BY DEF CellMap, Filtered
<1>2. ASSUME NEW s \in Subgroups(b2)
      PROVE  g[s] \in places /\ RefsAt(b2, s) = RefsAt(b, g[s])
  <2>1. s[1] \in DOMAIN b2 /\ s[2] \in DOMAIN b2[s[1]].groups
    BY PlaceFacts
  <2>2. NthOf(S, s[1]) \in S /\ b2[s[1]] = b[NthOf(S, s[1])]
    BY <2>1 DEF Filtered
  <2>3. <<NthOf(S, s[1]), s[2]>> \in Subgroups(b)
    BY <2>1, <2>2, PlaceFacts
  <2>4. RefsAt(b2, s) = RefsAt(b, <<NthOf(S, s[1]), s[2]>>)
    BY <2>2 DEF RefsAt
  <2> QED
    BY <2>2, <2>3, <2>4
<1>3. ASSUME NEW s \in Subgroups(b2), NEW u \in Subgroups(b2), s # u
      PROVE  g[s] # g[u]
  <2>1. /\ s = <<s[1], s[2]>> /\ s[1] \in DOMAIN b2
        /\ u = <<u[1], u[2]>> /\ u[1] \in DOMAIN b2
    BY PlaceFacts
  <2>2. s[1] # u[1] \/ s[2] # u[2]
    BY <1>3, <2>1
  <2>3. s[1] # u[1] => NthOf(S, s[1]) # NthOf(S, u[1])
    BY <2>1 DEF Filtered
  <2> QED
    BY <2>2, <2>3
<1>4. ASSUME NEW u \in places
      PROVE  \E s \in Subgroups(b2) : RefsAt(b2, s) = RefsAt(b, u)
  <2>1. u[1] \in S /\ u[2] \in DOMAIN b[u[1]].groups
    BY PlaceFacts
  <2>2. Rank(S, u[1]) \in DOMAIN b2 /\ b2[Rank(S, u[1])] = b[u[1]]
    BY <2>1 DEF Filtered
  <2>3. <<Rank(S, u[1]), u[2]>> \in Subgroups(b2)
    BY <2>1, <2>2, PlaceFacts
  <2>4. RefsAt(b2, <<Rank(S, u[1]), u[2]>>) = RefsAt(b, u)
    BY <2>2 DEF RefsAt
  <2> QED
    BY <2>3, <2>4
<1>5. t \subseteq t /\ {} \cap Records(t, b) = {}
  OBVIOUS
<1>6. GroupMap(b, b2, g)
  <2> HIDE DEF g
  <2> QED
    BY <1>2, <1>3 DEF GroupMap
<1>7. Unique(t, b2)
  <2> HIDE DEF g, h
  <2> QED
    BY <1>1, <1>5, <1>6, Reshaped
<1>8. CellsIn(b2) = cells
  <2>1. ASSUME NEW x \in CellsIn(b2) PROVE x \in cells
    <3>1. PICK j \in DOMAIN b2 : b2[j].kind = "cell" /\ b2[j].id = x
      BY DEF CellsIn
    <3>2. NthOf(S, j) \in S /\ b2[j] = b[NthOf(S, j)]
      BY DEF Filtered
    <3> QED
      BY <3>1, <3>2
  <2>2. ASSUME NEW x \in cells PROVE x \in CellsIn(b2)
    <3>1. PICK k \in S : b[k].kind = "cell" /\ b[k].id = x
      OBVIOUS
    <3>2. Rank(S, k) \in DOMAIN b2 /\ b2[Rank(S, k)] = b[k]
      BY DEF Filtered
    <3> QED
      BY <3>1, <3>2 DEF CellsIn
  <2> QED
    BY <2>1, <2>2
<1>9. RefsIn(b2) = UNION {RefsAt(b, s) : s \in places}
  <2> HIDE DEF g, places
  <2>1. ASSUME NEW x \in RefsIn(b2) PROVE \E u \in places : x \in RefsAt(b, u)
    <3>1. PICK s \in Subgroups(b2) : x \in RefsAt(b2, s)
      BY DEF RefsIn
    <3> QED
      BY <1>2, <3>1
  <2>2. ASSUME NEW u \in places, NEW x \in RefsAt(b, u) PROVE x \in RefsIn(b2)
    BY <1>4 DEF RefsIn
  <2> QED
    BY <2>1, <2>2
<1> QED
  BY <1>7, <1>8, <1>9

\* A children group whose cell stays is behind it still.
LEMMA FilteredBehind ==
  ASSUME NEW b \in Seq(Node), BehindItsCell(b), NEW S \in SUBSET DOMAIN b,
         \A k \in S : b[k].kind = "children" => k - 1 \in S
  PROVE  BehindItsCell(Sublist(b, S))
<1> DEFINE b2 == Sublist(b, S)
<1>1. Filtered(b, b2, S)
  BY FilterFacts
<1>2. Len(b) \in Nat /\ S \subseteq 1 .. Len(b)
  OBVIOUS
<1>3. Cardinality(S) \in Nat /\ DOMAIN b2 = 1 .. Cardinality(S)
  BY <1>1, <1>2, RankFacts DEF Filtered
<1> HIDE DEF b2
<1>4. ASSUME NEW j \in DOMAIN b2, b2[j].kind = "children"
      PROVE  j > 1 /\ b2[j - 1].kind = "cell" /\ b2[j - 1].id = b2[j].id
  <2>1. PICK k \in S : k = NthOf(S, j) /\ b2[j] = b[k]
    BY <1>1 DEF Filtered
  <2>2. k > 1 /\ k - 1 \in S /\ b[k - 1].kind = "cell" /\ b[k - 1].id = b[k].id
    BY <1>4, <2>1 DEF BehindItsCell
  <2>3. Rank(S, k) = Rank(S, k - 1) + 1
    BY <1>2, <2>2, NthFacts
  <2>4. Rank(S, k) = j
    BY <1>2, <1>3, <2>1, NthFacts
  <2>5. Rank(S, k - 1) \in DOMAIN b2 /\ b2[Rank(S, k - 1)] = b[k - 1]
    BY <1>1, <2>2 DEF Filtered
  <2>6. Rank(S, k - 1) = j - 1 /\ j > 1
    BY <1>3, <2>3, <2>4, <2>5
  <2> QED
    BY <2>1, <2>2, <2>5, <2>6
<1>5. BehindItsCell(b2)
  BY <1>4 DEF BehindItsCell
<1> QED
  BY <1>5 DEF b2

LEMMA FilteredOrder ==
  ASSUME NEW b \in Seq(Node), Ordered(b), NEW S \in SUBSET DOMAIN b,
         NEW b2, Filtered(b, b2, S)
  PROVE  Ordered(b2)
BY DEF Filtered, Ordered

\* What taking records out of the groups leaves.
Thinned(b, b2, S) ==
  /\ b2 \in Seq(Node)
  /\ DOMAIN b2 = DOMAIN b
  /\ \A k \in DOMAIN b : /\ b2[k].kind = b[k].kind
                         /\ b2[k].id = b[k].id
                         /\ DOMAIN b2[k].groups = DOMAIN b[k].groups
  /\ \A k \in DOMAIN b : \A j \in DOMAIN b[k].groups :
       /\ b2[k].groups[j].type = b[k].groups[j].type
       /\ b2[k].groups[j].refs = b[k].groups[j].refs \ S

LEMMA ThinFacts ==
  ASSUME NEW b \in Seq(Node), NEW S
  PROVE  Thinned(b, WithoutRefs(b, S), S)
<1> DEFINE b2 == WithoutRefs(b, S)
           gs(k) == GroupsWithout(b[k].groups, S)
<1>1. DOMAIN b2 = DOMAIN b
  BY DEF WithoutRefs
<1>2. ASSUME NEW k \in DOMAIN b
      PROVE  b2[k] = [b[k] EXCEPT !.groups = gs(k)]
  BY DEF WithoutRefs
<1> HIDE DEF b2
<1>3. ASSUME NEW k \in DOMAIN b, NEW j \in DOMAIN b[k].groups
      PROVE  /\ gs(k)[j] \in Group
             /\ gs(k)[j].type = b[k].groups[j].type
             /\ gs(k)[j].refs = b[k].groups[j].refs \ S
  <2> DEFINE old == b[k].groups[j]
  <2>1. old \in Group
    BY NodeFacts
  <2> HIDE DEF old
  <2>2. old.refs \in SUBSET Id /\ IsFiniteSet(old.refs)
    BY <2>1 DEF Group
  <2>3. old.refs \ S \in {R \in SUBSET Id : IsFiniteSet(R)}
    BY <2>2, FS_Difference
  <2>4. gs(k)[j] = [old EXCEPT !.refs = @ \ S]
    BY DEF old, GroupsWithout
  <2> HIDE DEF gs
  <2>5. gs(k)[j] \in Group /\ gs(k)[j].type = old.type /\ gs(k)[j].refs = old.refs \ S
    BY <2>1, <2>3, <2>4 DEF Group
  <2> QED
    BY <2>5 DEF old
<1>4. ASSUME NEW k \in DOMAIN b
      PROVE  DOMAIN gs(k) = DOMAIN b[k].groups /\ gs(k) \in Seq(Group)
  <2>1. DOMAIN gs(k) = DOMAIN b[k].groups
    BY DEF GroupsWithout
  <2>2. PICK n \in Nat : DOMAIN b[k].groups = 1 .. n
    BY NodeFacts
  <2>3. gs(k) \in [1 .. n -> Group]
    BY <1>3, <2>2 DEF GroupsWithout
  <2> QED
    BY <2>1, <2>2, <2>3
<1>5. ASSUME NEW k \in DOMAIN b
      PROVE  b2[k] \in Node /\ b2[k].kind = b[k].kind /\ b2[k].id = b[k].id
             /\ b2[k].groups = gs(k)
  <2>1. CASE b[k].kind = "cell"
    <3>1. b[k].groups = <<>> /\ b[k] \in [kind : {"cell"}, id : Id, groups : {<<>>}]
      BY <2>1, NodeFacts DEF Node
    <3>2. DOMAIN gs(k) = {}
      BY <1>4, <3>1
    <3>3. gs(k) = <<>>
      BY <1>4, <3>2 DEF GroupsWithout
    <3> HIDE DEF gs
    <3> QED
      BY <1>2, <3>1, <3>3 DEF Node
  <2>2. CASE b[k].kind = "children"
    <3>1. b[k] \in [kind : {"children"}, id : Id, groups : Seq(Group)]
      BY <2>2 DEF Node
    <3> HIDE DEF gs
    <3> QED
      BY <1>2, <1>4, <3>1 DEF Node
  <2> QED
    BY <2>1, <2>2, NodeFacts
<1>6. b2 \in Seq(Node)
  <2>1. PICK n \in Nat : DOMAIN b = 1 .. n
    OBVIOUS
  <2>2. b2 = [k \in 1 .. n |-> b2[k]]
    BY <2>1 DEF b2, WithoutRefs
  <2>3. b2 \in [1 .. n -> Node]
    BY <1>5, <2>1, <2>2
  <2> QED
    BY <2>3
<1> HIDE DEF gs
<1>7. Thinned(b, b2, S)
  BY <1>1, <1>3, <1>4, <1>5, <1>6 DEF Thinned
<1> QED
  BY <1>7 DEF b2

\* The records that are left, and what stays as it was.
LEMMA ThinnedRecords ==
  ASSUME NEW t, NEW b \in Seq(Node), Unique(t, b), NEW S,
         NEW b2, Thinned(b, b2, S)
  PROVE  /\ Unique(t, b2)
         /\ CellsIn(b2) = CellsIn(b)
         /\ RefsIn(b2) = RefsIn(b) \ S
         /\ Subgroups(b2) = Subgroups(b)
         /\ \A s \in Subgroups(b) : RefsAt(b2, s) = RefsAt(b, s) \ S
<1>1. Subgroups(b2) = Subgroups(b)
  BY DEF Subgroups, Thinned
<1>2. ASSUME NEW s \in Subgroups(b) PROVE RefsAt(b2, s) = RefsAt(b, s) \ S
  BY PlaceFacts DEF RefsAt, Thinned
<1>3. CellsIn(b2) = CellsIn(b)
  BY DEF CellsIn, Thinned
<1>4. RefsIn(b2) = RefsIn(b) \ S
  <2>1. ASSUME NEW x \in RefsIn(b2) PROVE x \in RefsIn(b) \ S
    BY <1>1, <1>2 DEF RefsIn
  <2>2. ASSUME NEW x \in RefsIn(b) \ S PROVE x \in RefsIn(b2)
    BY <1>1, <1>2 DEF RefsIn
  <2> QED
    BY <2>1, <2>2
<1>5. Unique(t, b2)
  <2>1. \A k, l \in DOMAIN b2 :
          k # l /\ b2[k].kind = "cell" /\ b2[l].kind = "cell" => b2[k].id # b2[l].id
    BY DEF Unique, Thinned
  <2>2. ASSUME NEW s \in Subgroups(b2), NEW u \in Subgroups(b2), s # u
        PROVE  RefsAt(b2, s) \cap RefsAt(b2, u) = {}
    <3>1. RefsAt(b, s) \cap RefsAt(b, u) = {}
      BY <1>1, <2>2 DEF Unique
    <3> QED
      BY <1>1, <1>2, <3>1
  <2>3. t \cap CellsIn(b2) = {} /\ (t \cup CellsIn(b2)) \cap RefsIn(b2) = {}
    BY <1>3, <1>4 DEF Unique
  <2> QED
    BY <2>1, <2>2, <2>3 DEF Unique
<1> QED
  BY <1>1, <1>2, <1>3, <1>4, <1>5

LEMMA ThinnedShape ==
  ASSUME NEW b \in Seq(Node), NEW S, NEW b2, Thinned(b, b2, S)
  PROVE  /\ BehindItsCell(b) => BehindItsCell(b2)
         /\ Ordered(b) => Ordered(b2)
<1>1. ASSUME BehindItsCell(b) PROVE BehindItsCell(b2)
  <2> SUFFICES ASSUME NEW k \in DOMAIN b2, b2[k].kind = "children"
               PROVE  k > 1 /\ b2[k - 1].kind = "cell" /\ b2[k - 1].id = b2[k].id
    BY DEF BehindItsCell
  <2>1. k \in DOMAIN b /\ b[k].kind = "children" /\ b2[k].id = b[k].id
    BY DEF Thinned
  <2>2. k > 1 /\ b[k - 1].kind = "cell" /\ b[k - 1].id = b[k].id
    BY <1>1, <2>1 DEF BehindItsCell
  <2>3. k - 1 \in DOMAIN b
    BY <2>1, <2>2
  <2> QED
    BY <2>1, <2>2, <2>3 DEF Thinned
<1>2. ASSUME Ordered(b) PROVE Ordered(b2)
  BY <1>2 DEF Ordered, Thinned
<1> QED
  BY <1>1, <1>2

\* What the next id depends on: the object ids that can still be minted are
\* beyond every id of the plugin's own, deleted and detached ones included, and
\* no id is of an index that the master list has not reached.
MintInv ==
  /\ masters \in Seq(Names)
  /\ nextObject \in Nat
  /\ issued \subseteq Id
  /\ Beyond(issued, masters, nextObject)

-----------------------------------------------------------------------------
(* Minting.                                                                *)

\* An object id that is not past the last one is not cut.
LEMMA NotCut ==
  ASSUME NEW i \in Nat, nextObject \in Nat, nextObject + i <= MaxObject
  PROVE  LegacyObject(i) = nextObject + i
<1>1. \A x, d \in Nat : x < d => x % d = x
  OBVIOUS
<1> QED
  BY <1>1, MaxObjectAssumption DEF LegacyObject

\* Short of the last object id, both engines mint the same ids.
LEMMA LegacyMintsAlike ==
  ASSUME "wrap" \notin Risks, nextObject \in Nat, NEW n \in Nat \ {0},
         LegacyMint(n)
  PROVE  LegacyMinted(n) = Minted(n) /\ nextObject' = nextObject + n
<1>1. nextObject + n <= MaxObject + 1
  BY DEF LegacyMint
<1>2. \A i \in 0..(n - 1) : LegacyObject(i) = nextObject + i
  BY <1>1, NotCut, MaxObjectAssumption
<1>3. n - 1 \in 0..(n - 1)
  OBVIOUS
<1>4. nextObject' = nextObject + n
  BY <1>2, <1>3 DEF LegacyMint
<1> QED
  BY <1>2, <1>4 DEF LegacyMinted, Minted

\* Ids minted from the counter are fresh, and the counter is beyond them.
LEMMA MintedAreFresh ==
  ASSUME MintInv, NEW n \in Nat \ {0}, masters' = masters,
         nextObject' = nextObject + n, issued' = issued \cup Minted(n)
  PROVE  MintInv' /\ Minted(n) \cap issued = {}
<1>1. Len(masters) \in Nat
  BY DEF MintInv
<1>2. Minted(n) \subseteq Id
  BY <1>1 DEF MintInv, Minted, Id
<1>3. \A id \in Minted(n) : /\ id.index = Len(masters)
                            /\ id.object >= nextObject
                            /\ id.object < nextObject + n
  BY <1>1 DEF MintInv, Minted
<1>4. Minted(n) \cap issued = {}
  <2> SUFFICES ASSUME NEW id \in Minted(n), id \in issued
               PROVE  FALSE
    OBVIOUS
  <2>1. id \in Id
    BY <1>2
  <2>2. id.object \in Nat
    BY <2>1 DEF Id
  <2>3. id.object < nextObject
    BY <1>3 DEF MintInv, Beyond
  <2> QED
    BY <1>3, <2>2, <2>3 DEF MintInv
<1>5. Beyond(issued', masters', nextObject')
  <2> SUFFICES ASSUME NEW id \in issued'
               PROVE  /\ id.index <= Len(masters)
                      /\ id.index = Len(masters) => id.object < nextObject + n
    BY DEF Beyond
  <2>1. CASE id \in issued
    <3>1. id.object \in Nat
      BY <2>1 DEF MintInv, Id
    <3> QED
      BY <2>1, <3>1 DEF MintInv, Beyond
  <2>2. CASE id \in Minted(n)
    BY <1>1, <1>3, <2>2
  <2> QED
    BY <2>1, <2>2
<1> QED
  BY <1>2, <1>4, <1>5 DEF MintInv

\* A call that mints nothing and leaves the header alone changes nothing here.
LEMMA NothingMinted ==
  ASSUME MintInv, masters' = masters, nextObject' = nextObject, issued' = issued
  PROVE  MintInv'
BY DEF MintInv, Beyond

-----------------------------------------------------------------------------
(* The calls.                                                              *)

\* What a call answers as new is new, and MintInv is kept: the tools of ops.
LEMMA OpsFresh ==
  ASSUME MintInv, OpsNext
  PROVE  MintInv' /\ answer'.new \cap issued = {}
<1> 1 \in Nat \ {0}
  OBVIOUS
<1>1. ASSUME NEW c, InsertRef(c)
      PROVE  MintInv' /\ answer'.new \cap issued = {}
  BY <1>1, MintedAreFresh DEF InsertRef, Answers
<1>2. ASSUME NEW seed, NEW n \in 1..MaxBatch, NEW c, CloneCluster(seed, n, c)
      PROVE  MintInv' /\ answer'.new \cap issued = {}
  BY <1>2, MintedAreFresh DEF CloneCluster, Answers
<1>3. ASSUME NEW seed, NEW n \in 1..MaxBatch, CloneDetached(seed, n)
      PROVE  MintInv' /\ answer'.new \cap issued = {}
  BY <1>3, MintedAreFresh DEF CloneDetached, Answers
<1>4. ASSUME NEW seed, CloneRecord(seed)
      PROVE  MintInv' /\ answer'.new \cap issued = {}
  BY <1>4, MintedAreFresh DEF CloneRecord, Answers
<1>5. ASSUME NEW S, DeleteRecords(S)
      PROVE  MintInv' /\ answer'.new \cap issued = {}
  BY <1>5, NothingMinted DEF DeleteRecords, Answers
<1>6. ASSUME NEW S, DeleteCells(S)
      PROVE  MintInv' /\ answer'.new \cap issued = {}
  BY <1>6, NothingMinted DEF DeleteCells, Answers
<1>7. ASSUME NEW name \in Names, AddMaster(name)
      PROVE  MintInv' /\ answer'.new \cap issued = {}
  <2>1. masters' = Append(masters, name) /\ nextObject' = nextObject
        /\ issued' = issued /\ answer'.new = {}
    BY <1>7 DEF AddMaster, Answers
  <2>2. masters' \in Seq(Names) /\ Len(masters') = Len(masters) + 1
        /\ Len(masters) \in Nat
    BY <2>1 DEF MintInv
  <2>3. \A id \in issued : id.index \in Nat /\ id.index <= Len(masters)
    BY DEF MintInv, Beyond, Id
  <2>4. Beyond(issued', masters', nextObject')
    BY <2>1, <2>2, <2>3 DEF Beyond
  <2> QED
    BY <2>1, <2>2, <2>4 DEF MintInv
<1>8. ASSUME NEW old \in Names, NEW new \in Names, RenameMaster(old, new)
      PROVE  MintInv' /\ answer'.new \cap issued = {}
  <2>1. PICK i \in DOMAIN masters : masters' = [masters EXCEPT ![i] = new]
    BY <1>8 DEF RenameMaster
  <2>2. nextObject' = nextObject /\ issued' = issued /\ answer'.new = {}
    BY <1>8 DEF RenameMaster, Answers
  <2>3. masters' \in Seq(Names) /\ Len(masters') = Len(masters)
    BY <2>1 DEF MintInv
  <2>4. Beyond(issued', masters', nextObject')
    BY <2>2, <2>3 DEF MintInv, Beyond
  <2> QED
    BY <2>2, <2>3, <2>4 DEF MintInv
<1> QED
  BY <1>1, <1>2, <1>3, <1>4, <1>5, <1>6, <1>7, <1>8 DEF OpsNext

\* ... and those of edit, as long as the object ids do not run out.
LEMMA LegacyFresh ==
  ASSUME "wrap" \notin Risks, MintInv, LegacyNext
  PROVE  MintInv' /\ answer'.new \cap issued = {}
<1> nextObject \in Nat /\ 1 \in Nat \ {0}
  BY DEF MintInv
<1>1. ASSUME NEW c, LegacyInsertRef(c)
      PROVE  MintInv' /\ answer'.new \cap issued = {}
  BY <1>1, LegacyMintsAlike, MintedAreFresh DEF LegacyInsertRef, Answers
<1>2. ASSUME NEW seed, NEW n \in 1..MaxBatch, NEW c, LegacyCloneCluster(seed, n, c)
      PROVE  MintInv' /\ answer'.new \cap issued = {}
  BY <1>2, LegacyMintsAlike, MintedAreFresh
  DEF LegacyCloneCluster, Answers
<1>3. ASSUME NEW seed, NEW n \in 1..MaxBatch, LegacyCloneDetached(seed, n)
      PROVE  MintInv' /\ answer'.new \cap issued = {}
  BY <1>3, LegacyMintsAlike, MintedAreFresh
  DEF LegacyCloneDetached, Answers
<1>4. ASSUME NEW seed, LegacyCloneRecord(seed)
      PROVE  MintInv' /\ answer'.new \cap issued = {}
  BY <1>4, LegacyMintsAlike, MintedAreFresh DEF LegacyCloneRecord, Answers
<1>5. ASSUME NEW S, LegacyDeleteRecords(S)
      PROVE  MintInv' /\ answer'.new \cap issued = {}
  BY <1>5, NothingMinted DEF LegacyDeleteRecords, Answers
<1>6. ASSUME NEW S, LegacyDeleteCells(S)
      PROVE  MintInv' /\ answer'.new \cap issued = {}
  BY <1>6, NothingMinted DEF LegacyDeleteCells, Answers
<1> QED
  BY <1>1, <1>2, <1>3, <1>4, <1>5, <1>6 DEF LegacyNext

-----------------------------------------------------------------------------

LEMMA RecordsAreIds ==
  ASSUME NEW t \in SUBSET Id, NEW b \in Seq(Node)
  PROVE  Records(t, b) \subseteq Id
<1>1. CellsIn(b) \subseteq Id
  BY NodeFacts DEF CellsIn
<1>2. \A s \in Subgroups(b) : RefsAt(b, s) \subseteq Id
  BY RefsAtFacts
<1> QED
  BY <1>1, <1>2 DEF Records, RefsIn

LEMMA InitMint == Init => MintInv
<1> SUFFICES ASSUME Init PROVE MintInv
  OBVIOUS
<1>1. PICK p \in Given : /\ masters = p.masters /\ nextObject = p.nextObject
                         /\ issued = Records(p.top, p.block)
  BY DEF Init
<1>2. /\ p.masters \in Seq(Names) /\ p.nextObject \in Nat
      /\ p.top \in SUBSET Id /\ p.block \in Seq(Node)
      /\ Beyond(Records(p.top, p.block), p.masters, p.nextObject)
  BY GivenAssumption DEF WellFormed
<1>3. issued \subseteq Id
  BY <1>1, <1>2, RecordsAreIds
<1> QED
  BY <1>1, <1>2, <1>3 DEF MintInv

LEMMA StepFresh ==
  ASSUME "wrap" \notin Risks, MintInv, [Next]_vars
  PROVE  MintInv' /\ (vars' # vars => answer'.new \cap issued = {})
<1>1. CASE Next
  BY <1>1, OpsFresh, LegacyFresh DEF Next
<1>2. CASE UNCHANGED vars
  BY <1>2, NothingMinted DEF vars, plugin
<1> QED
  BY <1>1, <1>2

\* As long as the older engine does not run out of object ids, what a call
\* of either server mints was never an id of the plugin's before: whatever was
\* cloned, deleted or left detached, and whatever masters were added
\* (mint_form_id and _alloc_form_ids share HEDR.next_object_id).
THEOREM MintedIdsFresh ==
  ASSUME "wrap" \notin Risks
  PROVE  Spec => FreshIds
<1>1. MintInv /\ [Next]_vars => MintInv'
  BY StepFresh
<1>2. MintInv /\ [Next]_vars => [answer'.new \cap issued = {}]_vars
  BY StepFresh
<1> QED
  BY <1>1, <1>2, InitMint, PTL DEF Spec, FreshIds

-----------------------------------------------------------------------------
(* What the calls of both engines do to the tree, N being the new ids.     *)

\* The first children group of a cell is one of its children groups.
LEMMA ChildrenFacts ==
  ASSUME block \in Seq(Node), NEW c, HasChildren(c)
  PROVE  ChildrenOf(c) \in DOMAIN block /\ block[ChildrenOf(c)].kind = "children"
<1> DEFINE Here == {k \in DOMAIN block : block[k].kind = "children" /\ block[k].id = c}
<1>1. Here # {} /\ Here \subseteq Nat
  BY DEF HasChildren
<1>2. \E k \in Here : \A l \in Here : k <= l
  <2> HIDE DEF Here
  <2> QED
    BY <1>1, LeastNatural
<1>3. \E k \in DOMAIN block :
        /\ block[k].kind = "children" /\ block[k].id = c
        /\ \A l \in DOMAIN block :
             block[l].kind = "children" /\ block[l].id = c => k <= l
  BY <1>2
<1> QED
  BY <1>3 DEF ChildrenOf

Stays == UNCHANGED <<top, block>>

PutsAt(N, k, e) ==
  /\ block[k].kind = "children"
  /\ Ensures(block[k].groups, e)
  /\ block' = [block EXCEPT ![k].groups = AddRefs(e, N)]

Puts(N) == top' = top /\ \E k \in DOMAIN block : \E e \in Seq(Group) : PutsAt(N, k, e)

Clones(seed, N) ==
  /\ "loose cells" \in Risks \/ Bare({seed})
  /\ \E clone \in N : /\ N = {clone}
                      /\ \/ CloneInTop(seed, clone)
                         \/ CloneInBlock(seed, clone)
                         \/ CloneInGroup(seed, clone)

Drops(S) ==
  /\ "loose cells" \in Risks \/ Bare(S)
  /\ S \subseteq Records(top, block)
  /\ top' = top \ S
  /\ block' = Dropped(block, S)

Reverts(S) ==
  /\ S \subseteq CellsIn(block)
  /\ top' = top
  /\ block' = Without(block, Reverted(block, S))

\* A call in terms of what is new and what it was asked for.
Effect(N, asked) ==
  \/ Stays
  \/ Puts(N)
  \/ \E seed : Clones(seed, N)
  \/ N = {} /\ Drops(asked)
  \/ N = {} /\ Reverts(asked)

LEMMA MintedAreFinite ==
  ASSUME NEW n \in Nat
  PROVE  IsFiniteSet(Minted(n))
<1> DEFINE f == [i \in 0..(n - 1) |-> [index |-> Len(masters), object |-> nextObject + i]]
           D == 0..(n - 1)
<1>1. f \in Surjection(D, Minted(n))
  BY DEF Surjection, Minted
<1>2. IsFiniteSet(D)
  BY FS_Interval
<1> HIDE DEF f, D
<1> QED
  BY <1>1, <1>2, FS_Surjection

LEMMA MintedOne ==
  ASSUME NEW clone \in Minted(1)
  PROVE  Minted(1) = {clone}
<1>1. 0 .. (1 - 1) = {0}
  OBVIOUS
<1> QED
  BY <1>1 DEF Minted

LEMMA OpsEffect ==
  ASSUME block \in Seq(Node), OpsNext
  PROVE  /\ Effect(answer'.new, answer'.asked)
         /\ IsFiniteSet(answer'.new)
         /\ issued' = issued \cup answer'.new
<1>0. IsFiniteSet({}) /\ \A n \in 1..MaxBatch : IsFiniteSet(Minted(n))
  BY FS_EmptySet, MintedAreFinite
<1>1. ASSUME NEW c, HasChildren(c), NEW N, PutInCell(c, N)
      PROVE  top' = top => Puts(N)
  <2>1. PICK k \in DOMAIN block : k = ChildrenOf(c) /\ block[k].kind = "children"
    BY <1>1, ChildrenFacts
  <2> DEFINE e == EnsurePersistent(block[k].groups)
  <2>2. Ensures(block[k].groups, e)
    BY NodeFacts, BothEnsure
  <2>3. block' = [block EXCEPT ![k].groups = AddRefs(e, N)]
    BY <1>1, <2>1 DEF PutInCell
  <2> HIDE DEF e
  <2>4. e \in Seq(Group) /\ PutsAt(N, k, e)
    BY <2>1, <2>2, <2>3 DEF Ensures, PutsAt
  <2> QED
    BY <2>4 DEF Puts
<1>2. ASSUME NEW c, InsertRef(c)
      PROVE  /\ Puts(answer'.new) /\ IsFiniteSet(answer'.new)
             /\ issued' = issued \cup answer'.new
  <2>1. answer'.new = Minted(1) /\ issued' = issued \cup Minted(1) /\ top' = top
        /\ HasChildren(c) /\ PutInCell(c, Minted(1))
    BY <1>2 DEF InsertRef, Answers
  <2> QED
    BY <1>1, <2>1, MintedAreFinite
<1>3. ASSUME NEW seed, NEW n \in 1..MaxBatch, NEW c, CloneCluster(seed, n, c)
      PROVE  /\ Puts(answer'.new) /\ IsFiniteSet(answer'.new)
             /\ issued' = issued \cup answer'.new
  <2>1. answer'.new = Minted(n) /\ issued' = issued \cup Minted(n) /\ top' = top
        /\ HasChildren(c) /\ PutInCell(c, Minted(n))
    BY <1>3 DEF CloneCluster, Answers
  <2> QED
    BY <1>0, <1>1, <2>1
<1>4. ASSUME NEW seed, NEW n \in 1..MaxBatch, CloneDetached(seed, n)
      PROVE  /\ Stays /\ IsFiniteSet(answer'.new)
             /\ issued' = issued \cup answer'.new
  BY <1>0, <1>4 DEF CloneDetached, Answers, Stays
<1>5. ASSUME NEW seed, CloneRecord(seed)
      PROVE  /\ Clones(seed, answer'.new) /\ IsFiniteSet(answer'.new)
             /\ issued' = issued \cup answer'.new
  <2>1. answer'.new = Minted(1) /\ issued' = issued \cup Minted(1)
    BY <1>5 DEF CloneRecord, Answers
  <2>2. Clones(seed, Minted(1))
    BY <1>5, MintedOne DEF CloneRecord, Clones
  <2> QED
    BY <2>1, <2>2, MintedAreFinite
<1>6. ASSUME NEW S, DeleteRecords(S)
      PROVE  /\ answer'.new = {} /\ Drops(answer'.asked)
             /\ issued' = issued \cup answer'.new
  BY <1>6 DEF DeleteRecords, Answers, Drops
<1>7. ASSUME NEW S, DeleteCells(S)
      PROVE  /\ answer'.new = {} /\ Reverts(answer'.asked)
             /\ issued' = issued \cup answer'.new
  BY <1>7 DEF DeleteCells, Answers, Reverts
<1>8. ASSUME NEW name, AddMaster(name)
      PROVE  /\ Stays /\ answer'.new = {}
             /\ issued' = issued \cup answer'.new
  BY <1>8 DEF AddMaster, Answers, Stays
<1>9. ASSUME NEW old, NEW new, RenameMaster(old, new)
      PROVE  /\ Stays /\ answer'.new = {}
             /\ issued' = issued \cup answer'.new
  BY <1>9 DEF RenameMaster, Answers, Stays
<1> QED
  BY <1>0, <1>2, <1>3, <1>4, <1>5, <1>6, <1>7, <1>8, <1>9 DEF OpsNext, Effect

LEMMA LegacyEffect ==
  ASSUME "wrap" \notin Risks, nextObject \in Nat, block \in Seq(Node), LegacyNext
  PROVE  /\ Effect(answer'.new, answer'.asked)
         /\ IsFiniteSet(answer'.new)
         /\ issued' = issued \cup answer'.new
<1>0. IsFiniteSet({}) /\ (\A n \in 1..MaxBatch : IsFiniteSet(Minted(n))) /\ 1 \in Nat \ {0}
  BY FS_EmptySet, MintedAreFinite
<1>1. ASSUME NEW c, HasChildren(c), NEW N, LegacyPut(c, N)
      PROVE  top' = top => Puts(N)
  <2>1. PICK k \in DOMAIN block : k = ChildrenOf(c) /\ block[k].kind = "children"
    BY <1>1, ChildrenFacts
  <2> DEFINE e == LegacyEnsured(block[k].groups)
  <2>2. Ensures(block[k].groups, e)
    BY NodeFacts, BothEnsure
  <2>3. block' = [block EXCEPT ![k].groups = AddRefs(e, N)]
    BY <1>1, <2>1 DEF LegacyPut
  <2> HIDE DEF e
  <2>4. e \in Seq(Group) /\ PutsAt(N, k, e)
    BY <2>1, <2>2, <2>3 DEF Ensures, PutsAt
  <2> QED
    BY <2>4 DEF Puts
<1>2. ASSUME NEW c, LegacyInsertRef(c)
      PROVE  /\ Puts(answer'.new) /\ IsFiniteSet(answer'.new)
             /\ issued' = issued \cup answer'.new
  <2>1. answer'.new = LegacyMinted(1) /\ issued' = issued \cup LegacyMinted(1)
        /\ top' = top /\ HasChildren(c) /\ LegacyPut(c, LegacyMinted(1))
    BY <1>2 DEF LegacyInsertRef, Answers
  <2>2. LegacyMinted(1) = Minted(1)
    BY <1>0, <1>2, LegacyMintsAlike DEF LegacyInsertRef
  <2> QED
    BY <1>1, <2>1, <2>2, MintedAreFinite
<1>3. ASSUME NEW seed, NEW n \in 1..MaxBatch, NEW c, LegacyCloneCluster(seed, n, c)
      PROVE  /\ Puts(answer'.new) /\ IsFiniteSet(answer'.new)
             /\ issued' = issued \cup answer'.new
  <2>1. answer'.new = LegacyMinted(n) /\ issued' = issued \cup LegacyMinted(n)
        /\ top' = top /\ HasChildren(c) /\ LegacyPut(c, LegacyMinted(n))
    BY <1>3 DEF LegacyCloneCluster, Answers
  <2>2. LegacyMinted(n) = Minted(n)
    BY <1>3, LegacyMintsAlike DEF LegacyCloneCluster
  <2> QED
    BY <1>0, <1>1, <2>1, <2>2
<1>4. ASSUME NEW seed, NEW n \in 1..MaxBatch, LegacyCloneDetached(seed, n)
      PROVE  /\ Stays /\ IsFiniteSet(answer'.new)
             /\ issued' = issued \cup answer'.new
  <2>1. LegacyMinted(n) = Minted(n)
    BY <1>4, LegacyMintsAlike DEF LegacyCloneDetached
  <2> QED
    BY <1>0, <1>4, <2>1 DEF LegacyCloneDetached, Answers, Stays
<1>5. ASSUME NEW seed, LegacyCloneRecord(seed)
      PROVE  /\ Clones(seed, answer'.new) /\ IsFiniteSet(answer'.new)
             /\ issued' = issued \cup answer'.new
  <2>1. answer'.new = LegacyMinted(1) /\ issued' = issued \cup LegacyMinted(1)
    BY <1>5 DEF LegacyCloneRecord, Answers
  <2>2. LegacyMinted(1) = Minted(1)
    BY <1>0, <1>5, LegacyMintsAlike DEF LegacyCloneRecord
  <2>3. Clones(seed, Minted(1))
    BY <1>5, <2>2, MintedOne DEF LegacyCloneRecord, Clones
  <2> QED
    BY <2>1, <2>2, <2>3, MintedAreFinite
<1>6. ASSUME NEW S, LegacyDeleteRecords(S)
      PROVE  /\ answer'.new = {} /\ Drops(answer'.asked)
             /\ issued' = issued \cup answer'.new
  BY <1>6 DEF LegacyDeleteRecords, Answers, Drops
<1>7. ASSUME NEW S, LegacyDeleteCells(S)
      PROVE  /\ answer'.new = {} /\ Reverts(answer'.asked)
             /\ issued' = issued \cup answer'.new
  BY <1>7 DEF LegacyDeleteCells, Answers, Reverts
<1> QED
  BY <1>0, <1>2, <1>3, <1>4, <1>5, <1>6, <1>7 DEF LegacyNext, Effect

-----------------------------------------------------------------------------
(* Uniqueness, and every children group behind its cell.                   *)

\* No id belongs to two records, and each record's id was issued.
TreeInv ==
  /\ block \in Seq(Node)
  /\ IsFiniteSet(top)
  /\ Unique(top, block)
  /\ Records(top, block) \subseteq issued

\* What a call may do to the tree.
Edited(t, b, t2, b2, N) ==
  /\ b2 \in Seq(Node)
  /\ IsFiniteSet(t2)
  /\ Unique(t2, b2)
  /\ Records(t2, b2) \subseteq Records(t, b) \cup N
  /\ "loose cells" \notin Risks /\ BehindItsCell(b) => BehindItsCell(b2)

LEMMA PutEdits ==
  ASSUME TreeInv, NEW N \in SUBSET Id, IsFiniteSet(N), N \cap Records(top, block) = {},
         Puts(N)
  PROVE  Edited(top, block, top', block', N)
<1>1. PICK k \in DOMAIN block : \E e \in Seq(Group) : PutsAt(N, k, e)
  BY DEF Puts
<1>2. PICK e \in Seq(Group) : PutsAt(N, k, e)
  BY <1>1
<1> DEFINE b2 == block'
<1>3. /\ Ensures(block[k].groups, e) /\ block[k].kind = "children"
      /\ b2 = [block EXCEPT ![k].groups = AddRefs(e, N)]
      /\ Unique(top, block) /\ block \in Seq(Node) /\ IsFiniteSet(top) /\ top' = top
  BY <1>2 DEF PutsAt, TreeInv, Puts
<1> HIDE DEF b2
<1>4. Regrouped(block, b2, k, AddRefs(e, N))
  BY <1>3, PutFacts
<1>5. Unique(top, b2)
  BY <1>3, PutFacts
<1>6. Holds(b2, CellsIn(block), RefsIn(block) \cup N)
  BY <1>3, PutFacts
<1>8. Records(top, b2) \subseteq Records(top, block) \cup N
  BY <1>6 DEF Records, Holds
<1>9. BehindItsCell(block) => BehindItsCell(b2)
  BY <1>3, <1>4, SameBehind DEF Regrouped
<1>10. b2 \in Seq(Node)
  BY <1>4 DEF Regrouped
<1>11. Edited(top, block, top, b2, N)
  BY <1>3, <1>5, <1>8, <1>9, <1>10 DEF Edited
<1> QED
  BY <1>3, <1>11 DEF b2

LEMMA CloneEdits ==
  ASSUME TreeInv, NEW N \in SUBSET Id, N \cap Records(top, block) = {},
         NEW seed, Clones(seed, N)
  PROVE  Edited(top, block, top', block', N)
<1>0. block \in Seq(Node) /\ IsFiniteSet(top) /\ Unique(top, block)
  BY DEF TreeInv
<1>1. PICK clone \in N : /\ N = {clone}
                         /\ \/ CloneInTop(seed, clone)
                            \/ CloneInBlock(seed, clone)
                            \/ CloneInGroup(seed, clone)
  BY DEF Clones
<1>2. clone \in Id /\ clone \notin Records(top, block) /\ IsFiniteSet(N)
  BY <1>1, FS_Singleton
<1>3. CASE CloneInTop(seed, clone)
  <2>1. top' = top \cup {clone} /\ block' = block
    BY <1>3 DEF CloneInTop
  <2>2. IsFiniteSet(top')
    BY <1>0, <2>1, FS_AddElement
  <2>3. Unique(top', block')
    BY <1>0, <1>2, <2>1 DEF Unique, Records
  <2>4. Records(top', block') \subseteq Records(top, block) \cup N
    BY <1>1, <2>1 DEF Records
  <2> QED
    BY <1>0, <2>1, <2>2, <2>3, <2>4 DEF Edited
<1>4. CASE CloneInBlock(seed, clone)
  <2> DEFINE c == [kind |-> "cell", id |-> clone, groups |-> <<>>]
             b2 == block'
  <2>1. PICK k \in DOMAIN block :
          /\ block[k].kind = "cell" /\ block[k].id = seed
          /\ b2 = SubSeq(block, 1, k) \o <<c>> \o SubSeq(block, k + 1, Len(block))
    BY <1>4 DEF CloneInBlock
  <2>2. top' = top
    BY <1>4 DEF CloneInBlock
  <2>3. c = [kind |-> "cell", id |-> clone, groups |-> <<>>]
    OBVIOUS
  <2> HIDE DEF c, b2
  <2>4. Widened(block, b2, k, c)
    BY <1>0, <1>2, <2>1, <2>3, CellCloneFacts
  <2>5. Unique(top, b2)
    BY <1>0, <1>2, <2>1, <2>3, CellCloneFacts
  <2>6. Holds(b2, CellsIn(block) \cup {clone}, RefsIn(block))
    BY <1>0, <1>2, <2>1, <2>3, CellCloneFacts
  <2>8. Records(top, b2) \subseteq Records(top, block) \cup N
    BY <1>1, <2>6 DEF Records, Holds
  <2>9. c.kind = "cell"
    BY <2>3
  <2>10. "loose cells" \notin Risks /\ BehindItsCell(block) => BehindItsCell(b2)
    <3>1. "loose cells" \notin Risks =>
            \A l \in DOMAIN block : block[l].kind = "children" => l # k + 1
      <4> SUFFICES ASSUME "loose cells" \notin Risks, NEW l \in DOMAIN block,
                          block[l].kind = "children", l = k + 1
                   PROVE  FALSE
        OBVIOUS
      <4>1. Bare({seed})
        BY DEF Clones
      <4>2. l > 1 /\ l - 1 = k
        BY <1>0, Successor
      <4> QED
        BY <2>1, <4>1, <4>2 DEF Bare
    <3> QED
      BY <1>0, <2>4, <2>9, <3>1, WidenedBehind
  <2>11. b2 \in Seq(Node)
    BY <2>4 DEF Widened
  <2>12. Edited(top, block, top, b2, N)
    BY <1>0, <2>5, <2>8, <2>10, <2>11 DEF Edited
  <2> QED
    BY <2>2, <2>12 DEF b2
<1>5. CASE CloneInGroup(seed, clone)
  <2> DEFINE b2 == block'
  <2>1. PICK s0 \in Subgroups(block) :
          b2 = [block EXCEPT ![s0[1]].groups[s0[2]].refs = @ \cup N]
    BY <1>1, <1>5 DEF CloneInGroup
  <2>2. top' = top
    BY <1>5 DEF CloneInGroup
  <2> HIDE DEF b2
  <2>12. Refilled(block, b2, s0[1])
    BY <1>0, <1>2, <2>1, GroupCloneFacts
  <2>3. PICK gs \in Seq(Group) : Regrouped(block, b2, s0[1], gs)
    BY <2>12 DEF Refilled
  <2>4. Unique(top, b2)
    BY <1>0, <1>2, <2>1, GroupCloneFacts
  <2>5. Holds(b2, CellsIn(block), RefsIn(block) \cup N)
    BY <1>0, <1>2, <2>1, GroupCloneFacts
  <2>7. Records(top, b2) \subseteq Records(top, block) \cup N
    BY <2>5 DEF Records, Holds
  <2>8. BehindItsCell(block) => BehindItsCell(b2)
    BY <1>0, <2>3, SameBehind DEF Regrouped
  <2>9. b2 \in Seq(Node)
    BY <2>3 DEF Regrouped
  <2>10. Edited(top, block, top, b2, N)
    BY <1>0, <2>4, <2>7, <2>8, <2>9 DEF Edited
  <2> QED
    BY <2>2, <2>10 DEF b2
<1> QED
  BY <1>1, <1>3, <1>4, <1>5

LEMMA DropEdits ==
  ASSUME TreeInv, NEW S, Drops(S)
  PROVE  /\ Edited(top, block, top', block', {})
         /\ Records(top', block') = Records(top, block) \ S
<1> DEFINE gone == {k \in DOMAIN block : block[k].kind = "cell" /\ block[k].id \in S}
           kept == DOMAIN block \ gone
           b1 == Sublist(block, kept)
           b2 == WithoutRefs(b1, S)
           t2 == top \ S
<1>0. block \in Seq(Node) /\ IsFiniteSet(top) /\ Unique(top, block)
  BY DEF TreeInv
<1>1. top' = t2 /\ block' = b2
  BY DEF Drops, Dropped, Without
<1>2. kept \in SUBSET DOMAIN block
  OBVIOUS
<1> HIDE DEF kept
<1>3. Filtered(block, b1, kept)
  BY <1>0, <1>2, FilterFacts
<1>10. "loose cells" \notin Risks /\ BehindItsCell(block) => BehindItsCell(b1)
  <2> SUFFICES ASSUME "loose cells" \notin Risks, BehindItsCell(block)
               PROVE  BehindItsCell(b1)
    OBVIOUS
  <2>1. ASSUME NEW k \in kept, block[k].kind = "children"
        PROVE  k - 1 \in kept
    <3>1. k \in DOMAIN block /\ k > 1 /\ block[k - 1].kind = "cell"
      BY <1>2, <2>1 DEF BehindItsCell
    <3>2. block[k - 1].id \notin S
      BY <2>1, <3>1 DEF Drops, Bare
    <3>3. k - 1 \in DOMAIN block
      BY <1>0, <3>1, Predecessor
    <3> QED
      BY <3>2, <3>3 DEF kept
  <2> QED
    BY <1>0, <1>2, <2>1, FilteredBehind
<1> HIDE DEF b1
<1>4. Unique(top, b1)
  BY <1>0, <1>2, <1>3, FilteredRecords
<1>5. CellsIn(b1) = {block[k].id : k \in {i \in kept : block[i].kind = "cell"}}
  BY <1>0, <1>2, <1>3, FilteredRecords
<1>6. RefsIn(b1) = UNION {RefsAt(block, s) : s \in {u \in Subgroups(block) : u[1] \in kept}}
  BY <1>0, <1>2, <1>3, FilteredRecords
<1>7. CellsIn(b1) = CellsIn(block) \ S
  BY <1>5 DEF CellsIn, kept
<1>8. RefsIn(b1) = RefsIn(block)
  <2>1. \A s \in Subgroups(block) : s[1] \in kept
    BY <1>0, PlaceFacts, RefsAtFacts DEF kept
  <2>2. {u \in Subgroups(block) : u[1] \in kept} = Subgroups(block)
    BY <2>1
  <2> QED
    BY <1>6, <2>2 DEF RefsIn
<1>9. b1 \in Seq(Node)
  BY <1>3 DEF Filtered
<1>11. Thinned(b1, b2, S)
  BY <1>9, ThinFacts
<1> HIDE DEF b2
<1>12. Unique(top, b2)
  BY <1>4, <1>9, <1>11, ThinnedRecords
<1>13. CellsIn(b2) = CellsIn(b1)
  BY <1>4, <1>9, <1>11, ThinnedRecords
<1>14. RefsIn(b2) = RefsIn(b1) \ S
  BY <1>4, <1>9, <1>11, ThinnedRecords
<1>15. Unique(t2, b2)
  BY <1>12 DEF Unique
<1>16. Records(t2, b2) = Records(top, block) \ S
  BY <1>7, <1>8, <1>13, <1>14 DEF Records
<1>17. IsFiniteSet(t2)
  BY <1>0, FS_Difference
<1>18. BehindItsCell(b1) => BehindItsCell(b2)
  BY <1>9, <1>11, ThinnedShape
<1>19. b2 \in Seq(Node)
  BY <1>11 DEF Thinned
<1> HIDE DEF t2
<1>20. Edited(top, block, t2, b2, {})
  BY <1>10, <1>15, <1>16, <1>17, <1>18, <1>19 DEF Edited
<1> QED
  BY <1>1, <1>16, <1>20

LEMMA RevertEdits ==
  ASSUME TreeInv, NEW S, Reverts(S)
  PROVE  /\ Edited(top, block, top', block', {})
         /\ Filtered(block, block', DOMAIN block \ Reverted(block, S))
<1> DEFINE kept == DOMAIN block \ Reverted(block, S)
           b2 == Sublist(block, kept)
<1>0. block \in Seq(Node) /\ IsFiniteSet(top) /\ Unique(top, block)
  BY DEF TreeInv
<1>1. top' = top /\ block' = b2
  BY DEF Reverts, Without
<1>2. kept \in SUBSET DOMAIN block
  OBVIOUS
<1> HIDE DEF kept
<1>3. Filtered(block, b2, kept)
  BY <1>0, <1>2, FilterFacts
<1>4. BehindItsCell(block) => BehindItsCell(b2)
  <2> SUFFICES ASSUME BehindItsCell(block) PROVE BehindItsCell(b2)
    OBVIOUS
  <2>1. ASSUME NEW k \in kept, block[k].kind = "children"
        PROVE  k - 1 \in kept
    <3>1. k \in DOMAIN block /\ k > 1 /\ block[k - 1].kind = "cell"
      BY <1>2, <2>1 DEF BehindItsCell
    <3>2. block[k - 1].id \notin S
      <4>1. k - 1 \in DOMAIN block
        BY <1>0, <3>1
      <4> QED
        BY <2>1, <3>1, <4>1 DEF kept, Reverted
    <3>3. k - 1 \in DOMAIN block
      BY <1>0, <3>1
    <3> QED
      BY <3>1, <3>2, <3>3 DEF kept, Reverted
  <2> QED
    BY <1>0, <1>2, <2>1, FilteredBehind
<1> HIDE DEF b2
<1>5. Unique(top, b2)
  BY <1>0, <1>2, <1>3, FilteredRecords
<1>6. CellsIn(b2) = {block[k].id : k \in {i \in kept : block[i].kind = "cell"}}
  BY <1>0, <1>2, <1>3, FilteredRecords
<1>7. RefsIn(b2) = UNION {RefsAt(block, s) : s \in {u \in Subgroups(block) : u[1] \in kept}}
  BY <1>0, <1>2, <1>3, FilteredRecords
<1>8. CellsIn(b2) \subseteq CellsIn(block)
  BY <1>2, <1>6 DEF CellsIn
<1>9. RefsIn(b2) \subseteq RefsIn(block)
  BY <1>7 DEF RefsIn
<1>10. Records(top, b2) \subseteq Records(top, block) \cup {}
  BY <1>8, <1>9 DEF Records
<1>11. b2 \in Seq(Node)
  BY <1>3 DEF Filtered
<1>12. Edited(top, block, top, b2, {})
  BY <1>0, <1>4, <1>5, <1>10, <1>11 DEF Edited
<1> QED
  BY <1>1, <1>3, <1>12 DEF kept

LEMMA EffectEdits ==
  ASSUME TreeInv, NEW N \in SUBSET Id, IsFiniteSet(N), N \cap Records(top, block) = {},
         NEW asked, Effect(N, asked)
  PROVE  Edited(top, block, top', block', N)
<1>1. CASE Stays
  BY <1>1 DEF Stays, Edited, TreeInv
<1>2. CASE Puts(N)
  BY <1>2, PutEdits
<1>3. CASE \E seed : Clones(seed, N)
  BY <1>3, CloneEdits
<1>4. CASE N = {} /\ Drops(asked)
  BY <1>4, DropEdits
<1>5. CASE N = {} /\ Reverts(asked)
  BY <1>5, RevertEdits
<1> QED
  BY <1>1, <1>2, <1>3, <1>4, <1>5 DEF Effect
\* The records a plugin is given have ids, and no call takes one twice.
LEMMA InitTree == Init => TreeInv
<1> SUFFICES ASSUME Init PROVE TreeInv
  OBVIOUS
<1>1. PICK p \in Given : /\ top = p.top /\ block = p.block
                         /\ issued = Records(p.top, p.block)
  BY DEF Init
<1>2. IsFiniteSet(p.top) /\ p.block \in Seq(Node) /\ Unique(p.top, p.block)
  BY GivenAssumption DEF WellFormed
<1> QED
  BY <1>1, <1>2 DEF TreeInv

LEMMA StepEdits ==
  ASSUME "wrap" \notin Risks, MintInv, TreeInv, Next
  PROVE  /\ Effect(answer'.new, answer'.asked)
         /\ Edited(top, block, top', block', answer'.new)
         /\ issued' = issued \cup answer'.new
         /\ answer'.new \in SUBSET Id /\ IsFiniteSet(answer'.new)
         /\ answer'.new \cap Records(top, block) = {}
<1> DEFINE N == answer'.new
<1>1. block \in Seq(Node) /\ nextObject \in Nat
  BY DEF TreeInv, MintInv
<1>2. Effect(N, answer'.asked) /\ IsFiniteSet(N) /\ issued' = issued \cup N
  BY <1>1, OpsEffect, LegacyEffect DEF Next
<1>3. MintInv' /\ N \cap issued = {}
  BY OpsFresh, LegacyFresh DEF Next
<1> HIDE DEF N
<1>4. issued' \subseteq Id
  BY <1>3 DEF MintInv
<1>5. N \in SUBSET Id
  BY <1>2, <1>4
<1>6. N \cap Records(top, block) = {}
  BY <1>3 DEF TreeInv
<1>7. Edited(top, block, top', block', N)
  BY <1>2, <1>5, <1>6, EffectEdits
<1> QED
  BY <1>2, <1>5, <1>6, <1>7 DEF N

LEMMA StepTree ==
  ASSUME "wrap" \notin Risks, MintInv, TreeInv, [Next]_vars
  PROVE  MintInv' /\ TreeInv'
<1>1. MintInv'
  BY StepFresh
<1>2. CASE Next
  <2>1. Edited(top, block, top', block', answer'.new) /\ issued' = issued \cup answer'.new
    BY <1>2, StepEdits
  <2> QED
    BY <1>1, <2>1 DEF TreeInv, Edited
<1>3. CASE UNCHANGED vars
  BY <1>1, <1>3 DEF TreeInv, vars, plugin
<1> QED
  BY <1>2, <1>3

\* No form id is ever that of two records, whichever server's tools edit the
\* plugin in whatever order and whatever they clone, delete or leave detached:
\* as long as the older engine does not run out of object ids.
THEOREM NoIdTwice ==
  ASSUME "wrap" \notin Risks
  PROVE  Spec => []IdsUnique
<1>1. MintInv /\ TreeInv /\ [Next]_vars => MintInv' /\ TreeInv'
  BY StepTree
<1>2. TreeInv => IdsUnique
  BY DEF TreeInv, IdsUnique
<1> QED
  BY <1>1, <1>2, InitMint, InitTree, PTL DEF Spec

\* A children group is right behind its own cell, and stays there whatever is
\* inserted, cloned or deleted, as long as no cell is cloned that has one and
\* none is deleted without it: delete_cells takes the node behind a cell for
\* its children.
THEOREM ChildrenStayBehind ==
  ASSUME "wrap" \notin Risks, "loose cells" \notin Risks
  PROVE  Spec => []ChildrenBehindCell
<1>1. Init => ChildrenBehindCell
  BY GivenAssumption DEF Init, WellFormed, ChildrenBehindCell
<1>2. MintInv /\ TreeInv /\ ChildrenBehindCell /\ [Next]_vars => ChildrenBehindCell'
  <2> SUFFICES ASSUME MintInv, TreeInv, ChildrenBehindCell, [Next]_vars
               PROVE  ChildrenBehindCell'
    OBVIOUS
  <2>1. CASE Next
    BY <2>1, StepEdits DEF Edited, ChildrenBehindCell
  <2>2. CASE UNCHANGED vars
    BY <2>2 DEF vars, plugin, ChildrenBehindCell
  <2> QED
    BY <2>1, <2>2
<1>3. MintInv /\ TreeInv /\ [Next]_vars => MintInv' /\ TreeInv'
  BY StepTree
<1> QED
  BY <1>1, <1>2, <1>3, InitMint, InitTree, PTL DEF Spec
-----------------------------------------------------------------------------
(* What delete_cells takes with it.                                        *)

LEMMA BelowFacts ==
  ASSUME NEW b, NEW k \in DOMAIN b
  PROVE  \A x : x \in RefsBelow(b, k) <=>
           \E j \in DOMAIN b[k].groups : x \in RefsAt(b, <<k, j>>)
BY DEF RefsBelow, RefsAt

\* A delete_cells of either engine.
LEMMA CellsCall ==
  ASSUME Next, answer'.tool = "delete_cells"
  PROVE  Reverts(answer'.asked)
<1>1. ASSUME NEW S, DeleteCells(S) \/ LegacyDeleteCells(S)
      PROVE  Reverts(answer'.asked)
  BY <1>1 DEF DeleteCells, LegacyDeleteCells, Answers, Reverts
<1>2. ASSUME NEW c, InsertRef(c) \/ LegacyInsertRef(c)
      PROVE  FALSE
  BY <1>2 DEF InsertRef, LegacyInsertRef, Answers
<1>3. ASSUME NEW seed, NEW n, NEW c,
             CloneCluster(seed, n, c) \/ LegacyCloneCluster(seed, n, c)
      PROVE  FALSE
  BY <1>3 DEF CloneCluster, LegacyCloneCluster, Answers
<1>4. ASSUME NEW seed, NEW n, CloneDetached(seed, n) \/ LegacyCloneDetached(seed, n)
      PROVE  FALSE
  BY <1>4 DEF CloneDetached, LegacyCloneDetached, Answers
<1>5. ASSUME NEW seed, CloneRecord(seed) \/ LegacyCloneRecord(seed)
      PROVE  FALSE
  <2>1. CASE CloneRecord(seed)
    BY <2>1 DEF CloneRecord, Answers
  <2>2. CASE LegacyCloneRecord(seed)
    BY <2>2 DEF LegacyCloneRecord, Answers
  <2> QED
    BY <1>5, <2>1, <2>2
<1>6. ASSUME NEW S, DeleteRecords(S) \/ LegacyDeleteRecords(S)
      PROVE  FALSE
  <2>1. CASE DeleteRecords(S)
    BY <2>1 DEF DeleteRecords, Answers
  <2>2. CASE LegacyDeleteRecords(S)
    BY <2>2 DEF LegacyDeleteRecords, Answers
  <2> QED
    BY <1>6, <2>1, <2>2
<1>7. ASSUME NEW name, AddMaster(name)
      PROVE  FALSE
  BY <1>7 DEF AddMaster, Answers
<1>8. ASSUME NEW old, NEW new, RenameMaster(old, new)
      PROVE  FALSE
  BY <1>8 DEF RenameMaster, Answers
<1> QED
  BY <1>1, <1>2, <1>3, <1>4, <1>5, <1>6, <1>7, <1>8 DEF Next, OpsNext, LegacyNext

LEMMA RevertTakesOwn ==
  ASSUME TreeInv, BehindItsCell(block), NEW S, Reverts(S),
         NEW below, below = UNION {RefsBelow(block, k) : k \in
           {i \in DOMAIN block : block[i].kind = "children" /\ block[i].id \in S}}
  PROVE  Records(top', block') = Records(top, block) \ (S \cup below)
<1> DEFINE b2 == block'
           kept == DOMAIN block \ Reverted(block, S)
           places == {u \in Subgroups(block) : u[1] \in kept}
<1>0. block \in Seq(Node) /\ Unique(top, block) /\ S \subseteq CellsIn(block) /\ top' = top
  BY DEF TreeInv, Reverts
<1>1. Filtered(block, b2, kept) /\ kept \in SUBSET DOMAIN block
  BY RevertEdits
<1> HIDE DEF b2
\* Which nodes go.
<1>2. ASSUME NEW k \in DOMAIN block
      PROVE  k \notin kept <=> block[k].id \in S
  <2>1. block[k].kind \in {"cell", "children"}
    BY <1>0, NodeFacts
  <2>2. CASE block[k].kind = "cell"
    BY <2>2 DEF kept, Reverted
  <2>3. CASE block[k].kind = "children"
    <3>1. k > 1 /\ block[k - 1].kind = "cell" /\ block[k - 1].id = block[k].id
      BY <2>3 DEF BehindItsCell
    <3>2. k - 1 \in DOMAIN block
      BY <1>0, <3>1, Predecessor
    <3> QED
      BY <2>3, <3>1, <3>2 DEF kept, Reverted
  <2> QED
    BY <2>1, <2>2, <2>3
<1> HIDE DEF kept
<1>3. CellsIn(b2) = {block[k].id : k \in {i \in kept : block[i].kind = "cell"}}
  BY <1>0, <1>1, FilteredRecords
<1>4. RefsIn(b2) = UNION {RefsAt(block, s) : s \in places}
  BY <1>0, <1>1, FilteredRecords
<1>5. CellsIn(b2) = CellsIn(block) \ S
  BY <1>1, <1>2, <1>3 DEF CellsIn
\* The records below are those of the groups that go.
<1>6. ASSUME NEW x
      PROVE  x \in below <=> \E s \in Subgroups(block) : s \notin places /\ x \in RefsAt(block, s)
  <2>1. ASSUME x \in below
        PROVE  \E s \in Subgroups(block) : s \notin places /\ x \in RefsAt(block, s)
    <3>1. PICK k \in DOMAIN block : block[k].id \in S /\ x \in RefsBelow(block, k)
      BY <2>1
    <3>2. PICK j \in DOMAIN block[k].groups : x \in RefsAt(block, <<k, j>>)
      BY <3>1, BelowFacts
    <3>3. <<k, j>> \in Subgroups(block) /\ <<k, j>> \notin places
      BY <1>2, <3>1, PlaceFacts
    <3> QED
      BY <3>2, <3>3
  <2>2. ASSUME NEW s \in Subgroups(block), s \notin places, x \in RefsAt(block, s)
        PROVE  x \in below
    <3>1. /\ s = <<s[1], s[2]>> /\ s[1] \in DOMAIN block
          /\ s[2] \in DOMAIN block[s[1]].groups /\ block[s[1]].kind = "children"
      BY <1>0, PlaceFacts, RefsAtFacts
    <3>2. block[s[1]].id \in S
      BY <1>2, <2>2, <3>1
    <3>3. x \in RefsBelow(block, s[1])
      BY <2>2, <3>1, BelowFacts
    <3> QED
      BY <3>1, <3>2, <3>3
  <2> QED
    BY <2>1, <2>2
<1>7. RefsIn(b2) = RefsIn(block) \ below
  <2>1. ASSUME NEW x \in RefsIn(b2) PROVE x \in RefsIn(block) /\ x \notin below
    <3>1. PICK s \in places : x \in RefsAt(block, s)
      BY <1>4, <2>1
    <3>2. ASSUME NEW u \in Subgroups(block), u \notin places PROVE x \notin RefsAt(block, u)
      BY <1>0, <3>1, <3>2 DEF Unique
    <3> QED
      BY <1>6, <3>1, <3>2 DEF RefsIn
  <2>2. ASSUME NEW x \in RefsIn(block), x \notin below PROVE x \in RefsIn(b2)
    <3>1. PICK s \in Subgroups(block) : x \in RefsAt(block, s)
      BY DEF RefsIn
    <3>2. s \in places
      BY <1>6, <2>2, <3>1
    <3> QED
      BY <1>4, <3>1, <3>2
  <2> QED
    BY <2>1, <2>2
<1>8. below \subseteq RefsIn(block)
  BY <1>6 DEF RefsIn
<1> HIDE DEF places
<1>9. top \cap CellsIn(block) = {} /\ (top \cup CellsIn(block)) \cap RefsIn(block) = {}
  BY <1>0 DEF Unique
<1>10. Records(top, b2) = Records(top, block) \ (S \cup below)
  BY <1>0, <1>5, <1>7, <1>8, <1>9 DEF Records
<1> QED
  BY <1>0, <1>10 DEF b2

\* delete_cells removes the cells it is asked for and the records of their own
\* children groups, and nothing else, as long as every children group is where
\* ChildrenStayBehind says.
THEOREM DeletedWithTheirOwn ==
  ASSUME "wrap" \notin Risks, "loose cells" \notin Risks
  PROVE  Spec => OwnChildrenGo
<1>1. TreeInv /\ ChildrenBehindCell /\ [Next]_vars =>
        [answer'.tool = "delete_cells" =>
           LET S == answer'.asked
               below == UNION {RefsBelow(block, k) : k \in
                          {i \in DOMAIN block : block[i].kind = "children" /\ block[i].id \in S}}
           IN  Records(top', block') = Records(top, block) \ (S \cup below)]_vars
  <2> SUFFICES ASSUME TreeInv, ChildrenBehindCell, Next, answer'.tool = "delete_cells"
               PROVE  LET S == answer'.asked
                          below == UNION {RefsBelow(block, k) : k \in
                            {i \in DOMAIN block : block[i].kind = "children" /\ block[i].id \in S}}
                      IN  Records(top', block') = Records(top, block) \ (S \cup below)
    OBVIOUS
  <2>1. Reverts(answer'.asked) /\ BehindItsCell(block)
    BY CellsCall DEF ChildrenBehindCell
  <2> QED
    BY <2>1, RevertTakesOwn
<1>2. MintInv /\ TreeInv /\ [Next]_vars => MintInv' /\ TreeInv'
  BY StepTree
<1> QED
  BY <1>1, <1>2, InitMint, InitTree, ChildrenStayBehind, PTL DEF Spec, OwnChildrenGo
-----------------------------------------------------------------------------
(* The order of the groups of a cell.                                      *)

LEMMA AddedOrder ==
  ASSUME NEW gs \in Seq(Group), NEW N \in SUBSET Id, IsFiniteSet(N),
         \A i, j \in DOMAIN gs : i < j => gs[i].type < gs[j].type,
         NEW e, e = EnsurePersistent(gs), NEW new, new = AddRefs(e, N)
  PROVE  \A i, j \in DOMAIN new : i < j => new[i].type < new[j].type
<1>1. Ensures(gs, e)
  BY BothEnsure
<1>2. e \in Seq(Group) /\ HasPersistent(e)
  BY <1>1 DEF Ensures
<1>3. DOMAIN new = DOMAIN e /\ \A j \in DOMAIN e : new[j].type = e[j].type
  BY <1>2, AddRefsFacts
<1>4. \A i, j \in DOMAIN e : i < j => e[i].type < e[j].type
  <2>1. CASE HasPersistent(gs)
    BY <2>1 DEF EnsurePersistent
  <2>2. CASE ~ HasPersistent(gs)
    <3>1. e = <<EmptyPersistent>> \o gs
      BY <2>2 DEF EnsurePersistent, EmptyPersistent
    <3>2. /\ e[1] = EmptyPersistent
          /\ \A j \in DOMAIN gs : e[j + 1] = gs[j]
          /\ DOMAIN e = 1 .. (Len(gs) + 1)
      BY <2>2, <3>1, EnsuredInFront
    <3>3. PICK n \in Nat : n = Len(gs) /\ DOMAIN gs = 1 .. n
      OBVIOUS
    <3>4. \A j \in DOMAIN gs : gs[j].type \in {Temporary, VisibleDistant}
      <4> TAKE j \in DOMAIN gs
      <4>1. gs[j] \in Group
        OBVIOUS
      <4>2. gs[j].type # Persistent
        BY <2>2 DEF HasPersistent
      <4> QED
        BY <4>1, <4>2 DEF Group
    <3>5. \A j \in DOMAIN e : j # 1 => j - 1 \in DOMAIN gs /\ e[j] = gs[j - 1]
      <4> SUFFICES ASSUME NEW j \in DOMAIN e, j # 1
                   PROVE  j - 1 \in DOMAIN gs /\ e[j] = gs[j - 1]
        OBVIOUS
      <4>1. j - 1 \in DOMAIN gs /\ (j - 1) + 1 = j
        BY <3>2, <3>3
      <4> QED
        BY <3>2, <4>1
    <3> SUFFICES ASSUME NEW i \in DOMAIN e, NEW j \in DOMAIN e, i < j
                 PROVE  e[i].type < e[j].type
      OBVIOUS
    <3>6. i \in Int /\ j \in Int /\ 1 <= i /\ j # 1
      BY <3>2, <3>3
    <3>7. j - 1 \in DOMAIN gs /\ e[j] = gs[j - 1]
      BY <3>5, <3>6
    <3>8. CASE i = 1
      BY <3>2, <3>4, <3>7, <3>8
      DEF EmptyPersistent, Persistent, Temporary, VisibleDistant
    <3>9. CASE i # 1
      <4>1. i - 1 \in DOMAIN gs /\ e[i] = gs[i - 1]
        BY <3>5, <3>9
      <4>2. i - 1 < j - 1
        BY <3>6
      <4> QED
        BY <3>7, <4>1, <4>2
    <3> QED
      BY <3>8, <3>9
  <2> QED
    BY <2>1, <2>2
<1> QED
  BY <1>3, <1>4

LEMMA RegroupedOrder ==
  ASSUME NEW b, Ordered(b), NEW k \in DOMAIN b, NEW gs, NEW b2,
         Regrouped(b, b2, k, gs),
         \A i, j \in DOMAIN gs : i < j => gs[i].type < gs[j].type
  PROVE  Ordered(b2)
BY DEF Ordered, Regrouped

\* A call of ops leaves the groups in their order.
LEMMA OpsOrder ==
  ASSUME MintInv, TreeInv, OpsNext, Ordered(block)
  PROVE  Ordered(block')
<1>0. block \in Seq(Node) /\ Unique(top, block)
  BY DEF TreeInv
<1>1. MintInv' /\ answer'.new \cap issued = {}
  BY OpsFresh
<1>2. IsFiniteSet(answer'.new) /\ issued' = issued \cup answer'.new
  BY <1>0, OpsEffect
<1>3. answer'.new \in SUBSET Id /\ answer'.new \cap Records(top, block) = {}
  BY <1>1, <1>2 DEF MintInv, TreeInv
<1>4. ASSUME NEW c, HasChildren(c), NEW N, N = answer'.new, PutInCell(c, N)
      PROVE  Ordered(block')
  <2> DEFINE b2 == block'
  <2>1. PICK k \in DOMAIN block : k = ChildrenOf(c) /\ block[k].kind = "children"
    BY <1>0, <1>4, ChildrenFacts
  <2>2. PICK gs \in Seq(Group) : gs = block[k].groups
    BY <1>0, NodeFacts
  <2> DEFINE e == EnsurePersistent(gs)
             new == AddRefs(e, N)
  <2>3. b2 = [block EXCEPT ![k].groups = new]
    BY <1>4, <2>1, <2>2 DEF PutInCell
  <2>4. Ensures(gs, e)
    BY BothEnsure
  <2>5. e = EnsurePersistent(gs) /\ new = AddRefs(e, N)
    OBVIOUS
  <2>6. \A i, j \in DOMAIN gs : i < j => gs[i].type < gs[j].type
    BY <2>2 DEF Ordered
  <2>10. IsFiniteSet(N) /\ N \in SUBSET Id
    BY <1>2, <1>3, <1>4
  <2> HIDE DEF b2, e, new
  <2>7. \A i, j \in DOMAIN new : i < j => new[i].type < new[j].type
    BY <2>5, <2>6, <2>10, AddedOrder
  <2>8. new \in Seq(Group)
    BY <2>4, <2>5, <2>10, AddRefsFacts DEF Ensures
  <2>9. Regrouped(block, b2, k, new)
    BY <1>0, <2>1, <2>3, <2>8, GroupsAt
  <2>11. Ordered(b2)
    BY <2>7, <2>9, RegroupedOrder
  <2> QED
    BY <2>11 DEF b2
<1>5. ASSUME NEW seed, CloneRecord(seed)
      PROVE  Ordered(block')
  <2>1. PICK clone \in Minted(1) : \/ CloneInTop(seed, clone)
                                   \/ CloneInBlock(seed, clone)
                                   \/ CloneInGroup(seed, clone)
    BY <1>5 DEF CloneRecord
  <2>2. answer'.new = Minted(1)
    BY <1>5 DEF CloneRecord, Answers
  <2>3. clone \in Id /\ clone \notin Records(top, block)
    BY <1>3, <2>1, <2>2
  <2>4. CASE CloneInTop(seed, clone)
    BY <2>4 DEF CloneInTop
  <2>5. CASE CloneInBlock(seed, clone)
    <3> DEFINE c == [kind |-> "cell", id |-> clone, groups |-> <<>>]
               b2 == block'
    <3>1. PICK k \in DOMAIN block :
            b2 = SubSeq(block, 1, k) \o <<c>> \o SubSeq(block, k + 1, Len(block))
      BY <2>5 DEF CloneInBlock
    <3>2. c = [kind |-> "cell", id |-> clone, groups |-> <<>>]
      OBVIOUS
    <3> HIDE DEF b2, c
    <3>3. Widened(block, b2, k, c)
      BY <1>0, <2>3, <3>1, <3>2, CellCloneFacts
    <3>4. c.groups = <<>>
      BY <3>2
    <3>5. Ordered(b2)
      BY <1>0, <3>3, <3>4, WidenedOrder
    <3> QED
      BY <3>5 DEF b2
  <2>6. CASE CloneInGroup(seed, clone)
    <3> DEFINE b2 == block'
               N == {clone}
    <3>1. PICK s0 \in Subgroups(block) :
            b2 = [block EXCEPT ![s0[1]].groups[s0[2]].refs = @ \cup N]
      BY <2>6 DEF CloneInGroup
    <3>2. N \in SUBSET Id /\ N \cap Records(top, block) = {} /\ IsFiniteSet(N)
      BY <2>3, FS_Singleton
    <3> HIDE DEF b2, N
    <3>7. Refilled(block, b2, s0[1])
      BY <1>0, <3>1, <3>2, GroupCloneFacts
    <3>3. PICK gs \in Seq(Group) :
            /\ Regrouped(block, b2, s0[1], gs)
            /\ DOMAIN gs = DOMAIN block[s0[1]].groups
            /\ \A j \in DOMAIN gs : gs[j].type = block[s0[1]].groups[j].type
      BY <3>7 DEF Refilled
    <3>4. s0[1] \in DOMAIN block
      BY PlaceFacts
    <3>5. \A i, j \in DOMAIN gs : i < j => gs[i].type < gs[j].type
      BY <3>3, <3>4 DEF Ordered
    <3>6. Ordered(b2)
      BY <3>3, <3>4, <3>5, RegroupedOrder
    <3> QED
      BY <3>6 DEF b2
  <2> QED
    BY <2>1, <2>4, <2>5, <2>6
<1>6. ASSUME NEW S, DeleteRecords(S)
      PROVE  Ordered(block')
  <2> DEFINE kept == DOMAIN block \
                       {k \in DOMAIN block : block[k].kind = "cell" /\ block[k].id \in S}
             b1 == Sublist(block, kept)
             b2 == WithoutRefs(b1, S)
  <2>1. block' = b2
    BY <1>6 DEF DeleteRecords, Dropped, Without
  <2>2. kept \in SUBSET DOMAIN block
    OBVIOUS
  <2> HIDE DEF kept
  <2>3. Filtered(block, b1, kept)
    BY <1>0, <2>2, FilterFacts
  <2> HIDE DEF b1
  <2>4. Ordered(b1) /\ b1 \in Seq(Node)
    BY <1>0, <2>2, <2>3, FilteredOrder DEF Filtered
  <2>5. Thinned(b1, b2, S)
    BY <2>4, ThinFacts
  <2> HIDE DEF b2
  <2>6. Ordered(b2)
    BY <2>4, <2>5, ThinnedShape
  <2> QED
    BY <2>1, <2>6
<1>7. ASSUME NEW S, DeleteCells(S)
      PROVE  Ordered(block')
  <2> DEFINE kept == DOMAIN block \ Reverted(block, S)
             b2 == Sublist(block, kept)
  <2>1. block' = b2
    BY <1>7 DEF DeleteCells, Without
  <2>2. kept \in SUBSET DOMAIN block
    OBVIOUS
  <2> HIDE DEF kept
  <2>3. Filtered(block, b2, kept)
    BY <1>0, <2>2, FilterFacts
  <2> HIDE DEF b2
  <2>4. Ordered(b2)
    BY <1>0, <2>2, <2>3, FilteredOrder
  <2> QED
    BY <2>1, <2>4
<1>8. ASSUME NEW c, InsertRef(c)
      PROVE  Ordered(block')
  BY <1>4, <1>8 DEF InsertRef, Answers
<1>9. ASSUME NEW seed, NEW n, NEW c, CloneCluster(seed, n, c)
      PROVE  Ordered(block')
  BY <1>4, <1>9 DEF CloneCluster, Answers
<1>10. ASSUME NEW seed, NEW n, CloneDetached(seed, n)
       PROVE  Ordered(block')
  BY <1>10 DEF CloneDetached
<1>11. ASSUME NEW name, AddMaster(name)
       PROVE  Ordered(block')
  BY <1>11 DEF AddMaster
<1>12. ASSUME NEW old, NEW new, RenameMaster(old, new)
       PROVE  Ordered(block')
  BY <1>12 DEF RenameMaster
<1> QED
  BY <1>5, <1>6, <1>7, <1>8, <1>9, <1>10, <1>11, <1>12 DEF OpsNext

\* A call of edit is answered by edit.
LEMMA LegacyAnswers ==
  ASSUME LegacyNext
  PROVE  answer'.engine = "edit"
<1>1. ASSUME NEW c, LegacyInsertRef(c) PROVE answer'.engine = "edit"
  BY <1>1 DEF LegacyInsertRef, Answers
<1>2. ASSUME NEW seed, NEW n, NEW c, LegacyCloneCluster(seed, n, c)
      PROVE  answer'.engine = "edit"
  BY <1>2 DEF LegacyCloneCluster, Answers
<1>3. ASSUME NEW seed, NEW n, LegacyCloneDetached(seed, n) PROVE answer'.engine = "edit"
  BY <1>3 DEF LegacyCloneDetached, Answers
<1>4. ASSUME NEW seed, LegacyCloneRecord(seed) PROVE answer'.engine = "edit"
  BY <1>4 DEF LegacyCloneRecord, Answers
<1>5. ASSUME NEW S, LegacyDeleteRecords(S) PROVE answer'.engine = "edit"
  BY <1>5 DEF LegacyDeleteRecords, Answers
<1>6. ASSUME NEW S, LegacyDeleteCells(S) PROVE answer'.engine = "edit"
  BY <1>6 DEF LegacyDeleteCells, Answers
<1> QED
  BY <1>1, <1>2, <1>3, <1>4, <1>5, <1>6 DEF LegacyNext

\* The newer engine never moves a cell's persistent group behind its temporary
\* one, nor gives a cell two of a kind: what _ensure_persistent_group puts in
\* front is the only group that is missing.
THEOREM GroupsKeepTheirOrder ==
  ASSUME "wrap" \notin Risks
  PROVE  Spec => OrderKept
<1>1. MintInv /\ TreeInv /\ [Next]_vars =>
        [answer'.engine = "ops" /\ Ordered(block) => Ordered(block')]_vars
  <2> SUFFICES ASSUME MintInv, TreeInv, Next, answer'.engine = "ops", Ordered(block)
               PROVE  Ordered(block')
    OBVIOUS
  <2>1. ~ LegacyNext
    BY LegacyAnswers
  <2> QED
    BY <2>1, OpsOrder DEF Next
<1>2. MintInv /\ TreeInv /\ [Next]_vars => MintInv' /\ TreeInv'
  BY StepTree
<1> QED
  BY <1>1, <1>2, InitMint, InitTree, PTL DEF Spec, OrderKept
-----------------------------------------------------------------------------
(* How many records and groups there are.                                  *)

LEMMA FiniteImage ==
  ASSUME NEW S, NEW T, NEW f \in [S -> T], IsFiniteSet(S),
         \A y \in T : \E x \in S : f[x] = y
  PROVE  IsFiniteSet(T)
<1>1. f \in Surjection(S, T)
  BY DEF Surjection
<1> QED
  BY <1>1, FS_Surjection

\* The groups and the records of a sub-block are finitely many.
LEMMA PlacesFinite ==
  ASSUME NEW b \in Seq(Node)
  PROVE  /\ IsFiniteSet(Subgroups(b))
         /\ IsFiniteSet(CellsIn(b))
         /\ IsFiniteSet(RefsIn(b))
<1>1. IsFiniteSet(DOMAIN b)
  <2>1. PICK n \in Nat : DOMAIN b = 1 .. n
    OBVIOUS
  <2> QED
    BY <2>1, FS_Interval
<1>2. ASSUME NEW k \in DOMAIN b PROVE IsFiniteSet({k} \X DOMAIN b[k].groups)
  <2>1. PICK n \in Nat : DOMAIN b[k].groups = 1 .. n
    BY NodeFacts
  <2>2. IsFiniteSet(DOMAIN b[k].groups)
    BY <2>1, FS_Interval
  <2>3. IsFiniteSet({k})
    BY FS_Singleton
  <2> QED
    BY <2>2, <2>3, FS_Product
<1>3. IsFiniteSet(Subgroups(b))
  <2> DEFINE T == {{k} \X DOMAIN b[k].groups : k \in DOMAIN b}
             f == [k \in DOMAIN b |-> {k} \X DOMAIN b[k].groups]
  <2>1. f \in [DOMAIN b -> T] /\ \A y \in T : \E x \in DOMAIN b : f[x] = y
    OBVIOUS
  <2>2. \A y \in T : IsFiniteSet(y)
    BY <1>2
  <2>3. Subgroups(b) = UNION T
    BY DEF Subgroups
  <2> HIDE DEF T, f
  <2>4. IsFiniteSet(T)
    BY <1>1, <2>1, FiniteImage
  <2> QED
    BY <2>2, <2>3, <2>4, FS_UNION
<1>4. IsFiniteSet(CellsIn(b))
  <2> DEFINE S == {i \in DOMAIN b : b[i].kind = "cell"}
             f == [k \in S |-> b[k].id]
             T == CellsIn(b)
  <2>1. f \in [S -> T] /\ \A y \in T : \E x \in S : f[x] = y
    BY DEF CellsIn
  <2>2. S \in SUBSET DOMAIN b
    OBVIOUS
  <2> HIDE DEF S, f, T
  <2>3. IsFiniteSet(S)
    BY <1>1, <2>2, FS_Subset
  <2>4. IsFiniteSet(T)
    BY <2>1, <2>3, FiniteImage
  <2> QED
    BY <2>4 DEF T
<1>5. IsFiniteSet(RefsIn(b))
  <2> DEFINE T == {RefsAt(b, s) : s \in Subgroups(b)}
             f == [s \in Subgroups(b) |-> RefsAt(b, s)]
  <2>1. f \in [Subgroups(b) -> T] /\ \A y \in T : \E x \in Subgroups(b) : f[x] = y
    OBVIOUS
  <2>2. \A y \in T : IsFiniteSet(y)
    BY RefsAtFacts
  <2>3. RefsIn(b) = UNION T
    BY DEF RefsIn
  <2> HIDE DEF T, f
  <2>4. IsFiniteSet(T)
    BY <1>3, <2>1, FiniteImage
  <2> QED
    BY <2>2, <2>3, <2>4, FS_UNION
<1> QED
  BY <1>3, <1>4, <1>5

\* A record that is in one group only is counted once.
Count(t, b) ==
  Cardinality(t) + Len(b) + Cardinality(Subgroups(b)) + Cardinality(RefsIn(b))

LEMMA SizeIsCount ==
  ASSUME NEW t, NEW b \in Seq(Node), Unique(t, b)
  PROVE  Size(t, b) = Count(t, b)
<1> DEFINE pairs == {n \in Subgroups(b) \X RefsIn(b) : n[2] \in RefsAt(b, n[1])}
           f == [n \in pairs |-> n[2]]
           refs == RefsIn(b)
<1>1. IsFiniteSet(pairs)
  <2>1. IsFiniteSet(Subgroups(b) \X RefsIn(b))
    BY PlacesFinite, FS_Product
  <2>2. pairs \in SUBSET (Subgroups(b) \X RefsIn(b))
    OBVIOUS
  <2> QED
    BY <2>1, <2>2, FS_Subset
<1>2. f \in [pairs -> refs]
  OBVIOUS
<1>3. \A x, y \in pairs : x # y => f[x] # f[y]
  <2> SUFFICES ASSUME NEW x \in pairs, NEW y \in pairs, f[x] = f[y]
               PROVE  x = y
    OBVIOUS
  <2>1. /\ x = <<x[1], x[2]>> /\ x[1] \in Subgroups(b) /\ x[2] \in RefsAt(b, x[1])
        /\ y = <<y[1], y[2]>> /\ y[1] \in Subgroups(b) /\ y[2] \in RefsAt(b, y[1])
    OBVIOUS
  <2>2. x[2] = y[2]
    OBVIOUS
  <2>3. x[1] = y[1]
    BY <2>1, <2>2 DEF Unique
  <2> QED
    BY <2>1, <2>2, <2>3
<1>4. \A y \in refs : \E x \in pairs : f[x] = y
  <2> TAKE y \in refs
  <2>1. PICK s \in Subgroups(b) : y \in RefsAt(b, s)
    BY DEF RefsIn
  <2>2. <<s, y>> \in pairs /\ f[<<s, y>>] = y
    BY <2>1
  <2> QED
    BY <2>2
<1>5. Cardinality(refs) = Cardinality(pairs)
  <2> HIDE DEF pairs, f, refs
  <2> QED
    BY <1>1, <1>2, <1>3, <1>4, Corresponding
<1> QED
  BY <1>5 DEF Size, Count

\* The parts of a count are numbers.
LEMMA CountParts ==
  ASSUME NEW t, IsFiniteSet(t), NEW b \in Seq(Node)
  PROVE  /\ Cardinality(t) \in Nat /\ Len(b) \in Nat
         /\ Cardinality(Subgroups(b)) \in Nat /\ Cardinality(RefsIn(b)) \in Nat
BY PlacesFinite, FS_CardinalityType

\* The nodes of b2 that have groups are those of b, elsewhere.
Moves(b, b2, from) ==
  /\ \A l \in DOMAIN b2 : DOMAIN b2[l].groups # {} =>
       from[l] \in DOMAIN b /\ b2[l].groups = b[from[l]].groups
  /\ \A l, m \in DOMAIN b2 :
       l # m /\ DOMAIN b2[l].groups # {} /\ DOMAIN b2[m].groups # {} =>
         from[l] # from[m]
  /\ \A k \in DOMAIN b : DOMAIN b[k].groups # {} =>
       \E l \in DOMAIN b2 : from[l] = k /\ b2[l].groups = b[k].groups

\* Groups that only move with their node are as many as before.
LEMMA MovedGroups ==
  ASSUME NEW b \in Seq(Node), NEW b2, NEW from, Moves(b, b2, from)
  PROVE  Cardinality(Subgroups(b2)) = Cardinality(Subgroups(b))
<1> DEFINE g == [s \in Subgroups(b2) |-> <<from[s[1]], s[2]>>]
           old == Subgroups(b)
           new == Subgroups(b2)
<1>1. ASSUME NEW s \in new
      PROVE  /\ s = <<s[1], s[2]>> /\ s[1] \in DOMAIN b2
             /\ s[2] \in DOMAIN b2[s[1]].groups /\ g[s] \in old
             /\ g[s] = <<from[s[1]], s[2]>>
  <2>1. s = <<s[1], s[2]>> /\ s[1] \in DOMAIN b2 /\ s[2] \in DOMAIN b2[s[1]].groups
    BY PlaceFacts
  <2>2. from[s[1]] \in DOMAIN b /\ s[2] \in DOMAIN b[from[s[1]]].groups
    BY <2>1 DEF Moves
  <2>3. <<from[s[1]], s[2]>> \in old
    BY <2>2, PlaceFacts
  <2> QED
    BY <2>1, <2>3
<1>2. \A x, y \in new : x # y => g[x] # g[y]
  <2> SUFFICES ASSUME NEW x \in new, NEW y \in new, x # y
               PROVE  g[x] # g[y]
    OBVIOUS
  <2>1. /\ x = <<x[1], x[2]>> /\ x[1] \in DOMAIN b2 /\ x[2] \in DOMAIN b2[x[1]].groups
        /\ y = <<y[1], y[2]>> /\ y[1] \in DOMAIN b2 /\ y[2] \in DOMAIN b2[y[1]].groups
        /\ g[x] = <<from[x[1]], x[2]>> /\ g[y] = <<from[y[1]], y[2]>>
    BY <1>1
  <2>2. x[1] # y[1] \/ x[2] # y[2]
    BY <2>1
  <2>3. x[1] # y[1] => from[x[1]] # from[y[1]]
    BY <2>1 DEF Moves
  <2> QED
    BY <2>1, <2>2, <2>3
<1>3. \A y \in old : \E x \in new : g[x] = y
  <2> TAKE y \in old
  <2>1. y = <<y[1], y[2]>> /\ y[1] \in DOMAIN b /\ y[2] \in DOMAIN b[y[1]].groups
    BY PlaceFacts
  <2>2. PICK l \in DOMAIN b2 : from[l] = y[1] /\ b2[l].groups = b[y[1]].groups
    BY <2>1 DEF Moves
  <2>3. <<l, y[2]>> \in new
    BY <2>1, <2>2, PlaceFacts
  <2> QED
    BY <2>1, <2>2, <2>3
<1>4. g \in [new -> old]
  BY <1>1
<1>5. IsFiniteSet(old)
  BY PlacesFinite
<1> HIDE DEF g, old, new
<1>6. g \in Injection(new, old)
  BY <1>2, <1>4 DEF Injection, IsInjective
<1>7. IsFiniteSet(new)
  BY <1>5, <1>6, FS_Injection
<1>8. Cardinality(old) = Cardinality(new)
  BY <1>2, <1>3, <1>4, <1>7, Corresponding
<1> QED
  BY <1>8 DEF old, new
\* The groups of a widened sub-block.
LEMMA WidenedPlaces ==
  ASSUME NEW b \in Seq(Node), NEW k \in DOMAIN b,
         NEW c, c.groups = <<>>, NEW b2, Widened(b, b2, k, c)
  PROVE  Cardinality(Subgroups(b2)) = Cardinality(Subgroups(b))
<1>1. PICK n \in Nat : n = Len(b)
  OBVIOUS
<1>2. k \in 1 .. n /\ DOMAIN b = 1 .. n /\ DOMAIN b2 = 1 .. (n + 1)
  BY <1>1 DEF Widened
<1>3. \A l \in 1 .. (n + 1) :
        b2[l] = IF l <= k THEN b[l] ELSE IF l = k + 1 THEN c ELSE b[l - 1]
  BY <1>2 DEF Widened
<1> DEFINE from == [l \in 1 .. (n + 1) |-> IF l <= k THEN l ELSE l - 1]
<1>4. ASSUME NEW l \in 1 .. (n + 1), l # k + 1
      PROVE  from[l] \in 1 .. n /\ b2[l].groups = b[from[l]].groups
  <2>1. CASE l <= k
    BY <1>2, <1>3, <2>1
  <2>2. CASE ~ (l <= k)
    BY <1>2, <1>3, <1>4, <2>2
  <2> QED
    BY <2>1, <2>2
<1>5. DOMAIN b2[k + 1].groups = {}
  <2>1. k + 1 \in 1 .. (n + 1) /\ ~ (k + 1 <= k)
    BY <1>2
  <2>2. b2[k + 1] = c
    BY <1>3, <2>1
  <2> QED
    BY <2>2
<1>6. \A l, m \in 1 .. (n + 1) :
        l # m /\ l # k + 1 /\ m # k + 1 => from[l] # from[m]
  BY <1>2
<1>7. ASSUME NEW j \in 1 .. n
      PROVE  \E l \in 1 .. (n + 1) : l # k + 1 /\ from[l] = j
  <2>1. CASE j <= k
    BY <1>2, <2>1
  <2>2. CASE ~ (j <= k)
    <3>1. j + 1 \in 1 .. (n + 1) /\ j + 1 # k + 1 /\ from[j + 1] = j
      BY <1>2, <2>2
    <3> QED
      BY <3>1
  <2> QED
    BY <2>1, <2>2
<1> HIDE DEF from
<1>8. \A l \in DOMAIN b2 : DOMAIN b2[l].groups # {} => l # k + 1
  BY <1>5
<1>9. \A l \in DOMAIN b2 : DOMAIN b2[l].groups # {} =>
        from[l] \in DOMAIN b /\ b2[l].groups = b[from[l]].groups
  BY <1>2, <1>4, <1>8
<1>10. \A l, m \in DOMAIN b2 :
         l # m /\ DOMAIN b2[l].groups # {} /\ DOMAIN b2[m].groups # {} => from[l] # from[m]
  BY <1>2, <1>6, <1>8
<1>11. \A j \in DOMAIN b : DOMAIN b[j].groups # {} =>
         \E l \in DOMAIN b2 : from[l] = j /\ b2[l].groups = b[j].groups
  <2> SUFFICES ASSUME NEW j \in DOMAIN b
               PROVE  \E l \in DOMAIN b2 : from[l] = j /\ b2[l].groups = b[j].groups
    OBVIOUS
  <2>1. PICK l \in 1 .. (n + 1) : l # k + 1 /\ from[l] = j
    BY <1>2, <1>7
  <2> QED
    BY <1>2, <1>4, <2>1
<1>12. Moves(b, b2, from)
  BY <1>9, <1>10, <1>11 DEF Moves
<1> QED
  BY <1>12, MovedGroups

LEMMA SameLength ==
  ASSUME NEW X, NEW b \in Seq(X), NEW b2 \in Seq(X), DOMAIN b2 = DOMAIN b
  PROVE  Len(b2) = Len(b)
OBVIOUS

\* The groups of a sub-block in one node of which a group may have come.
LEMMA RegroupedPlaces ==
  ASSUME NEW b \in Seq(Node), NEW k \in DOMAIN b, NEW gs \in Seq(Group),
         NEW b2, Regrouped(b, b2, k, gs),
         NEW d \in {0, 1}, Len(gs) = Len(b[k].groups) + d
  PROVE  Cardinality(Subgroups(b2)) = Cardinality(Subgroups(b)) + d
<1>1. PICK n \in Nat : n = Len(b[k].groups) /\ DOMAIN b[k].groups = 1 .. n
  BY NodeFacts
<1>2. DOMAIN gs = 1 .. (n + d)
  BY <1>1
<1>3. /\ DOMAIN b2 = DOMAIN b /\ b2[k].groups = gs
      /\ \A l \in DOMAIN b : l # k => b2[l].groups = b[l].groups
  BY DEF Regrouped
<1>4. CASE d = 0
  <2>1. \A l \in DOMAIN b : DOMAIN b2[l].groups = DOMAIN b[l].groups
    BY <1>1, <1>2, <1>3, <1>4
  <2>2. Subgroups(b2) = Subgroups(b)
    BY <1>3, <2>1 DEF Subgroups
  <2>3. Cardinality(Subgroups(b)) \in Nat
    BY PlacesFinite, FS_CardinalityType
  <2> QED
    BY <1>4, <2>2, <2>3
<1>5. CASE d = 1
  <2> DEFINE new == <<k, n + 1>>
             old == Subgroups(b)
  <2>1. \A j : j \in DOMAIN gs <=> j \in DOMAIN b[k].groups \/ j = n + 1
    BY <1>1, <1>2, <1>5
  <2>2. ASSUME NEW s \in Subgroups(b2) PROVE s \in old \cup {new}
    <3>1. s = <<s[1], s[2]>> /\ s[1] \in DOMAIN b /\ s[2] \in DOMAIN b2[s[1]].groups
      BY <1>3, PlaceFacts
    <3>2. CASE s[1] = k
      <4>1. s[2] \in DOMAIN b[k].groups \/ s[2] = n + 1
        BY <1>3, <2>1, <3>1, <3>2
      <4> QED
        BY <3>1, <3>2, <4>1, PlaceFacts
    <3>3. CASE s[1] # k
      <4>1. s[2] \in DOMAIN b[s[1]].groups
        BY <1>3, <3>1, <3>3
      <4> QED
        BY <3>1, <4>1, PlaceFacts
    <3> QED
      BY <3>2, <3>3
  <2>3. ASSUME NEW s \in old PROVE s \in Subgroups(b2)
    <3>1. s = <<s[1], s[2]>> /\ s[1] \in DOMAIN b /\ s[2] \in DOMAIN b[s[1]].groups
      BY PlaceFacts
    <3>2. s[2] \in DOMAIN b2[s[1]].groups
      BY <1>3, <2>1, <3>1
    <3> QED
      BY <1>3, <3>1, <3>2, PlaceFacts
  <2>4. new \in Subgroups(b2)
    BY <1>3, <2>1, PlaceFacts
  <2>5. new \notin old
    <3>1. n + 1 \notin DOMAIN b[k].groups
      BY <1>1
    <3>2. new[1] = k /\ new[2] = n + 1
      OBVIOUS
    <3> QED
      BY <3>1, <3>2, PlaceFacts
  <2>6. IsFiniteSet(old)
    BY PlacesFinite
  <2> HIDE DEF new, old
  <2>7. Subgroups(b2) = old \cup {new}
    BY <2>2, <2>3, <2>4
  <2>8. Cardinality(old \cup {new}) = Cardinality(old) + 1
    BY <2>5, <2>6, FS_AddElement
  <2> QED
    BY <1>5, <2>7, <2>8 DEF old
<1> QED
  BY <1>4, <1>5

\* New records that were nowhere add to the count.
LEMMA DisjointUnion ==
  ASSUME NEW S, NEW N, IsFiniteSet(S), IsFiniteSet(N), N \cap S = {}
  PROVE  Cardinality(S \cup N) = Cardinality(S) + Cardinality(N)
<1>1. Cardinality(S \cup N) = Cardinality(S) + Cardinality(N) - Cardinality(S \cap N)
  BY FS_Union
<1>4. S \cap N = {}
  OBVIOUS
<1>2. Cardinality(S \cap N) = 0
  BY <1>4, FS_EmptySet
<1>3. Cardinality(S) \in Nat /\ Cardinality(N) \in Nat
  BY FS_CardinalityType
<1> QED
  BY <1>1, <1>2, <1>3

NewGroups(gs) == IF HasPersistent(gs) THEN 0 ELSE 1

Grown(t, b, b2, n, m) == Count(t, b2) = Count(t, b) + n + m

LEMMA PutCount ==
  ASSUME NEW t, IsFiniteSet(t), NEW b \in Seq(Node), Unique(t, b),
         NEW k \in DOMAIN b, b[k].kind = "children",
         NEW e, Ensures(b[k].groups, e),
         NEW N \in SUBSET Id, IsFiniteSet(N), N \cap Records(t, b) = {},
         NEW b2, b2 = [b EXCEPT ![k].groups = AddRefs(e, N)]
  PROVE  Grown(t, b, b2, Cardinality(N), NewGroups(b[k].groups))
<1> DEFINE gs == AddRefs(e, N)
           d == NewGroups(b[k].groups)
<1>1. Regrouped(b, b2, k, gs)
  BY PutFacts
<1>2. Holds(b2, CellsIn(b), RefsIn(b) \cup N)
  BY PutFacts
<1>3. e \in Seq(Group) /\ HasPersistent(e) /\ Len(e) = Len(b[k].groups) + d
  BY DEF Ensures, NewGroups
<1>4. gs \in Seq(Group) /\ DOMAIN gs = DOMAIN e
  BY <1>3, AddRefsFacts
<1>12. Len(gs) = Len(e)
  BY <1>3, <1>4, SameLength
<1>5. Len(gs) = Len(b[k].groups) + d
  BY <1>3, <1>12
<1>6. d \in {0, 1}
  BY DEF NewGroups
<1> HIDE DEF gs, d
<1>7. Cardinality(Subgroups(b2)) = Cardinality(Subgroups(b)) + d
  BY <1>1, <1>4, <1>5, <1>6, RegroupedPlaces
<1>8. Cardinality(RefsIn(b2)) = Cardinality(RefsIn(b)) + Cardinality(N)
  <2>1. IsFiniteSet(RefsIn(b)) /\ N \cap RefsIn(b) = {}
    BY PlacesFinite DEF Records
  <2> QED
    BY <1>2, <2>1, DisjointUnion DEF Holds
<1>9. Len(b2) = Len(b)
  BY <1>1, SameLength DEF Regrouped
<1>10. Cardinality(N) \in Nat
  BY FS_CardinalityType
<1>11. Count(t, b2) = Count(t, b) + Cardinality(N) + d
  BY <1>6, <1>7, <1>8, <1>9, <1>10, CountParts DEF Count
<1> QED
  BY <1>11 DEF d, Grown

\* A clone counts as one, wherever it goes.
LEMMA CloneCount ==
  ASSUME TreeInv, NEW N \in SUBSET Id, N \cap Records(top, block) = {},
         NEW seed, Clones(seed, N)
  PROVE  Count(top', block') = Count(top, block) + 1
<1>0. block \in Seq(Node) /\ IsFiniteSet(top) /\ Unique(top, block)
  BY DEF TreeInv
<1>1. PICK clone \in N : /\ N = {clone}
                         /\ \/ CloneInTop(seed, clone)
                            \/ CloneInBlock(seed, clone)
                            \/ CloneInGroup(seed, clone)
  BY DEF Clones
<1>2. clone \in Id /\ clone \notin Records(top, block) /\ IsFiniteSet(N) /\ Cardinality(N) = 1
  BY <1>1, FS_Singleton
<1>10. /\ Cardinality(top) \in Nat /\ Len(block) \in Nat
       /\ Cardinality(Subgroups(block)) \in Nat /\ Cardinality(RefsIn(block)) \in Nat
  BY <1>0, CountParts
<1>3. CASE CloneInTop(seed, clone)
  <2>1. top' = top \cup {clone} /\ block' = block
    BY <1>3 DEF CloneInTop
  <2>2. clone \notin top
    BY <1>2 DEF Records
  <2>3. Cardinality(top') = Cardinality(top) + 1
    BY <1>0, <2>1, <2>2, FS_AddElement
  <2> QED
    BY <1>10, <2>1, <2>3 DEF Count
<1>4. CASE CloneInBlock(seed, clone)
  <2> DEFINE c == [kind |-> "cell", id |-> clone, groups |-> <<>>]
             b2 == block'
  <2>1. PICK k \in DOMAIN block :
          b2 = SubSeq(block, 1, k) \o <<c>> \o SubSeq(block, k + 1, Len(block))
    BY <1>4 DEF CloneInBlock
  <2>2. top' = top
    BY <1>4 DEF CloneInBlock
  <2>3. c = [kind |-> "cell", id |-> clone, groups |-> <<>>] /\ c.groups = <<>>
    OBVIOUS
  <2> HIDE DEF c, b2
  <2>4. Widened(block, b2, k, c)
    BY <1>0, <1>2, <2>1, <2>3, CellCloneFacts
  <2>5. Holds(b2, CellsIn(block) \cup {clone}, RefsIn(block))
    BY <1>0, <1>2, <2>1, <2>3, CellCloneFacts
  <2>6. Cardinality(Subgroups(b2)) = Cardinality(Subgroups(block))
    BY <1>0, <2>3, <2>4, WidenedPlaces
  <2>7. Len(b2) = Len(block) + 1
    BY <1>10, <2>4 DEF Widened
  <2>8. Count(top, b2) = Count(top, block) + 1
    BY <1>10, <2>5, <2>6, <2>7 DEF Count, Holds
  <2> QED
    BY <2>2, <2>8 DEF b2
<1>5. CASE CloneInGroup(seed, clone)
  <2> DEFINE b2 == block'
  <2>1. PICK s0 \in Subgroups(block) :
          b2 = [block EXCEPT ![s0[1]].groups[s0[2]].refs = @ \cup N]
    BY <1>1, <1>5 DEF CloneInGroup
  <2>2. top' = top
    BY <1>5 DEF CloneInGroup
  <2> HIDE DEF b2
  <2>3. Refilled(block, b2, s0[1])
    BY <1>0, <1>2, <2>1, GroupCloneFacts, ZenonT(30)
  <2>4. PICK gs \in Seq(Group) : /\ Regrouped(block, b2, s0[1], gs)
                                 /\ DOMAIN gs = DOMAIN block[s0[1]].groups
    BY <2>3 DEF Refilled
  <2>5. Holds(b2, CellsIn(block), RefsIn(block) \cup N)
    BY <1>0, <1>2, <2>1, GroupCloneFacts
  <2>6. s0[1] \in DOMAIN block
    BY PlaceFacts
  <2>7. block[s0[1]].groups \in Seq(Group)
    BY <1>0, <2>6, NodeFacts
  <2>8. Len(gs) = Len(block[s0[1]].groups) + 0
    BY <2>4, <2>7
  <2>9. Cardinality(Subgroups(b2)) = Cardinality(Subgroups(block)) + 0
    BY <1>0, <2>4, <2>6, <2>8, RegroupedPlaces
  <2>10. Cardinality(RefsIn(b2)) = Cardinality(RefsIn(block)) + 1
    <3>1. IsFiniteSet(RefsIn(block)) /\ N \cap RefsIn(block) = {}
      BY <1>0, PlacesFinite DEF Records
    <3> QED
      BY <1>2, <2>5, <3>1, DisjointUnion DEF Holds
  <2>11. Len(b2) = Len(block)
    BY <1>0, <2>4, SameLength DEF Regrouped
  <2>12. Count(top, b2) = Count(top, block) + 1
    BY <1>10, <2>9, <2>10, <2>11 DEF Count
  <2> QED
    BY <2>2, <2>12 DEF b2
<1> QED
  BY <1>1, <1>3, <1>4, <1>5
\* The nodes of the cells with an id in S.
CellNodes(b, S) == {k \in DOMAIN b : b[k].kind = "cell" /\ b[k].id \in S}

LEMMA NodesFinite ==
  ASSUME NEW b \in Seq(Node)
  PROVE  IsFiniteSet(DOMAIN b) /\ Cardinality(DOMAIN b) = Len(b)
<1>1. PICK n \in Nat : n = Len(b) /\ DOMAIN b = 1 .. n
  OBVIOUS
<1>2. IsFiniteSet(1 .. n) /\ Cardinality(1 .. n) = IF 1 > n THEN 0 ELSE n - 1 + 1
  BY FS_Interval
<1> QED
  BY <1>1, <1>2

\* A cell that goes is one node less and no group.
LEMMA CellsGoneCount ==
  ASSUME NEW t, NEW b \in Seq(Node), Unique(t, b), NEW S,
         NEW b2, Filtered(b, b2, DOMAIN b \ CellNodes(b, S))
  PROVE  /\ Len(b2) = Len(b) - Cardinality(S \cap CellsIn(b))
         /\ Cardinality(Subgroups(b2)) = Cardinality(Subgroups(b))
         /\ RefsIn(b2) = RefsIn(b)
<1> DEFINE gone == CellNodes(b, S)
           kept == DOMAIN b \ gone
           ids == S \cap CellsIn(b)
           f == [k \in gone |-> b[k].id]
           from == [j \in DOMAIN b2 |-> NthOf(kept, j)]
<1>0. IsFiniteSet(DOMAIN b) /\ Cardinality(DOMAIN b) = Len(b) /\ Len(b) \in Nat
  BY NodesFinite
<1>1. gone \in SUBSET DOMAIN b /\ kept \in SUBSET DOMAIN b
  BY DEF CellNodes
<1>2. IsFiniteSet(gone)
  BY <1>0, <1>1, FS_Subset
<1>3. f \in [gone -> ids]
  BY DEF CellNodes, CellsIn
<1>4. \A x, y \in gone : x # y => f[x] # f[y]
  BY DEF CellNodes, Unique
<1>5. \A y \in ids : \E x \in gone : f[x] = y
  BY DEF CellNodes, CellsIn
<1>6. Cardinality(ids) = Cardinality(gone)
  <2> HIDE DEF gone, ids, f
  <2> QED
    BY <1>2, <1>3, <1>4, <1>5, Corresponding
<1>7. Len(b2) = Len(b) - Cardinality(ids)
  <2> HIDE DEF gone, ids
  <2>1. Cardinality(kept) = Cardinality(DOMAIN b) - Cardinality(DOMAIN b \cap gone)
    BY <1>0, FS_Difference
  <2>2. DOMAIN b \cap gone = gone
    BY <1>1
  <2> HIDE DEF kept
  <2>3. Len(b2) = Cardinality(kept)
    <3>1. IsFiniteSet(kept)
      BY <1>0, <1>1, FS_Subset
    <3>2. Cardinality(kept) \in Nat
      BY <3>1, FS_CardinalityType
    <3>3. b2 \in Seq(Node) /\ DOMAIN b2 = 1 .. Cardinality(kept)
      BY DEF Filtered, kept, gone
    <3> QED
      BY <3>2, <3>3
  <2> QED
    BY <1>0, <1>6, <2>1, <2>2, <2>3
<1>8. \A k \in DOMAIN b : DOMAIN b[k].groups # {} => k \in kept
  <2> SUFFICES ASSUME NEW k \in gone PROVE DOMAIN b[k].groups = {}
    OBVIOUS
  <2>1. b[k].groups = <<>>
    BY <1>1, NodeFacts DEF CellNodes
  <2> QED
    BY <2>1
<1>9. Cardinality(Subgroups(b2)) = Cardinality(Subgroups(b))
  <2>1. Filtered(b, b2, kept)
    OBVIOUS
  <2> HIDE DEF kept
  <2>2. \A l \in DOMAIN b2 : from[l] \in kept /\ b2[l] = b[from[l]]
    BY <2>1 DEF Filtered
  <2>3. \A l, m \in DOMAIN b2 : l # m => from[l] # from[m]
    BY <2>1 DEF Filtered
  <2>4. \A k \in kept : \E l \in DOMAIN b2 : from[l] = k /\ b2[l] = b[k]
    BY <2>1 DEF Filtered
  <2> HIDE DEF from
  <2>5. Moves(b, b2, from)
    BY <1>1, <1>8, <2>2, <2>3, <2>4 DEF Moves
  <2> QED
    BY <2>5, MovedGroups
<1>10. RefsIn(b2) = RefsIn(b)
  <2>1. RefsIn(b2) = UNION {RefsAt(b, s) : s \in {u \in Subgroups(b) : u[1] \in kept}}
    BY <1>1, FilteredRecords
  <2>2. \A s \in Subgroups(b) : s[1] \in kept
    BY PlaceFacts, RefsAtFacts DEF CellNodes
  <2>3. {u \in Subgroups(b) : u[1] \in kept} = Subgroups(b)
    BY <2>2
  <2> QED
    BY <2>1, <2>3 DEF RefsIn
<1> QED
  BY <1>7, <1>9, <1>10

\* A delete takes exactly as many as it is asked for.
LEMMA DropCount ==
  ASSUME TreeInv, NEW S, Drops(S)
  PROVE  Count(top', block') = Count(top, block) - Cardinality(S)
<1> DEFINE b1 == Sublist(block, DOMAIN block \ CellNodes(block, S))
           b2 == WithoutRefs(b1, S)
           cells == CellsIn(block)
           refs == RefsIn(block)
<1>0. block \in Seq(Node) /\ IsFiniteSet(top) /\ Unique(top, block)
      /\ S \subseteq Records(top, block)
  BY DEF TreeInv, Drops
<1>1. top' = top \ S /\ block' = b2
  BY DEF Drops, Dropped, Without, CellNodes
<1>2. Filtered(block, b1, DOMAIN block \ CellNodes(block, S))
  <2>1. DOMAIN block \ CellNodes(block, S) \in SUBSET DOMAIN block
    OBVIOUS
  <2> QED
    BY <1>0, <2>1, FilterFacts
<1> HIDE DEF b1
<1>3. b1 \in Seq(Node)
  BY <1>2 DEF Filtered
<1>4. Len(b1) = Len(block) - Cardinality(S \cap cells)
  BY <1>0, <1>2, CellsGoneCount
<1>5. Cardinality(Subgroups(b1)) = Cardinality(Subgroups(block))
  BY <1>0, <1>2, CellsGoneCount
<1>6. RefsIn(b1) = refs
  BY <1>0, <1>2, CellsGoneCount
<1>7. Unique(top, b1)
  <2>1. DOMAIN block \ CellNodes(block, S) \in SUBSET DOMAIN block
    OBVIOUS
  <2> QED
    BY <1>0, <1>2, <2>1, FilteredRecords
<1>8. Thinned(b1, b2, S)
  BY <1>3, ThinFacts
<1> HIDE DEF b2
<1>9. RefsIn(b2) = RefsIn(b1) \ S
  BY <1>3, <1>7, <1>8, ThinnedRecords
<1>10. Subgroups(b2) = Subgroups(b1)
  BY <1>3, <1>7, <1>8, ThinnedRecords
<1>11. Len(b2) = Len(b1)
  BY <1>3, <1>8, SameLength DEF Thinned
<1>12. IsFiniteSet(cells) /\ IsFiniteSet(refs)
  BY <1>0, PlacesFinite
<1>13. top \cap cells = {} /\ (top \cup cells) \cap refs = {}
  BY <1>0 DEF Unique
<1>14. S = ((S \cap top) \cup (S \cap cells)) \cup (S \cap refs)
  BY <1>0 DEF Records
<1> HIDE DEF cells, refs
<1>15. IsFiniteSet(S \cap top) /\ IsFiniteSet(S \cap cells) /\ IsFiniteSet(S \cap refs)
  BY <1>0, <1>12, FS_Intersection
<1>16. Cardinality(S) = Cardinality(S \cap top) + Cardinality(S \cap cells)
                          + Cardinality(S \cap refs)
  <2> DEFINE A == S \cap top
             B == S \cap cells
             C == S \cap refs
  <2>1. IsFiniteSet(A) /\ IsFiniteSet(B) /\ IsFiniteSet(C) /\ B \cap A = {}
        /\ C \cap (A \cup B) = {} /\ S = (A \cup B) \cup C
    BY <1>13, <1>14, <1>15
  <2> HIDE DEF A, B, C
  <2>2. IsFiniteSet(A \cup B)
    BY <2>1, FS_Union
  <2>3. Cardinality(A \cup B) = Cardinality(A) + Cardinality(B)
    BY <2>1, DisjointUnion
  <2>4. Cardinality(S) = Cardinality(A \cup B) + Cardinality(C)
    BY <2>1, <2>2, DisjointUnion
  <2>5. Cardinality(S) = Cardinality(A) + Cardinality(B) + Cardinality(C)
    BY <2>3, <2>4
  <2> QED
    BY <2>5 DEF A, B, C
<1>17. Cardinality(top \ S) = Cardinality(top) - Cardinality(S \cap top)
  <2>1. Cardinality(top \ S) = Cardinality(top) - Cardinality(top \cap S)
    BY <1>0, FS_Difference
  <2>2. top \cap S = S \cap top
    OBVIOUS
  <2> QED
    BY <2>1, <2>2
<1>18. Cardinality(refs \ S) = Cardinality(refs) - Cardinality(S \cap refs)
  <2>1. Cardinality(refs \ S) = Cardinality(refs) - Cardinality(refs \cap S)
    BY <1>12, FS_Difference
  <2>2. refs \cap S = S \cap refs
    OBVIOUS
  <2> QED
    BY <2>1, <2>2
<1>19. /\ Cardinality(S \cap top) \in Nat /\ Cardinality(S \cap cells) \in Nat
       /\ Cardinality(S \cap refs) \in Nat
  BY <1>15, FS_CardinalityType
<1>20. /\ Cardinality(top) \in Nat /\ Len(block) \in Nat
       /\ Cardinality(Subgroups(block)) \in Nat /\ Cardinality(refs) \in Nat
  BY <1>0, CountParts DEF refs
<1>21. Cardinality(RefsIn(b2)) = Cardinality(refs) - Cardinality(S \cap refs)
  BY <1>6, <1>9, <1>18
<1>22. Len(b2) = Len(block) - Cardinality(S \cap cells)
  BY <1>4, <1>11
<1>23. Cardinality(Subgroups(b2)) = Cardinality(Subgroups(block))
  BY <1>5, <1>10
<1> DEFINE t2 == top \ S
<1>24. Cardinality(t2) = Cardinality(top) - Cardinality(S \cap top)
  BY <1>17
<1> HIDE DEF t2
<1>25. Count(t2, b2) = Count(top, block) - Cardinality(S)
  BY <1>16, <1>19, <1>20, <1>21, <1>22, <1>23, <1>24, SMTT(20) DEF Count, refs
<1> QED
  BY <1>1, <1>25 DEF t2

\* So does delete_cells when no cell that it is asked for has children; and
\* then it finds nothing below them.
LEMMA RevertCount ==
  ASSUME TreeInv, NEW S, Reverts(S), Bare(S)
  PROVE  /\ Count(top', block') = Count(top, block) - Cardinality(S)
         /\ UNION {RefsBelow(block, k) : k \in Reverted(block, S)} = {}
<1> DEFINE b2 == block'
           cells == CellsIn(block)
<1>0. block \in Seq(Node) /\ IsFiniteSet(top) /\ Unique(top, block)
      /\ S \subseteq cells /\ top' = top
  BY DEF TreeInv, Reverts
<1>1. Reverted(block, S) = CellNodes(block, S)
  <2>1. ASSUME NEW k \in DOMAIN block, block[k].kind = "children"
        PROVE  k - 1 \notin CellNodes(block, S)
    <3> SUFFICES ASSUME k - 1 \in DOMAIN block PROVE block[k - 1].id \notin S
      BY DEF CellNodes
    <3>1. k > 1
      BY <1>0
    <3> QED
      BY <2>1, <3>1 DEF Bare
  <2> QED
    BY <2>1 DEF Reverted, CellNodes
<1>2. Filtered(block, b2, DOMAIN block \ CellNodes(block, S))
  BY <1>1, RevertEdits
<1> HIDE DEF b2
<1>3. S \cap cells = S
  BY <1>0
<1>4. Len(b2) = Len(block) - Cardinality(S \cap cells)
  BY <1>0, <1>2, CellsGoneCount
<1>5. Cardinality(Subgroups(b2)) = Cardinality(Subgroups(block))
  BY <1>0, <1>2, CellsGoneCount
<1>6. RefsIn(b2) = RefsIn(block)
  BY <1>0, <1>2, CellsGoneCount
<1>7. Cardinality(S) \in Nat
  BY <1>0, PlacesFinite, FS_Subset, FS_CardinalityType
<1>8. Count(top, b2) = Count(top, block) - Cardinality(S)
  <2>1. /\ Cardinality(top) \in Nat /\ Len(block) \in Nat
        /\ Cardinality(Subgroups(block)) \in Nat /\ Cardinality(RefsIn(block)) \in Nat
    BY <1>0, CountParts
  <2>2. Len(b2) = Len(block) - Cardinality(S)
    BY <1>3, <1>4
  <2>3. Cardinality(RefsIn(b2)) = Cardinality(RefsIn(block))
    BY <1>6
  <2> QED
    BY <1>5, <1>7, <2>1, <2>2, <2>3 DEF Count
<1>9. \A k \in CellNodes(block, S) : RefsBelow(block, k) = {}
  <2> TAKE k \in CellNodes(block, S)
  <2>1. k \in DOMAIN block /\ block[k].groups = <<>>
    BY <1>0, NodeFacts DEF CellNodes
  <2>2. DOMAIN block[k].groups = {}
    BY <2>1
  <2> QED
    BY <2>1, <2>2, BelowFacts
<1>10. UNION {RefsBelow(block, k) : k \in CellNodes(block, S)} = {}
  BY <1>9
<1> QED
  BY <1>0, <1>1, <1>8, <1>10 DEF b2

\* The newer engine counts again, whatever it did.
LEMMA OpsRecounts ==
  ASSUME OpsNext
  PROVE  Recount
<1>1. ASSUME NEW c, InsertRef(c) PROVE Recount
  BY <1>1 DEF InsertRef
<1>2. ASSUME NEW seed, NEW n, NEW c, CloneCluster(seed, n, c) PROVE Recount
  BY <1>2 DEF CloneCluster
<1>3. ASSUME NEW seed, NEW n, CloneDetached(seed, n) PROVE Recount
  BY <1>3 DEF CloneDetached
<1>4. ASSUME NEW seed, CloneRecord(seed) PROVE Recount
  BY <1>4 DEF CloneRecord
<1>5. ASSUME NEW S, DeleteRecords(S) PROVE Recount
  BY <1>5 DEF DeleteRecords
<1>6. ASSUME NEW S, DeleteCells(S) PROVE Recount
  BY <1>6 DEF DeleteCells
<1>7. ASSUME NEW name, AddMaster(name) PROVE Recount
  BY <1>7 DEF AddMaster
<1>8. ASSUME NEW old, NEW new, RenameMaster(old, new) PROVE Recount
  BY <1>8 DEF RenameMaster
<1> QED
  BY <1>1, <1>2, <1>3, <1>4, <1>5, <1>6, <1>7, <1>8 DEF OpsNext

\* What insert_records adds to the count is what it adds to the tree.
LEMMA LegacyPutCount ==
  ASSUME TreeInv, NEW c, HasChildren(c),
         NEW N \in SUBSET Id, IsFiniteSet(N), N \cap Records(top, block) = {},
         LegacyPut(c, N), numRecords = Count(top, block), top' = top
  PROVE  numRecords' = Count(top', block')
<1>0. block \in Seq(Node) /\ IsFiniteSet(top) /\ Unique(top, block)
  BY DEF TreeInv
<1>1. PICK k \in DOMAIN block : k = ChildrenOf(c) /\ block[k].kind = "children"
  BY <1>0, ChildrenFacts
<1> DEFINE e == LegacyEnsured(block[k].groups)
           b2 == block'
<1>2. Ensures(block[k].groups, e)
  BY <1>0, NodeFacts, BothEnsure
<1>3. b2 = [block EXCEPT ![k].groups = AddRefs(e, N)]
  BY <1>1 DEF LegacyPut
<1>4. numRecords' = numRecords + Cardinality(N) + NewGroups(block[k].groups)
  BY <1>1 DEF LegacyPut, NewGroups
<1> HIDE DEF e, b2
<1>5. Grown(top, block, b2, Cardinality(N), NewGroups(block[k].groups))
  BY <1>0, <1>1, <1>2, <1>3, PutCount
<1>6. numRecords' = Count(top, b2)
  BY <1>4, <1>5 DEF Grown
<1> QED
  BY <1>6 DEF b2

\* The older engine adds and subtracts what it adds to the tree and takes from
\* it, when the cells it deletes have no children.
LEMMA LegacyCounts ==
  ASSUME "wrap" \notin Risks, "miscount" \notin Risks, MintInv, TreeInv, LegacyNext,
         numRecords = Count(top, block)
  PROVE  numRecords' = Count(top', block')
<1> DEFINE N == answer'.new
<1>1. /\ N \in SUBSET Id /\ IsFiniteSet(N) /\ N \cap Records(top, block) = {}
  <2>1. nextObject \in Nat /\ block \in Seq(Node)
    BY DEF MintInv, TreeInv
  <2>2. IsFiniteSet(N) /\ issued' = issued \cup N
    BY <2>1, LegacyEffect
  <2>3. MintInv' /\ N \cap issued = {}
    BY LegacyFresh
  <2> HIDE DEF N
  <2>4. issued' \subseteq Id
    BY <2>3 DEF MintInv
  <2> QED
    BY <2>2, <2>3, <2>4 DEF TreeInv
<1> HIDE DEF N
<1>2. ASSUME NEW c, LegacyInsertRef(c)
      PROVE  numRecords' = Count(top', block')
  <2>1. /\ N = LegacyMinted(1) /\ HasChildren(c) /\ top' = top
        /\ LegacyPut(c, LegacyMinted(1))
    BY <1>2 DEF LegacyInsertRef, Answers, N
  <2> QED
    BY <1>1, <2>1, LegacyPutCount
<1>3. ASSUME NEW seed, NEW n, NEW c, LegacyCloneCluster(seed, n, c)
      PROVE  numRecords' = Count(top', block')
  <2>1. /\ N = LegacyMinted(n) /\ HasChildren(c) /\ top' = top
        /\ LegacyPut(c, LegacyMinted(n))
    BY <1>3 DEF LegacyCloneCluster, Answers, N
  <2> QED
    BY <1>1, <2>1, LegacyPutCount
<1>4. ASSUME NEW seed, NEW n, LegacyCloneDetached(seed, n)
      PROVE  numRecords' = Count(top', block')
  BY <1>4 DEF LegacyCloneDetached
<1>5. ASSUME NEW seed, LegacyCloneRecord(seed)
      PROVE  numRecords' = Count(top', block')
  <2>1. N = LegacyMinted(1)
    BY <1>5 DEF LegacyCloneRecord, Answers, N
  <2>2. nextObject \in Nat /\ LegacyMint(1)
    BY <1>5 DEF MintInv, LegacyCloneRecord
  <2> 1 \in Nat \ {0}
    OBVIOUS
  <2>3. LegacyMinted(1) = Minted(1)
    BY <2>2, LegacyMintsAlike
  <2>4. Clones(seed, N)
    BY <1>5, <2>1, <2>3, MintedOne DEF LegacyCloneRecord, Clones
  <2>5. Count(top', block') = Count(top, block) + 1
    BY <1>1, <2>4, CloneCount
  <2> QED
    BY <1>5, <2>5 DEF LegacyCloneRecord
<1>6. ASSUME NEW S, LegacyDeleteRecords(S)
      PROVE  numRecords' = Count(top', block')
  <2>1. Drops(S) /\ numRecords' = numRecords - Cardinality(S)
    BY <1>6 DEF LegacyDeleteRecords, Drops
  <2> QED
    BY <2>1, DropCount
<1>7. ASSUME NEW S, LegacyDeleteCells(S)
      PROVE  numRecords' = Count(top', block')
  <2>1. /\ Reverts(S) /\ Bare(S)
        /\ numRecords' = numRecords
             - Cardinality(S \cup UNION {RefsBelow(block, k) : k \in Reverted(block, S)})
    BY <1>7 DEF LegacyDeleteCells, Reverts
  <2>2. /\ Count(top', block') = Count(top, block) - Cardinality(S)
        /\ UNION {RefsBelow(block, k) : k \in Reverted(block, S)} = {}
    BY <2>1, RevertCount
  <2>3. S \cup UNION {RefsBelow(block, k) : k \in Reverted(block, S)} = S
    BY <2>2
  <2> QED
    BY <2>1, <2>2, <2>3
<1> QED
  BY <1>2, <1>3, <1>4, <1>5, <1>6, <1>7 DEF LegacyNext

\* HEDR.num_records is the number of records and groups of the plugin after
\* every call, however the calls of the engine that counts again and of the
\* one that adds and subtracts alternate: as long as the older engine deletes
\* no cell that has children, and does not run out of object ids.
THEOREM CountStaysRight ==
  ASSUME "wrap" \notin Risks, "miscount" \notin Risks
  PROVE  Spec => []CountRight
<1>1. Init => CountRight
  BY DEF Init, CountRight
<1>2. MintInv /\ TreeInv /\ CountRight /\ [Next]_vars => CountRight'
  <2> SUFFICES ASSUME MintInv, TreeInv, CountRight, [Next]_vars
               PROVE  numRecords' = Size(top', block')
    BY DEF CountRight
  <2>1. CASE OpsNext
    BY <2>1, OpsRecounts DEF Recount
  <2>2. CASE LegacyNext
    <3>1. TreeInv'
      BY StepTree
    <3> DEFINE t2 == top'
               b2 == block'
    <3>2. b2 \in Seq(Node) /\ Unique(t2, b2)
      BY <3>1 DEF TreeInv
    <3>3. numRecords = Count(top, block)
      BY SizeIsCount DEF CountRight, TreeInv
    <3>4. numRecords' = Count(t2, b2)
      BY <2>2, <3>3, LegacyCounts
    <3> HIDE DEF t2, b2
    <3>5. numRecords' = Size(t2, b2)
      BY <3>2, <3>4, SizeIsCount
    <3> QED
      BY <3>5 DEF t2, b2
  <2>3. CASE UNCHANGED vars
    BY <2>3 DEF vars, plugin, CountRight
  <2> QED
    BY <2>1, <2>2, <2>3 DEF Next
<1>3. MintInv /\ TreeInv /\ [Next]_vars => MintInv' /\ TreeInv'
  BY StepTree
<1> QED
  BY <1>1, <1>2, <1>3, InitMint, InitTree, PTL DEF Spec
=============================================================================
