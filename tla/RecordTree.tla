----------------------------- MODULE RecordTree -----------------------------
(***************************************************************************)
(* A plugin as the edit tools of chim/server.py and chim/server_legacy.py  *)
(* find it and leave it: the masters and counters of its header, and its   *)
(* tree of groups and records.                                             *)
(*                                                                         *)
(* A tool call parses the plugin, edits the tree and writes it back inside *)
(* a transaction (PluginTransaction), so that a call is one step here and  *)
(* a call that raises is none.  The fields of a record are left out; what  *)
(* a record is to the tree is its form id and where it lies.               *)
(***************************************************************************)
EXTENDS Positions

CONSTANTS
  Names,      \* file names of plugins, without regard to case
  Self,       \* the name of the plugin that is edited
  MaxObject,  \* the largest object id: 16rFFFFFF in a real plugin
  Given       \* the plugins that chim may be given

ASSUME MaxObjectAssumption == MaxObject \in Nat
ASSUME SelfAssumption == Self \in Names

\* A form id: its top byte counts through the masters and then names the
\* plugin itself, the other three are the object id.
Id == [index : Nat, object : Nat]

\* The groups of a cell's children, by their group type.
Persistent == 8
Temporary == 9
VisibleDistant == 10

Group == [type : {Persistent, Temporary, VisibleDistant},
          refs : {R \in SUBSET Id : IsFiniteSet(R)}]

\* What a sub-block of cells lists: CELL records and, behind its cell, the
\* children group (type 6) whose label is the cell's form id.
Node == [kind : {"cell"}, id : Id, groups : {<<>>}]
          \cup [kind : {"children"}, id : Id, groups : Seq(Group)]

VARIABLES
  masters,    \* the master list of the header
  nextObject, \* HEDR.next_object_id
  numRecords, \* HEDR.num_records, less the groups that no call touches
  top,        \* ids of the records outside cells, in their top-level groups
  block,      \* a sub-block of cells
  issued,     \* history: every id the plugin has had or a call minted
  answer      \* what the last call was asked and what it minted

plugin == <<masters, nextObject, numRecords, top, block>>

vars == <<plugin, issued, answer>>

-----------------------------------------------------------------------------
(* The tree.                                                               *)

CellsIn(b) == {b[k].id : k \in {i \in DOMAIN b : b[i].kind = "cell"}}

Subgroups(b) == UNION {{k} \X DOMAIN b[k].groups : k \in DOMAIN b}

RefsAt(b, s) == b[s[1]].groups[s[2]].refs

RefsIn(b) == UNION {RefsAt(b, s) : s \in Subgroups(b)}

\* The records inside the children group at k.
RefsBelow(b, k) == UNION {g.refs : g \in {b[k].groups[j] : j \in DOMAIN b[k].groups}}

Records(t, b) == t \cup CellsIn(b) \cup RefsIn(b)

\* Records and groups, as HEDR.num_records counts them.
Size(t, b) ==
  Cardinality(t) + Len(b) + Cardinality(Subgroups(b))
    + Cardinality({n \in Subgroups(b) \X RefsIn(b) : n[2] \in RefsAt(b, n[1])})

\* b without the positions in gone.
Without(b, gone) == Sublist(b, DOMAIN b \ gone)

\* Groups, and a sub-block, without the references in S, wherever they lie.
GroupsWithout(groups, S) ==
  [j \in DOMAIN groups |-> [groups[j] EXCEPT !.refs = @ \ S]]

WithoutRefs(b, S) ==
  [k \in DOMAIN b |-> [b[k] EXCEPT !.groups = GroupsWithout(@, S)]]

-----------------------------------------------------------------------------
(* What is true of the plugins chim is given.                              *)

\* No form id belongs to two records.
Unique(t, b) ==
  /\ \A k, l \in DOMAIN b :
       k # l /\ b[k].kind = "cell" /\ b[l].kind = "cell" => b[k].id # b[l].id
  /\ \A s, u \in Subgroups(b) : s # u => RefsAt(b, s) \cap RefsAt(b, u) = {}
  /\ t \cap CellsIn(b) = {}
  /\ (t \cup CellsIn(b)) \cap RefsIn(b) = {}

\* Every children group lies right behind its own cell.
BehindItsCell(b) ==
  \A k \in DOMAIN b : b[k].kind = "children" =>
    /\ k > 1
    /\ b[k - 1].kind = "cell"
    /\ b[k - 1].id = b[k].id

\* Each group of children at most once, the persistent one first.
Ordered(b) ==
  \A k \in DOMAIN b : \A i, j \in DOMAIN b[k].groups :
    i < j => b[k].groups[i].type < b[k].groups[j].type

\* An id that no record of the plugin's own has had.
Beyond(ids, ms, n) ==
  \A id \in ids : /\ id.index <= Len(ms)
                  /\ id.index = Len(ms) => id.object < n

WellFormed(p) ==
  /\ p.masters \in Seq(Names)
  /\ p.nextObject \in Nat
  /\ p.top \in SUBSET Id
  /\ IsFiniteSet(p.top)
  /\ p.block \in Seq(Node)
  /\ Unique(p.top, p.block)
  /\ BehindItsCell(p.block)
  /\ Ordered(p.block)
  /\ Beyond(Records(p.top, p.block), p.masters, p.nextObject)

ASSUME GivenAssumption == \A p \in Given : WellFormed(p)

Init ==
  \E p \in Given :
    /\ masters = p.masters
    /\ nextObject = p.nextObject
    /\ top = p.top
    /\ block = p.block
    /\ numRecords = Size(p.top, p.block)
    /\ issued = Records(p.top, p.block)
    /\ answer = [engine |-> "none", tool |-> "none", asked |-> {}, new |-> {}]

\* A call answers what it was asked and which ids it minted.
Answers(engine, tool, asked, new) ==
  /\ answer' = [engine |-> engine, tool |-> tool, asked |-> asked, new |-> new]
  /\ issued' = issued \cup new

-----------------------------------------------------------------------------
(* Mutant: what delete_cells would remove with an off-by-one.              *)

RevertedBefore(b, S) ==
  LET cells == {k \in DOMAIN b : b[k].kind = "cell" /\ b[k].id \in S}
  IN  cells \cup {k \in DOMAIN b : b[k].kind = "children" /\ k + 1 \in cells}

-----------------------------------------------------------------------------
(* Where things go.  Both engines agree on these.                          *)

HasChildren(c) ==
  \E k \in DOMAIN block : block[k].kind = "children" /\ block[k].id = c

\* _find_cell_children_group: the first children group with the cell's label.
ChildrenOf(c) ==
  CHOOSE k \in DOMAIN block :
    /\ block[k].kind = "children" /\ block[k].id = c
    /\ \A l \in DOMAIN block :
         block[l].kind = "children" /\ block[l].id = c => k <= l

HasPersistent(groups) == \E j \in DOMAIN groups : groups[j].type = Persistent

\* The refs are appended to the first persistent group.
AddRefs(groups, refs) ==
  LET first == CHOOSE j \in DOMAIN groups :
                 /\ groups[j].type = Persistent
                 /\ \A i \in DOMAIN groups : groups[i].type = Persistent => j <= i
  IN  [groups EXCEPT ![first].refs = @ \cup refs]

\* A clone lies in the list that its seed lies in, right behind it; in a set
\* of records the place is of no account.
CloneInTop(seed, clone) ==
  /\ seed \in top
  /\ top' = top \cup {clone}
  /\ UNCHANGED block

CloneInBlock(seed, clone) ==
  \E k \in DOMAIN block :
    /\ block[k].kind = "cell" /\ block[k].id = seed
    /\ block' = SubSeq(block, 1, k)
                  \o <<[kind |-> "cell", id |-> clone, groups |-> <<>>]>>
                  \o SubSeq(block, k + 1, Len(block))
    /\ UNCHANGED top

CloneInGroup(seed, clone) ==
  \E s \in Subgroups(block) :
    /\ seed \in RefsAt(block, s)
    /\ block' = [block EXCEPT ![s[1]].groups[s[2]].refs = @ \cup {clone}]
    /\ UNCHANGED top

\* The positions that delete_cells removes: the cells asked for, and the
\* children group right behind one, whosever it is.
Reverted(b, S) ==
  LET cells == {k \in DOMAIN b : b[k].kind = "cell" /\ b[k].id \in S}
  IN  cells \cup {k \in DOMAIN b : b[k].kind = "children" /\ k - 1 \in cells}

\* delete_records removes records and leaves every group where it is.
Dropped(b, S) ==
  WithoutRefs(Without(b, {k \in DOMAIN b : b[k].kind = "cell" /\ b[k].id \in S}), S)
=============================================================================
