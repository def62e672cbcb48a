----------------------------- MODULE PluginEdits -----------------------------
(***************************************************************************)
(* chim/esp/ops.py: the edits of chim/server.py, which work on the tree of *)
(* the esplib library.  esplib counts the records again whenever it writes *)
(* a plugin; the form ids are chim's own business.                         *)
(***************************************************************************)
EXTENDS RecordTree

CONSTANTS
  MaxMasters, \* bound on the number of masters
  Risks       \* the calls after which the code promises less, see RiskKinds

RiskKinds ==
  { "loose cells", \* a CELL is cloned, or deleted without its children
    "wrap",        \* the older engine mints past the last object id
    "miscount" }   \* the older engine deletes a cell with its children

ASSUME RisksAssumption == Risks \subseteq RiskKinds

\* None of these records is a cell with a children group behind it.
Bare(S) ==
  \A k \in DOMAIN block :
    block[k].kind = "children" /\ k > 1 => block[k - 1].id \notin S

-----------------------------------------------------------------------------
(* Mutants: what a step would be with a bug that a property must catch.    *)

\* The object ids run on, the index stays what it was with one master less.
MintedUnderMaster(k) ==
  {[index |-> IF masters = <<>> THEN 0 ELSE Len(masters) - 1,
    object |-> nextObject + i] : i \in 0..(k - 1)}

\* The new group goes behind the groups that are there.
EnsurePersistentLast(groups) ==
  IF HasPersistent(groups) THEN groups
  ELSE Append(groups, [type |-> Persistent, refs |-> {}])

\* The children group of the cell stays.
DeleteCellsOnly(S) ==
  /\ S \subseteq CellsIn(block)
  /\ block' = Without(block, {k \in DOMAIN block :
                block[k].kind = "cell" /\ block[k].id \in S})
  /\ Answers("ops", "delete_cells", S, {})
  /\ numRecords' = Size(top, block')
  /\ UNCHANGED <<masters, nextObject, top>>

-----------------------------------------------------------------------------
(* mint_form_id and _ensure_persistent_group.                              *)

CanMint(k) == nextObject + k <= MaxObject

\* k fresh ids of the plugin's own index.
Minted(k) ==
  {[index |-> Len(masters), object |-> nextObject + i] : i \in 0..(k - 1)}

\* A new persistent group goes before the groups of a higher type: there are
\* no others.
EnsurePersistent(groups) ==
  IF HasPersistent(groups) THEN groups
  ELSE <<[type |-> Persistent, refs |-> {}]>> \o groups

PutInCell(c, refs) ==
  block' = [block EXCEPT ![ChildrenOf(c)].groups =
              AddRefs(EnsurePersistent(@), refs)]

\* serialize: esplib counts what it writes.
Recount == numRecords' = Size(top', block')

-----------------------------------------------------------------------------
(* The tools.                                                              *)

\* esp_insert_ref: a new reference in the persistent group of the cell.
InsertRef(c) ==
  /\ HasChildren(c)
  /\ CanMint(1)
  /\ PutInCell(c, Minted(1))
  /\ Answers("ops", "insert_ref", {c}, Minted(1))
  /\ nextObject' = nextObject + 1
  /\ UNCHANGED <<masters, top>>
  /\ Recount

\* esp_clone_cluster of a record that is no cell, into the persistent group
\* of a cell.
CloneCluster(seed, n, c) ==
  /\ seed \in top \cup RefsIn(block)
  /\ HasChildren(c)
  /\ CanMint(n)
  /\ PutInCell(c, Minted(n))
  /\ Answers("ops", "clone_cluster", {seed, c}, Minted(n))
  /\ nextObject' = nextObject + n
  /\ UNCHANGED <<masters, top>>
  /\ Recount

\* ... and without a cell: the clones are in no list and are not written, but
\* their ids are used up.
CloneDetached(seed, n) ==
  /\ seed \in top \cup RefsIn(block)
  /\ CanMint(n)
  /\ Answers("ops", "clone_cluster", {seed}, Minted(n))
  /\ nextObject' = nextObject + n
  /\ UNCHANGED <<masters, top, block>>
  /\ Recount

\* esp_clone_record, of any record, into the list that holds it.
CloneRecord(seed) ==
  /\ "loose cells" \in Risks \/ Bare({seed})
  /\ CanMint(1)
  /\ \E clone \in Minted(1) :
       \/ CloneInTop(seed, clone)
       \/ CloneInBlock(seed, clone)
       \/ CloneInGroup(seed, clone)
  /\ Answers("ops", "clone_record", {seed}, Minted(1))
  /\ nextObject' = nextObject + 1
  /\ UNCHANGED masters
  /\ Recount

\* esp_delete_records: records go, groups stay.
DeleteRecords(S) ==
  /\ S \subseteq Records(top, block)
  /\ "loose cells" \in Risks \/ Bare(S)
  /\ top' = top \ S
  /\ block' = Dropped(block, S)
  /\ Answers("ops", "delete_records", S, {})
  /\ UNCHANGED <<masters, nextObject>>
  /\ Recount

\* esp_delete_cells: cells go, with the children group behind each.
DeleteCells(S) ==
  /\ S \subseteq CellsIn(block)
  /\ block' = Without(block, Reverted(block, S))
  /\ Answers("ops", "delete_cells", S, {})
  /\ UNCHANGED <<masters, nextObject, top>>
  /\ Recount

\* esp_add_master appends; esplib refuses the plugin itself.
AddMaster(name) ==
  /\ Len(masters) < MaxMasters
  /\ name # Self
  /\ \A i \in DOMAIN masters : masters[i] # name
  /\ masters' = Append(masters, name)
  /\ Answers("ops", "add_master", {}, {})
  /\ UNCHANGED <<nextObject, top, block>>
  /\ Recount

\* esp_rename_master: the first master of that name, whatever the new name.
RenameMaster(old, new) ==
  /\ \E i \in DOMAIN masters :
       /\ masters[i] = old
       /\ \A j \in 1..(i - 1) : masters[j] # old
       /\ masters' = [masters EXCEPT ![i] = new]
  /\ Answers("ops", "rename_master", {}, {})
  /\ UNCHANGED <<nextObject, top, block>>
  /\ Recount
=============================================================================
