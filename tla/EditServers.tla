----------------------------- MODULE EditServers -----------------------------
(***************************************************************************)
(* One plugin, edited by the tools of both servers in any order, and what  *)
(* must stay true of it.                                                   *)
(***************************************************************************)
EXTENDS LegacyEdits

CONSTANTS
  Engines,  \* the engines in use, of "ops" and "edit"
  MaxBatch  \* bound on the clones, and on the ids, that one call asks for

ASSUME BoundsAssumption == MaxMasters \in Nat /\ MaxBatch \in Nat

\* The sets of ids that one call may ask for.
Batches(ids) == {S \in SUBSET ids : S # {} /\ Cardinality(S) <= MaxBatch}

Labels == {block[k].id : k \in {i \in DOMAIN block : block[i].kind = "children"}}

OpsNext ==
  \/ \E c \in Labels : InsertRef(c)
  \/ \E seed \in top \cup RefsIn(block), n \in 1..MaxBatch, c \in Labels :
       CloneCluster(seed, n, c)
  \/ \E seed \in top \cup RefsIn(block), n \in 1..MaxBatch : CloneDetached(seed, n)
  \/ \E seed \in Records(top, block) : CloneRecord(seed)
  \/ \E S \in Batches(Records(top, block)) : DeleteRecords(S)
  \/ \E S \in Batches(CellsIn(block)) : DeleteCells(S)
  \/ \E name \in Names : AddMaster(name)
  \/ \E old, new \in Names : RenameMaster(old, new)

LegacyNext ==
  \/ \E c \in Labels : LegacyInsertRef(c)
  \/ \E seed \in top \cup RefsIn(block), n \in 1..MaxBatch, c \in Labels :
       LegacyCloneCluster(seed, n, c)
  \/ \E seed \in top \cup RefsIn(block), n \in 1..MaxBatch : LegacyCloneDetached(seed, n)
  \/ \E seed \in Records(top, block) : LegacyCloneRecord(seed)
  \/ \E S \in Batches(Records(top, block)) : LegacyDeleteRecords(S)
  \/ \E S \in Batches(CellsIn(block)) : LegacyDeleteCells(S)

Next ==
  \/ "ops" \in Engines /\ OpsNext
  \/ "edit" \in Engines /\ LegacyNext

Spec == Init /\ [][Next]_vars

-----------------------------------------------------------------------------

\* No two records have one form id, whichever calls of either engine put them
\* there: the id names the record that move_ref, set_flag and the subrecord
\* tools edit (ops.py find_record).
IdsUnique == Unique(top, block)

\* An id that a call mints is new: no record has it, none had it before it was
\* deleted, and no other call was given it for clones that it never attached
\* (mint_form_id, _alloc_form_ids; add_master in between moves the index).
FreshIds == [][answer'.new \cap issued = {}]_vars

\* HEDR.num_records is right after every call, though one engine counts again
\* and the other adds and subtracts (docs/SPEC.md 1.6: records and groups).
CountRight == numRecords = Size(top, block)

\* Every children group lies behind its own cell, so that the game, and
\* delete_cells, find it there.
ChildrenBehindCell == BehindItsCell(block)

\* A call of the newer engine leaves the groups of every cell in their order,
\* persistent before temporary (ops.py _ensure_persistent_group).
OrderKept == [][answer'.engine = "ops" /\ Ordered(block) => Ordered(block')]_vars

\* delete_cells removes the cells it is asked for with the records of *their*
\* children groups, and no other record (server.py esp_delete_cells).
OwnChildrenGo ==
  [][answer'.tool = "delete_cells" =>
       LET S == answer'.asked
           below == UNION {RefsBelow(block, k) : k \in
                      {i \in DOMAIN block : block[i].kind = "children" /\ block[i].id \in S}}
       IN  Records(top', block') = Records(top, block) \ (S \cup below)]_vars
=============================================================================
