----------------------------- MODULE LegacyEdits -----------------------------
(***************************************************************************)
(* chim/esp/edit.py: the edits of chim/server_legacy.py, which work on     *)
(* chim's own tree and keep HEDR.num_records by hand.  The two servers     *)
(* edit the same plugins: EditServers lets their calls alternate.          *)
(***************************************************************************)
EXTENDS PluginEdits

-----------------------------------------------------------------------------
(* _alloc_form_ids, _ensure_persistent_group and insert_records.           *)

\* The object id is cut to its 24 bits: after the last one comes 0.
LegacyObject(i) == (nextObject + i) % (MaxObject + 1)

LegacyMinted(k) ==
  {[index |-> Len(masters), object |-> LegacyObject(i)] : i \in 0..(k - 1)}

\* Mutant: the counter is bumped once for all the clones of a call.
LegacyMintOnce(k) ==
  /\ nextObject + k <= MaxObject + 1
  /\ nextObject' = LegacyObject(0) + 1

LegacyMint(k) ==
  /\ "wrap" \in Risks \/ nextObject + k <= MaxObject + 1
  /\ nextObject' = LegacyObject(k - 1) + 1

\* A new persistent group is appended.
LegacyEnsured(groups) ==
  IF HasPersistent(groups) THEN groups
  ELSE Append(groups, [type |-> Persistent, refs |-> {}])

\* Mutant: the group that was created is not counted.
LegacyPutUncounted(c, refs) ==
  LET k == ChildrenOf(c)
  IN  /\ block' = [block EXCEPT ![k].groups = AddRefs(LegacyEnsured(@), refs)]
      /\ numRecords' = numRecords + Cardinality(refs)

\* insert_records counts the records and the group it had to create.
LegacyPut(c, refs) ==
  LET k == ChildrenOf(c)
      groups == block[k].groups
  IN  /\ block' = [block EXCEPT ![k].groups = AddRefs(LegacyEnsured(@), refs)]
      /\ numRecords' = numRecords + Cardinality(refs)
                         + (IF HasPersistent(groups) THEN 0 ELSE 1)

-----------------------------------------------------------------------------
(* The tools.                                                              *)

LegacyInsertRef(c) ==
  /\ HasChildren(c)
  /\ LegacyMint(1)
  /\ LegacyPut(c, LegacyMinted(1))
  /\ Answers("edit", "insert_ref", {c}, LegacyMinted(1))
  /\ UNCHANGED <<masters, top>>

LegacyCloneCluster(seed, n, c) ==
  /\ seed \in top \cup RefsIn(block)
  /\ HasChildren(c)
  /\ LegacyMint(n)
  /\ LegacyPut(c, LegacyMinted(n))
  /\ Answers("edit", "clone_cluster", {seed, c}, LegacyMinted(n))
  /\ UNCHANGED <<masters, top>>

LegacyCloneDetached(seed, n) ==
  /\ seed \in top \cup RefsIn(block)
  /\ LegacyMint(n)
  /\ Answers("edit", "clone_cluster", {seed}, LegacyMinted(n))
  /\ UNCHANGED <<masters, top, block, numRecords>>

LegacyCloneRecord(seed) ==
  /\ "loose cells" \in Risks \/ Bare({seed})
  /\ LegacyMint(1)
  /\ \E clone \in LegacyMinted(1) :
       \/ CloneInTop(seed, clone)
       \/ CloneInBlock(seed, clone)
       \/ CloneInGroup(seed, clone)
  /\ Answers("edit", "clone_record", {seed}, LegacyMinted(1))
  /\ numRecords' = numRecords + 1
  /\ UNCHANGED masters

LegacyDeleteRecords(S) ==
  /\ S \subseteq Records(top, block)
  /\ "loose cells" \in Risks \/ Bare(S)
  /\ top' = top \ S
  /\ block' = Dropped(block, S)
  /\ Answers("edit", "delete_records", S, {})
  /\ numRecords' = numRecords - Cardinality(S)
  /\ UNCHANGED <<masters, nextObject>>

\* The count goes down by the records removed; the groups that went with them
\* were counted, too.
LegacyDeleteCells(S) ==
  /\ S \subseteq CellsIn(block)
  /\ "miscount" \in Risks \/ Bare(S)
  /\ LET gone == Reverted(block, S)
     IN  /\ block' = Without(block, gone)
         /\ numRecords' = numRecords
              - Cardinality(S \cup UNION {RefsBelow(block, k) : k \in gone})
  /\ Answers("edit", "delete_cells", S, {})
  /\ UNCHANGED <<masters, nextObject, top>>
=============================================================================
