----------------------------- MODULE RecordFields -----------------------------
(***************************************************************************)
(* The fields of one record under the newer server: the subrecord tools,   *)
(* esp_set_flag, esp_move_ref and the tools for the script data (VMAD).    *)
(* Each tool runs in a transaction (module PluginTransaction); here a call *)
(* is one step.  A call that raises changes nothing and is no step.        *)
(***************************************************************************)
EXTENDS FieldLists, Positions

CONSTANTS
  RecordKinds,    \* the signatures of records
  FragmentKinds,  \* those whose script data has a fragment block
  FieldSigs,      \* the signatures of fields that are edited
  RecordFlags,    \* header flags
  Bodies,         \* contents of fields
  FieldLens,      \* lengths of fields
  Scripts, Fragments, Aliases, \* parts of the script data
  NoFragment, EmptyFragment, NoAliases, NoVmad,
  MaxFields,      \* bound on the fields of the record
  MaxInserted     \* bound on the fields that are inserted

ASSUME RecordFieldsAssumption ==
  /\ {MaxFields, MaxInserted} \cup FieldLens \subseteq Nat
  /\ FieldLens # {}
  /\ FragmentKinds \subseteq RecordKinds
  /\ {"DATA", "VMAD"} \subseteq FieldSigs
  /\ "compressed" \in RecordFlags
  /\ "QUST" \in FragmentKinds
  /\ NoFragment \notin Fragments \cup {EmptyFragment}

Places == [at : {"after", "before"}, sig : FieldSigs]
          \cup [at : {"index"}, pos : 0 .. MaxFields] \cup [at : {"end"}]

VARIABLES
  rfKind,     \* the signature of the record
  rfFields,   \* its fields: [id, sig, len, body]; id tells a field from its like
  rfFlags,    \* its header flags
  rfInserted, \* how many fields were inserted
  rfSeen,     \* an entry of esp_get_subrecords that the caller goes by
  rfStale,    \* signatures inserted or deleted since
  rfVmad      \* the script data as last set, until a field tool touches it

rfVars == <<rfKind, rfFields, rfFlags, rfInserted, rfSeen, rfStale, rfVmad>>

-----------------------------------------------------------------------------
(* Script data.                                                            *)

Vmads == [scripts : Scripts, fragment : Fragments \cup {NoFragment}, aliases : Aliases \cup {NoAliases}]

\* esplib: the block of alias scripts is written for a quest, and only behind a
\* fragment block; fragments are read back for the records that have them.
VmadBytes(v) ==
  [v EXCEPT !.aliases = IF rfKind = "QUST" /\ v.fragment # NoFragment THEN @ ELSE NoAliases]
VmadFrom(bytes) ==
  IF rfKind \in FragmentKinds THEN bytes
                              ELSE [bytes EXCEPT !.fragment = NoFragment, !.aliases = NoAliases]

VmadToDict == VmadFrom(rfFields[NthIndex(rfFields, "VMAD", 0)].body)

\* Mutant: the data is written as it was given.
VmadAsGiven(d) == VmadBytes(d)

\* Alias scripts without a fragment block get an empty one in front.
VmadFromDict(d) ==
  VmadBytes([d EXCEPT !.fragment =
               IF d.aliases # NoAliases /\ @ = NoFragment THEN EmptyFragment ELSE @])

-----------------------------------------------------------------------------
(* The tools.                                                              *)

NoSeen == [sig |-> "none", index |-> 0, id |-> 0]

\* The subrecord tools and esp_move_ref store the record uncompressed.
DecompressForEdit == rfFlags' = rfFlags \ {"compressed"}

\* A subrecord tool that writes a VMAD field ends what esp_set_vmad set.
TouchesVmad(sig) == rfVmad' = IF sig = "VMAD" THEN NoVmad ELSE rfVmad

\* Mutant: the entries are numbered by their place in the record.
FieldPlaces(only) ==
  {[sig |-> rfFields[i].sig, index |-> i - 1, id |-> rfFields[i].id] :
     i \in {j \in DOMAIN rfFields : only = "all" \/ rfFields[j].sig = only}}

\* The entries of esp_get_subrecords, of all fields or of one signature: each
\* with the number of the occurrence in the whole record.
FieldViews(only) ==
  {[sig |-> rfFields[i].sig, index |-> OccurrenceIndex(rfFields, i), id |-> rfFields[i].id] :
     i \in {j \in DOMAIN rfFields : only = "all" \/ rfFields[j].sig = only}}

EspGetSubrecords(only) ==
  /\ \E v \in FieldViews(only) : rfSeen' = v
  /\ rfStale' = {}
  /\ UNCHANGED <<rfKind, rfFields, rfFlags, rfInserted, rfVmad>>

\* Where a patch may end: in a field of any length, or behind it.
PatchEnds == FieldLens \cup {len + 1 : len \in FieldLens}

EspSetSubrecord(sig, n, len, body) ==
  LET Set(f) == [f EXCEPT !.len = len, !.body = body]
  IN  /\ HasNth(rfFields, sig, n)
      /\ rfFields' = SetNth(rfFields, sig, n, Set)
      /\ DecompressForEdit
      /\ TouchesVmad(sig)
      /\ UNCHANGED <<rfKind, rfInserted, rfSeen, rfStale>>

EspPatchSubrecord(sig, n, end, body) ==
  LET Patch(f) == [f EXCEPT !.body = body]
  IN  /\ HasNth(rfFields, sig, n)
      /\ PatchFits(rfFields[NthIndex(rfFields, sig, n)], end)
      /\ rfFields' = SetNth(rfFields, sig, n, Patch)
      /\ DecompressForEdit
      /\ TouchesVmad(sig)
      /\ UNCHANGED <<rfKind, rfInserted, rfSeen, rfStale>>

EspInsertSubrecord(sig, where, len, body) ==
  /\ HasPlace(rfFields, where)
  /\ Len(rfFields) < MaxFields
  /\ rfInserted < MaxInserted
  /\ rfInserted' = rfInserted + 1
  /\ rfFields' = InsertField(rfFields, where,
                   [id |-> 100 + rfInserted, sig |-> sig, len |-> len, body |-> body])
  /\ rfStale' = rfStale \cup {sig}
  /\ DecompressForEdit
  /\ TouchesVmad(sig)
  /\ UNCHANGED <<rfKind, rfSeen>>

EspDeleteSubrecord(sig, n) ==
  /\ HasNth(rfFields, sig, n)
  /\ rfFields' = DeleteNth(rfFields, sig, n)
  /\ rfStale' = rfStale \cup {sig}
  /\ DecompressForEdit
  /\ TouchesVmad(sig)
  /\ UNCHANGED <<rfKind, rfInserted, rfSeen>>

EspSetFlag(flag, clear) ==
  /\ rfFlags' = IF clear THEN rfFlags \ {flag} ELSE rfFlags \cup {flag}
  /\ UNCHANGED <<rfKind, rfFields, rfInserted, rfSeen, rfStale, rfVmad>>

\* A field of a signature gets a new payload: the first, or one at the end.
PutFirst(sig, len, body) ==
  LET Put(f) == [f EXCEPT !.len = len, !.body = body]
  IN  IF HasNth(rfFields, sig, 0)
      THEN /\ rfFields' = SetNth(rfFields, sig, 0, Put)
           /\ UNCHANGED <<rfInserted, rfStale>>
      ELSE /\ Len(rfFields) < MaxFields
           /\ rfInserted < MaxInserted
           /\ rfInserted' = rfInserted + 1
           /\ rfStale' = rfStale \cup {sig}
           /\ rfFields' = Append(rfFields,
                [id |-> 100 + rfInserted, sig |-> sig, len |-> len, body |-> body])

EspMoveRef(body) ==
  /\ PutFirst("DATA", Max(FieldLens), body)
  /\ DecompressForEdit
  /\ UNCHANGED <<rfKind, rfSeen, rfVmad>>

\* The compressed flag stays: esplib compresses what was modified again.
EspSetVmad(d) ==
  /\ PutFirst("VMAD", Max(FieldLens), VmadFromDict(d))
  /\ rfVmad' = d
  /\ UNCHANGED <<rfKind, rfFlags, rfSeen>>

\* At first the record is a compressed one of two fields of one signature.
RfStarts == [kind : RecordKinds, body : Bodies]

RfInitFrom(start) ==
  /\ rfKind = start.kind
  /\ rfFields = [i \in 1 .. 2 |->
       [id |-> i, sig |-> "DATA", len |-> Max(FieldLens), body |-> start.body]]
  /\ rfFlags = {"compressed"}
  /\ rfInserted = 0
  /\ rfSeen = NoSeen
  /\ rfStale = {}
  /\ rfVmad = NoVmad

RfInit == \E start \in RfStarts : RfInitFrom(start)

RfNext ==
  \/ \E only \in FieldSigs \cup {"all"} : EspGetSubrecords(only)
  \/ \E sig \in FieldSigs, n \in 0 .. MaxFields - 1, body \in Bodies :
       \/ \E len \in FieldLens : EspSetSubrecord(sig, n, len, body)
       \/ \E end \in PatchEnds : EspPatchSubrecord(sig, n, end, body)
  \/ \E sig \in FieldSigs, where \in Places, len \in FieldLens, body \in Bodies :
       EspInsertSubrecord(sig, where, len, body)
  \/ \E sig \in FieldSigs, n \in 0 .. MaxFields - 1 : EspDeleteSubrecord(sig, n)
  \/ \E flag \in RecordFlags, clear \in BOOLEAN : EspSetFlag(flag, clear)
  \/ \E body \in Bodies : EspMoveRef(body)
  \/ \E d \in Vmads : EspSetVmad(d)

RfSpec == RfInit /\ [][RfNext]_rfVars

-----------------------------------------------------------------------------

\* "The index values can be fed straight back to the mutating tools": an edit
\* of an occurrence that the caller has seen changes that field, and no other,
\* whatever calls came between, if none inserted or deleted its signature.
ViewedOccurrenceHit ==
  [][LET Others(fields) ==
           Sublist(fields, {i \in DOMAIN fields : fields[i].id # rfSeen.id})
         Edit(sig, n) ==
           \/ EspDeleteSubrecord(sig, n)
           \/ \E len \in FieldLens, body \in Bodies : EspSetSubrecord(sig, n, len, body)
           \/ \E end \in PatchEnds, body \in Bodies :
                EspPatchSubrecord(sig, n, end, body)
     IN  rfSeen # NoSeen /\ rfSeen.sig \notin rfStale /\ Edit(rfSeen.sig, rfSeen.index) =>
           Others(rfFields') = Others(rfFields)]_rfVars

\* What esp_set_vmad was given is what esp_get_vmad reads until a subrecord tool
\* writes the field: the scripts of any record, the alias scripts of a quest
\* (the file has no room for them without a fragment block), the fragments.
VmadKept ==
  rfVmad # NoVmad =>
    /\ VmadToDict.scripts = rfVmad.scripts
    /\ rfKind = "QUST" => VmadToDict.aliases = rfVmad.aliases
    /\ rfKind \in FragmentKinds /\ rfVmad.fragment # NoFragment =>
         VmadToDict.fragment = rfVmad.fragment
=============================================================================
