----------------------------- MODULE LegacyFields -----------------------------
(***************************************************************************)
(* The fields of one record under the legacy server (chim.esp.fields,      *)
(* compression, subrecords and edit).  Every tool parses the field stream  *)
(* of the record, changes the list and packs it again; the check of a      *)
(* transaction walks records and groups and never looks into the stream.   *)
(***************************************************************************)
EXTENDS FieldLists, Positions

CONSTANTS
  LgRecords,    \* field lists that records have at first
  LgSigs,       \* signatures that calls pass, "XXXX" among them
  LgLens,       \* lengths of payloads that calls pass
  LgBodies,     \* contents; what the bytes of an override say is a number too
  Donor,        \* the fields of the record that esp_swap_model copies from
  MaxU16,       \* the largest length that the size of a field can state
  OverrideLen,  \* the length of the payload of an XXXX field
  PlaceLen,     \* the length of a placement (DATA)
  MaxLgFields,  \* bound on the fields of the record
  MaxLgInserts  \* bound on the fields that are inserted

ASSUME LegacyFieldsAssumption ==
  /\ {MaxU16, OverrideLen, PlaceLen, MaxLgFields, MaxLgInserts} \cup LgLens \cup LgBodies
       \subseteq Nat
  /\ OverrideLen <= MaxU16
  /\ LgRecords \cup {Donor}
       \subseteq Seq([id : Nat, sig : STRING \ {"XXXX"}, len : Nat, body : Nat])

VARIABLES
  lgFlags,    \* header flags of the record
  lgStored,   \* how its data is stored: "plain" or "zlib"
  lgStream,   \* its field stream, uncompressed: entries [sig, size, len, body, id]
  lgInserted, \* how many fields were inserted
  lgWanted,   \* what the fields are by the calls made
  lgTaint     \* a call has written an XXXX field, or switched the compressed flag

lgVars == <<lgFlags, lgStored, lgStream, lgInserted, lgWanted, lgTaint>>

-----------------------------------------------------------------------------
(* The stream.  A size states a length up to MaxU16; an XXXX field in       *)
(* front states it otherwise.                                               *)

\* Mutant: a length that does not fit is cut to 16 bits.
PackFieldCut(f) ==
  << [id |-> f.id, sig |-> f.sig, size |-> f.len % (MaxU16 + 1), len |-> f.len, body |-> f.body] >>

PackField(f) ==
  IF f.len > MaxU16
  THEN << [id |-> 0, sig |-> "XXXX", size |-> OverrideLen, len |-> OverrideLen, body |-> f.len],
          [id |-> f.id, sig |-> f.sig, size |-> 0, len |-> f.len, body |-> f.body] >>
  ELSE << [id |-> f.id, sig |-> f.sig, size |-> f.len, len |-> f.len, body |-> f.body] >>

PackFields(fields) == FlattenSeq([i \in DOMAIN fields |-> PackField(fields[i])])

IsOverride(e) == e.sig = "XXXX"

\* The stream is cut up where it was put together: every override has its
\* length and a field behind it, and every field runs for the length that it,
\* or the override in front of it, states.  Otherwise parsing raises, or comes
\* upon fields that nobody wrote.
WellFormed(stream) ==
  \A i \in DOMAIN stream :
    IF IsOverride(stream[i])
    THEN stream[i].size = OverrideLen /\ i < Len(stream)
    ELSE stream[i].len = IF i > 1 /\ IsOverride(stream[i - 1])
                         THEN stream[i - 1].body ELSE stream[i].size

FieldOf(e) == [id |-> e.id, sig |-> e.sig, len |-> e.len, body |-> e.body]

ParseFields(stream) ==
  Sublist([i \in DOMAIN stream |-> FieldOf(stream[i])],
          {i \in DOMAIN stream : ~IsOverride(stream[i])})

IsCompressed == "compressed" \in lgFlags

\* decompress_record goes by the flag: it inflates what is no zlib stream, or
\* hands a zlib stream on as fields.
Readable == (IsCompressed <=> lgStored = "zlib") /\ WellFormed(lgStream)

ReadFields == ParseFields(lgStream)

\* Stored uncompressed, whatever the record was.
StoreFields(fields) ==
  /\ lgFlags' = lgFlags \ {"compressed"}
  /\ lgStored' = "plain"
  /\ lgStream' = PackFields(fields)

-----------------------------------------------------------------------------
(* The tools.  All but the flag tool raise when the stream is unreadable.  *)

\* An edit Change of the field list, applied to what is read, and to what the
\* calls so far amount to.
LgEdit(Change(_)) ==
  /\ Readable
  /\ Len(Change(ReadFields)) <= MaxLgFields
  /\ StoreFields(Change(ReadFields))
  /\ lgWanted' = Change(lgWanted)

LgNth(sig, n) == Readable /\ HasNth(ReadFields, sig, n)

LgSetSubrecord(sig, n, len, body) ==
  LET Set(f) == [f EXCEPT !.len = len, !.body = body]
      Change(fields) == SetNth(fields, sig, n, Set)
  IN  /\ LgNth(sig, n)
      /\ LgEdit(Change)
      /\ UNCHANGED <<lgInserted, lgTaint>>

LgPatchSubrecord(sig, n, end, body) ==
  LET Patch(f) == [f EXCEPT !.body = body]
      Change(fields) == SetNth(fields, sig, n, Patch)
  IN  /\ LgNth(sig, n)
      /\ PatchFits(ReadFields[NthIndex(ReadFields, sig, n)], end)
      /\ LgEdit(Change)
      /\ UNCHANGED <<lgInserted, lgTaint>>

\* Any four characters are a signature.
LgInsertSubrecord(sig, where, len, body) ==
  LET new == [id |-> 100 + lgInserted, sig |-> sig, len |-> len, body |-> body]
      Change(fields) == InsertField(fields, where, new)
  IN  /\ Readable
      /\ HasPlace(ReadFields, where)
      /\ lgInserted < MaxLgInserts
      /\ lgInserted' = lgInserted + 1
      /\ lgTaint' = (lgTaint \/ sig = "XXXX")
      /\ LgEdit(Change)

LgDeleteSubrecord(sig, n) ==
  LET Change(fields) == DeleteNth(fields, sig, n)
  IN  /\ LgNth(sig, n)
      /\ LgEdit(Change)
      /\ UNCHANGED <<lgInserted, lgTaint>>

\* A header edit: the data stays as it is stored, also under "compressed".
LgSetFlag(flag) ==
  /\ lgFlags' = lgFlags \cup {flag}
  /\ lgTaint' = (lgTaint \/ (flag = "compressed" /\ lgFlags' # lgFlags))
  /\ UNCHANGED <<lgStored, lgStream, lgInserted, lgWanted>>

LgClearFlag(flag) ==
  /\ lgFlags' = lgFlags \ {flag}
  /\ lgTaint' = (lgTaint \/ (flag = "compressed" /\ lgFlags' # lgFlags))
  /\ UNCHANGED <<lgStored, lgStream, lgInserted, lgWanted>>

\* esp_move_ref rewrites the first DATA, or appends one.
LgMoveRef(body) ==
  LET Put(f) == [f EXCEPT !.len = PlaceLen, !.body = body]
      Change(fields) ==
        IF HasNth(fields, "DATA", 0)
        THEN SetNth(fields, "DATA", 0, Put)
        ELSE Append(fields, [id |-> 50, sig |-> "DATA", len |-> PlaceLen, body |-> body])
  IN  /\ LgEdit(Change)
      /\ UNCHANGED <<lgInserted, lgTaint>>

\* A model field of the donor replaces the first of its signature, or goes in
\* at the cursor, which it moves on.
CopyModel(done, sig) ==
  LET new == Donor[NthIndex(Donor, sig, 0)]
      Same(f) == new
  IN  CASE ~HasNth(Donor, sig, 0) -> done
        [] HasNth(Donor, sig, 0) /\ HasNth(done.fields, sig, 0) ->
             [fields |-> SetNth(done.fields, sig, 0, Same), cursor |-> done.cursor]
        [] OTHER ->
             [fields |-> InsertAt(done.fields, done.cursor + 1, new),
              cursor |-> done.cursor + 1]

\* The cursor starts behind EDID, or in front of all.
SwapModel(fields) ==
  LET edid == IF HasNth(fields, "EDID", 0) THEN NthIndex(fields, "EDID", 0) ELSE 0
      start == [fields |-> fields, cursor |-> edid]
  IN  CopyModel(CopyModel(CopyModel(start, "OBND"), "MODL"), "MODT").fields

\* No tool calls swap_model: it is there for callers of the library.
LgSwapModel ==
  /\ LgEdit(SwapModel)
  /\ UNCHANGED <<lgInserted, lgTaint>>

LgStarts == [fields : LgRecords, stored : {"plain", "zlib"}]

LgInitFrom(start) ==
  /\ lgWanted = start.fields
  /\ lgStream = PackFields(lgWanted)
  /\ lgStored = start.stored
  /\ lgFlags = IF lgStored = "zlib" THEN {"compressed"} ELSE {}
  /\ lgInserted = 0
  /\ lgTaint = FALSE

LgInit == \E start \in LgStarts : LgInitFrom(start)

LgNext ==
  \/ \E sig \in LgSigs, n \in 0 .. MaxLgFields - 1 :
       \/ \E len \in LgLens, body \in LgBodies : LgSetSubrecord(sig, n, len, body)
       \/ \E end \in LgLens, body \in LgBodies : LgPatchSubrecord(sig, n, end, body)
       \/ LgDeleteSubrecord(sig, n)
  \/ \E sig \in LgSigs, len \in LgLens, body \in LgBodies,
        where \in [at : {"after", "before"}, sig : LgSigs]
                  \cup [at : {"index"}, pos : 0 .. MaxLgFields] \cup [at : {"end"}] :
       LgInsertSubrecord(sig, where, len, body)
  \/ \E flag \in {"compressed", "deleted"} : LgSetFlag(flag) \/ LgClearFlag(flag)
  \/ \E body \in LgBodies : LgMoveRef(body)
  \/ LgSwapModel

LgSpec == LgInit /\ [][LgNext]_lgVars

-----------------------------------------------------------------------------

\* "Growing a field past 0xFFFF (or shrinking one back) produces a valid stream
\* automatically": whatever calls were made on a record, plain or compressed,
\* it can be read, and has the fields that the calls amount to.  Two calls are
\* the exception, which nothing refuses or notices: a field by the name XXXX,
\* and the compressed flag set or cleared over data that stays as it is.
LegacyReadsBack == ~lgTaint => Readable /\ ReadFields = lgWanted
=============================================================================
