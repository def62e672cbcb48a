------------------------------ MODULE FieldLists ------------------------------
(***************************************************************************)
(* The fields of a record as a sequence of records with a signature sig.   *)
(* The tools name a field by its signature and by the number of that       *)
(* occurrence, counted from 0.  chim.esp.subrecords, chim.esp.ops and      *)
(* chim.tes3.ops each have these operations.                               *)
(***************************************************************************)
EXTENDS Naturals, FiniteSets, SequencesExt

Occurrences(fields, sig) == {i \in DOMAIN fields : fields[i].sig = sig}

\* The number of the occurrence at a position.
OccurrenceIndex(fields, pos) ==
  Cardinality({i \in Occurrences(fields, fields[pos].sig) : i < pos})

HasNth(fields, sig, n) == n < Cardinality(Occurrences(fields, sig))

NthIndex(fields, sig, n) ==
  CHOOSE i \in Occurrences(fields, sig) : OccurrenceIndex(fields, i) = n

\* One occurrence is changed, or removed.
SetNth(fields, sig, n, Change(_)) ==
  LET i == NthIndex(fields, sig, n)
  IN  [fields EXCEPT ![i] = Change(fields[i])]

DeleteNth(fields, sig, n) == RemoveAt(fields, NthIndex(fields, sig, n))

\* A place to insert at: [at |-> "after" | "before", sig |-> ...],
\* [at |-> "index", pos |-> ...] or [at |-> "end"].
HasPlace(fields, where) ==
  CASE where.at = "index" -> where.pos \in 0 .. Len(fields)
    [] where.at = "end" -> TRUE
    [] OTHER -> Occurrences(fields, where.sig) # {}

\* After the last, or before the first, field of a signature.
InsertPosition(fields, where) ==
  CASE where.at = "index" -> where.pos + 1
    [] where.at = "after" -> Max(Occurrences(fields, where.sig)) + 1
    [] where.at = "before" -> Min(Occurrences(fields, where.sig))
    [] where.at = "end" -> Len(fields) + 1

InsertField(fields, where, new) == InsertAt(fields, InsertPosition(fields, where), new)

\* The bytes to overwrite, up to an offset, lie within the payload.
PatchFits(field, end) == end <= field.len
=============================================================================
