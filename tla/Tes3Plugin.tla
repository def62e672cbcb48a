------------------------------ MODULE Tes3Plugin ------------------------------
(***************************************************************************)
(* A Morrowind plugin (chim.tes3): a header and a flat list of records,    *)
(* found by their type and their id, a string kept in one of their own     *)
(* subrecords.  Each tool runs in a transaction; a call is one step here,  *)
(* and a call that raises is none.                                         *)
(***************************************************************************)
EXTENDS FieldLists, Positions

CONSTANTS
  T3Names,      \* ids of records and names of masters, as they are spelled
  T3Fold,       \* T3Fold[n]: n in lower case
  T3Types,      \* types of records
  IdSubrec,     \* IdSubrec[type]: the subrecord that holds the id of a record
  T3Sigs,       \* signatures of subrecords
  T3Lens,       \* lengths of payloads
  T3Starts,     \* plugins at first; the count they state may be wrong
  T3Sizes,      \* file sizes of masters
  MaxT3Records, \* bound on the records
  MaxT3Subs,    \* bound on the subrecords of a record
  MaxT3Calls    \* bound on the calls

ASSUME Tes3Assumption ==
  /\ T3Fold \in [T3Names -> T3Names]
  /\ \A s \in T3Starts : s.header \in Seq([sig : STRING, body : T3Names \cup Nat])
  /\ \A s \in T3Starts : s.records \in Seq([type : T3Types, deleted : BOOLEAN, subs : Seq([sig : STRING, len : Nat, body : T3Names])])
  /\ IdSubrec \in [T3Types -> T3Sigs]
  /\ {MaxT3Records, MaxT3Subs, MaxT3Calls} \cup T3Lens \cup T3Sizes \subseteq Nat

VARIABLES
  t3Header,   \* the subrecords of the header but HEDR's count: [sig, body]
  t3Stored,   \* the number of records that HEDR states
  t3Records,  \* the records: [type, deleted, subs], subs of [sig, len, body]
  t3Calls     \* how many calls were made

t3Vars == <<t3Header, t3Stored, t3Records, t3Calls>>

-----------------------------------------------------------------------------
(* Records are found by type and id.                                       *)

HasId(rec) == HasNth(rec.subs, IdSubrec[rec.type], 0)
RecordId(rec) == rec.subs[NthIndex(rec.subs, IdSubrec[rec.type], 0)].body

IsRecord(rec, type, id) ==
  /\ rec.type = type
  /\ HasId(rec)
  /\ RecordId(rec) \in T3Names
  /\ T3Fold[RecordId(rec)] = T3Fold[id]

Matches(type, id) == {i \in DOMAIN t3Records : IsRecord(t3Records[i], type, id)}

\* The first match; none raises.
FindTes3(type, id) == Min(Matches(type, id))

\* A call on the record of a type and an id; its count is left as it is, also
\* where it was wrong.
Tes3Edit(type, id, subs, deleted) ==
  /\ Len(subs) <= MaxT3Subs
  /\ t3Calls < MaxT3Calls
  /\ t3Calls' = t3Calls + 1
  /\ t3Records' = [t3Records EXCEPT ![FindTes3(type, id)].subs = subs,
                                    ![FindTes3(type, id)].deleted = deleted]
  /\ UNCHANGED <<t3Header, t3Stored>>

Found(type, id) == t3Records[FindTes3(type, id)]

Tes3SetSubrecord(type, id, sig, n, len, body) ==
  LET Set(f) == [f EXCEPT !.len = len, !.body = body]
  IN  /\ Matches(type, id) # {}
      /\ HasNth(Found(type, id).subs, sig, n)
      /\ Tes3Edit(type, id, SetNth(Found(type, id).subs, sig, n, Set), Found(type, id).deleted)

Tes3PatchSubrecord(type, id, sig, n, end, body) ==
  LET Patch(f) == [f EXCEPT !.body = body]
  IN  /\ Matches(type, id) # {}
      /\ HasNth(Found(type, id).subs, sig, n)
      /\ PatchFits(Found(type, id).subs[NthIndex(Found(type, id).subs, sig, n)], end)
      /\ Tes3Edit(type, id, SetNth(Found(type, id).subs, sig, n, Patch), Found(type, id).deleted)

\* An index out of range is moved into it; without the signature to insert
\* after or before, the subrecord goes to the end.
Tes3InsertPosition(subs, where) ==
  CASE where.at = "index" -> InsertPosition(subs, [where EXCEPT !.pos = Min({@, Len(subs)})])
    [] where.at # "index" /\ HasPlace(subs, where) -> InsertPosition(subs, where)
    [] OTHER -> Len(subs) + 1

Tes3InsertSubrecord(type, id, sig, where, len, body) ==
  /\ Matches(type, id) # {}
  /\ Tes3Edit(type, id,
       InsertAt(Found(type, id).subs, Tes3InsertPosition(Found(type, id).subs, where),
                [sig |-> sig, len |-> len, body |-> body]),
       Found(type, id).deleted)

Tes3DeleteSubrecord(type, id, sig, n) ==
  /\ Matches(type, id) # {}
  /\ HasNth(Found(type, id).subs, sig, n)
  /\ Tes3Edit(type, id, DeleteNth(Found(type, id).subs, sig, n), Found(type, id).deleted)

\* The soft delete: the flag, and a DELE subrecord, once.
Tes3MarkDeleted(type, id) ==
  /\ Matches(type, id) # {}
  /\ LET subs == Found(type, id).subs
     IN  Tes3Edit(type, id,
           IF HasNth(subs, "DELE", 0) THEN subs
           ELSE Append(subs, [sig |-> "DELE", len |-> 4, body |-> 0]), TRUE)

-----------------------------------------------------------------------------
(* The calls that change how many records there are count them anew.       *)

\* Mutant: a record that is marked deleted is not counted.
RecomputeLiveRecords ==
  t3Stored' = Cardinality({i \in DOMAIN t3Records' : ~t3Records'[i].deleted})

RecomputeNumRecords == t3Stored' = Len(t3Records')

\* Nothing checks that the id is new, nor that there is one.
Tes3AddRecord(type, subs) ==
  /\ Len(t3Records) < MaxT3Records
  /\ t3Calls < MaxT3Calls
  /\ t3Calls' = t3Calls + 1
  /\ t3Records' = Append(t3Records, [type |-> type, deleted |-> FALSE, subs |-> subs])
  /\ RecomputeNumRecords
  /\ UNCHANGED t3Header

\* All records of the type and one of the ids go.
Tes3DeleteRecords(type, ids) ==
  LET Kept(rec) == \A id \in ids : ~IsRecord(rec, type, id)
  IN  /\ t3Calls < MaxT3Calls
      /\ t3Calls' = t3Calls + 1
      /\ IF \A i \in DOMAIN t3Records : Kept(t3Records[i])
         THEN UNCHANGED <<t3Records, t3Stored>>
         ELSE /\ t3Records' = Sublist(t3Records, {i \in DOMAIN t3Records : Kept(t3Records[i])})
              /\ RecomputeNumRecords
      /\ UNCHANGED t3Header

-----------------------------------------------------------------------------
(* Masters: each MAST of the header, with the size in the DATA behind it.  *)

MasterAt(header, i) ==
  [name |-> header[i].body,
   size |-> IF i < Len(header) /\ header[i + 1].sig = "DATA" THEN header[i + 1].body ELSE 0]

Masters(header) ==
  Sublist([i \in DOMAIN header |-> MasterAt(header, i)], Occurrences(header, "MAST"))

IsMaster(name) ==
  \E i \in DOMAIN t3Header : t3Header[i].sig = "MAST" /\ T3Fold[t3Header[i].body] = T3Fold[name]

\* Mutant: behind HEDR, in front of the other masters.
FirstMasterPosition == Min(Occurrences(t3Header, "HEDR")) + 1

\* Behind the last MAST or DATA, else behind HEDR.
MasterPosition ==
  LET pairs == Occurrences(t3Header, "MAST") \cup Occurrences(t3Header, "DATA")
      hedr == Occurrences(t3Header, "HEDR")
  IN  IF pairs # {} THEN Max(pairs) + 1
      ELSE IF hedr # {} THEN Min(hedr) + 1 ELSE Len(t3Header) + 1

\* A master that is there already is left alone.
Tes3AddMaster(name, size) ==
  /\ t3Calls < MaxT3Calls
  /\ t3Calls' = t3Calls + 1
  /\ t3Header' = IF IsMaster(name) THEN t3Header
                 ELSE InsertAt(InsertAt(t3Header, MasterPosition, [sig |-> "MAST", body |-> name]),
                               MasterPosition + 1, [sig |-> "DATA", body |-> size])
  /\ UNCHANGED <<t3Stored, t3Records>>

\* The first of the name; that new may name another master is not looked at.
Tes3RenameMaster(old, new) ==
  /\ IsMaster(old)
  /\ t3Calls < MaxT3Calls
  /\ t3Calls' = t3Calls + 1
  /\ LET i == Min({j \in Occurrences(t3Header, "MAST") : T3Fold[t3Header[j].body] = T3Fold[old]})
     IN  t3Header' = [t3Header EXCEPT ![i].body = new]
  /\ UNCHANGED <<t3Stored, t3Records>>

T3InitFrom(start) ==
  /\ t3Header = start.header
  /\ t3Records = start.records
  /\ t3Stored = start.stored
  /\ t3Calls = 0

T3Init == \E start \in T3Starts : T3InitFrom(start)

T3Next ==
  \/ \E type \in T3Types, id \in T3Names, sig \in T3Sigs :
       \/ \E n \in 0 .. MaxT3Subs - 1 :
            \/ \E len \in T3Lens, body \in T3Names : Tes3SetSubrecord(type, id, sig, n, len, body)
            \/ \E end \in T3Lens, body \in T3Names : Tes3PatchSubrecord(type, id, sig, n, end, body)
            \/ Tes3DeleteSubrecord(type, id, sig, n)
       \/ \E len \in T3Lens, body \in T3Names,
             where \in [at : {"after", "before"}, sig : T3Sigs]
                       \cup [at : {"index"}, pos : 0 .. MaxT3Subs + 1] \cup [at : {"end"}] :
            Tes3InsertSubrecord(type, id, sig, where, len, body)
  \/ \E type \in T3Types, id \in T3Names : Tes3MarkDeleted(type, id)
  \/ \E type \in T3Types, id \in T3Names, len \in T3Lens :
       Tes3AddRecord(type, << [sig |-> IdSubrec[type], len |-> len, body |-> id] >>)
  \/ \E type \in T3Types, ids \in SUBSET T3Names : Tes3DeleteRecords(type, ids)
  \/ \E name \in T3Names, size \in T3Sizes : Tes3AddMaster(name, size)
  \/ \E old, new \in T3Names : Tes3RenameMaster(old, new)

T3Spec == T3Init /\ [][T3Next]_t3Vars

-----------------------------------------------------------------------------

\* HEDR's count is recomputed by the calls that change how many records there
\* are, and by no other: a wrong count in a released master stays until then
\* (a soft delete, a subrecord that gives a record another id or none, a new
\* master, and a deletion that finds nothing do not touch it), and becomes
\* right then, whatever it was.  (tes3_add_record's docstring has it go up by
\* one, which is another number where it was wrong.)
CountFollows ==
  [][IF Len(t3Records') = Len(t3Records) THEN t3Stored' = t3Stored
                                         ELSE t3Stored' = Len(t3Records')]_t3Vars

\* References between Morrowind files go by the place of a master: a call
\* leaves the master list as it is, puts one master of a new name behind the
\* others, or gives one another name in its place and with its size, whatever
\* else the header holds and wherever.
MasterListKept ==
  [][LET old == Masters(t3Header)
         new == Masters(t3Header')
     IN  \/ new = old
         \/ \E m \in [name : T3Names, size : T3Sizes] :
              /\ new = Append(old, m)
              /\ \A i \in DOMAIN old : T3Fold[old[i].name] # T3Fold[m.name]
         \/ \E i \in DOMAIN old, n \in T3Names : new = [old EXCEPT ![i].name = n]]_t3Vars
=============================================================================
