------------------------------ MODULE SaveClean ------------------------------
(***************************************************************************)
(* Cleaning orphaned script instances out of a game save (chim.save and    *)
(* the save tools of the server), next to a game that writes its saves     *)
(* when it likes.  One call is a sequence of steps: it reads and cleans in *)
(* memory, looks whether the game runs, writes the cleaned copy, copies    *)
(* the SKSE co-save to match, and reads the copy back.                     *)
(***************************************************************************)
EXTENDS Naturals, Sequences, FiniteSets, Positions

CONSTANTS
  Saves,       \* the .ess files
  Spellings,   \* the ways to write the path of a file (case, on Windows)
  Stems, Stem, \* the name of a save without its extension: names its co-save
  Beside,      \* Beside[f]: the file f_CHIMCLEAN of a save f that calls name
  Heaps,       \* Papyrus heaps that the game writes
  Native,      \* script names that the game itself defines
  SectionLen,  \* the length of each section of a save but the heap
  Absent, Torn,
  MaxSaves,    \* bound on the saves that the game makes
  MaxCleans    \* bound on the calls

Sections == {"prefix", "plugins", "table1", "table2", "changes", "before",
             "after", "formids", "worlds"}

ASSUME SaveAssumption ==
  /\ Stem \in [Saves -> Stems]
  /\ DOMAIN Beside \subseteq Saves
  /\ \A f \in DOMAIN Beside : Beside[f] \in Saves \ {f}
  /\ SectionLen \in [Sections -> Nat]
  /\ {MaxSaves, MaxCleans} \subseteq Nat
  /\ Absent # Torn /\ {Absent, Torn} \cap Nat = {}
  /\ \A h \in Heaps :
       /\ h.rest \in Seq({h.rest[k] : k \in DOMAIN h.rest})
       /\ IsFiniteSet(h.scripts) /\ IsFiniteSet(h.insts)
       /\ \A i, j \in h.insts : i.eid = j.eid => i = j \* handles of the game

-----------------------------------------------------------------------------
(* The heap.  As bytes: the script definitions [name, stub], the instance   *)
(* headers [eid, name, attached], and behind them one run of blocks, each   *)
(* led by an id: nothing but the first id that is no instance's tells where *)
(* the data of the instances ends.                                          *)

Eids(insts) == {i.eid : i \in insts}

ParseHeap(bytes) ==
  LET n == CHOOSE k \in 0 .. Len(bytes.rest) :
             /\ \A j \in 1 .. k : bytes.rest[j] \in Eids(bytes.insts)
             /\ k < Len(bytes.rest) => bytes.rest[k + 1] \notin Eids(bytes.insts)
  IN  [scripts |-> bytes.scripts, insts |-> bytes.insts,
       data |-> SubSeq(bytes.rest, 1, n),
       tail |-> SubSeq(bytes.rest, n + 1, Len(bytes.rest))]

HeapBytes(heap) ==
  [scripts |-> heap.scripts, insts |-> heap.insts, rest |-> heap.data \o heap.tail]

\* Mutant: the blocks of the instances that were removed stay.
RemoveHeaders(heap, eids) ==
  [heap EXCEPT !.insts = {i \in heap.insts : i.eid \notin eids}]

RemoveInstances(heap, eids) ==
  LET Stays(e) == e \notin eids
  IN  [heap EXCEPT !.insts = {i \in heap.insts : Stays(i.eid)},
                   !.data = Sublist(@, {k \in DOMAIN @ : Stays(@[k])})]

StubScript(sc) == sc.stub /\ sc.name \notin Native

UndefinedNames(heap) == {sc.name : sc \in {s \in heap.scripts : StubScript(s)}}

UndefinedInstance(heap, i) ==
  \/ i.name \in UndefinedNames(heap)
  \/ i.name \notin {sc.name : sc \in heap.scripts} \cup Native

RemoveUnattached(heap) ==
  RemoveInstances(heap, Eids({i \in heap.insts : ~i.attached}))

RemoveUndefined(heap) ==
  [RemoveInstances(heap, Eids({i \in heap.insts : UndefinedInstance(heap, i)}))
     EXCEPT !.scripts = {sc \in heap.scripts : ~StubScript(sc)}]

CountOrphans(heap) ==
  [undefined |-> Cardinality({i \in heap.insts : UndefinedInstance(heap, i)}),
   unattached |-> Cardinality({i \in heap.insts : ~i.attached})]

-----------------------------------------------------------------------------
(* The container: sections one behind the other, and a location table with  *)
(* the offsets of six of them.                                              *)

\* The length of the heap: definitions, headers and blocks of fixed sizes.
HeapLen(bytes) ==
  12 * Cardinality(bytes.scripts) + 20 * Cardinality(bytes.insts) + 21 * Len(bytes.rest)

\* The order and the lengths in which serialize_body puts the sections.
Body(bytes) ==
  << <<"version", 1>>, <<"plugins", 4 + SectionLen["plugins"]>>, <<"flt", 100>>,
     <<"table1", SectionLen["table1"]>>, <<"table2", SectionLen["table2"]>>,
     <<"changes", SectionLen["changes"]>>,
     <<"table3", SectionLen["before"] + 8 + HeapLen(bytes) + SectionLen["after"]>>,
     <<"formids", SectionLen["formids"]>>, <<"worlds", SectionLen["worlds"]>>,
     <<"trailing", 0>> >>

\* The offsets for a length of the heap's section.
FltFor(papyrus) ==
  LET t1 == SectionLen["prefix"] + 1 + 4 + SectionLen["plugins"] + 100
      t2 == t1 + SectionLen["table1"]
      cf == t2 + SectionLen["table2"]
      t3 == cf + SectionLen["changes"]
      fid == t3 + SectionLen["before"] + papyrus + SectionLen["after"]
      ut3 == fid + SectionLen["formids"] + SectionLen["worlds"]
  IN  [formids |-> fid, trailing |-> ut3, table1 |-> t1, table2 |-> t2,
       changes |-> cf, table3 |-> t3]

\* Mutant: the type and the size in front of the heap are not counted.
RebuildFltBare(bytes) == FltFor(HeapLen(bytes))

RebuildFlt(bytes) == FltFor(8 + HeapLen(bytes))

\* A save that was written whole: its heap, its location table, and which of
\* the game's saves it is, or was cleaned from.
Save(bytes, game) == [heap |-> bytes, flt |-> RebuildFlt(bytes), game |-> game]

Clean(bytes, mode) ==
  LET heap == ParseHeap(bytes)
  IN  HeapBytes(IF mode = "unattached" THEN RemoveUnattached(heap)
                                       ELSE RemoveUndefined(heap))

-----------------------------------------------------------------------------
VARIABLES
  saves,    \* the content of each .ess file
  cosaves,  \* of each co-save: which of the game's saves it belongs to
  made,     \* how many saves the game has made
  cleans,   \* how many calls were made
  running,  \* whether the game or the editor runs
  svCall,   \* the call under way
  svReport  \* the last call that returned its report, until a file changes

svVars == <<saves, cosaves, made, cleans, running, svCall, svReport>>

NoCall == [stage |-> "idle"]
NoReport == [ok |-> FALSE]

Paths == [file : Saves, spelling : Spellings]

IsSave(f) == saves[f] \notin {Absent, Torn}

\* At first there is one save of the game, with a co-save or without.
SvStarts == [file : DOMAIN Beside, heap : Heaps, cosave : {0, Absent}]

SvInitFrom(start) ==
  /\ saves = [f \in Saves |-> IF f = start.file THEN Save(start.heap, 0) ELSE Absent]
  /\ cosaves = [s \in Stems |-> IF s = Stem[start.file] THEN start.cosave ELSE Absent]
  /\ made = 0
  /\ cleans = 0
  /\ running = FALSE
  /\ svCall = NoCall
  /\ svReport = NoReport

SvInit == \E start \in SvStarts : SvInitFrom(start)

\* The game, or the Creation Kit, is started or closed.
GameToggle ==
  /\ running' = ~running
  /\ UNCHANGED <<saves, cosaves, made, cleans, svCall, svReport>>

\* The game overwrites a save and its co-save.  A call under way that has read
\* the save is now about an older one.
GameSaves(f, h) ==
  /\ running
  /\ made < MaxSaves
  /\ made' = made + 1
  /\ saves' = [saves EXCEPT ![f] = Save(h, made')]
  /\ cosaves' = [cosaves EXCEPT ![Stem[f]] = made']
  /\ svCall' = IF svCall.stage = "idle" THEN svCall ELSE [svCall EXCEPT !.raced = TRUE]
  /\ svReport' = NoReport
  /\ UNCHANGED <<cleans, running>>

\* save_clean_orphans reads the save and cleans it in memory.  A missing or
\* torn save raises, and a dry run returns here.
BeginClean(path, mode, out) ==
  /\ svCall.stage = "idle"
  /\ cleans < MaxCleans
  /\ cleans' = cleans + 1
  /\ IsSave(path.file)
  /\ svCall' = [stage |-> "check", path |-> path, out |-> out, mode |-> mode,
                base |-> saves[path.file].heap,
                cleaned |-> Save(Clean(saves[path.file].heap, mode), saves[path.file].game),
                paired |-> cosaves[Stem[path.file]] = saves[path.file].game,
                cosave |-> Absent, copied |-> FALSE, raced |-> FALSE]
  /\ svReport' = NoReport
  /\ UNCHANGED <<saves, cosaves, made, running>>

\* An out that is spelled like the save is refused.
SaveCleanOrphans(path, mode, out) == out # path /\ BeginClean(path, mode, out)

\* Without an out, the copy goes beside the save.
CleanBeside(path, mode) ==
  SaveCleanOrphans(path, mode, [path EXCEPT !.file = Beside[path.file]])

\* The lock check: the call is refused while the game runs.
SaveLockCheck ==
  /\ svCall.stage = "check"
  /\ svCall' = IF running THEN NoCall ELSE [svCall EXCEPT !.stage = "write"]
  /\ UNCHANGED <<saves, cosaves, made, cleans, running, svReport>>

\* The write of the cleaned copy, and one that fails or dies part way.
WriteCleaned ==
  /\ svCall.stage = "write"
  /\ saves' = [saves EXCEPT ![svCall.out.file] = svCall.cleaned]
  /\ svCall' = [svCall EXCEPT !.stage = "readcosave"]
  /\ UNCHANGED <<cosaves, made, cleans, running, svReport>>

WriteCleanedFails ==
  /\ svCall.stage = "write"
  /\ saves' = [saves EXCEPT ![svCall.out.file] = Torn]
  /\ svCall' = NoCall
  /\ UNCHANGED <<cosaves, made, cleans, running, svReport>>

\* The co-save is read; without one the call goes on.
ReadCosave ==
  /\ svCall.stage = "readcosave"
  /\ LET c == cosaves[Stem[svCall.path.file]]
     IN  svCall' = [svCall EXCEPT !.stage = IF c = Absent THEN "verify" ELSE "writecosave",
                                  !.cosave = c]
  /\ UNCHANGED <<saves, cosaves, made, cleans, running, svReport>>

\* It is written beside the copy; an error in it is swallowed.
WriteCosave ==
  /\ svCall.stage = "writecosave"
  /\ cosaves' = [cosaves EXCEPT ![Stem[svCall.out.file]] = svCall.cosave]
  /\ svCall' = [svCall EXCEPT !.stage = "verify", !.copied = TRUE]
  /\ UNCHANGED <<saves, made, cleans, running, svReport>>

\* Mutant: copied is set before the write.
WriteCosaveFailsCopied ==
  /\ svCall.stage = "writecosave"
  /\ cosaves' \in {cosaves, [cosaves EXCEPT ![Stem[svCall.out.file]] = Torn]}
  /\ svCall' = [svCall EXCEPT !.stage = "verify", !.copied = TRUE]
  /\ UNCHANGED <<saves, made, cleans, running, svReport>>

WriteCosaveFails ==
  /\ svCall.stage = "writecosave"
  /\ cosaves' \in {cosaves, [cosaves EXCEPT ![Stem[svCall.out.file]] = Torn]}
  /\ svCall' = [svCall EXCEPT !.stage = "verify"]
  /\ UNCHANGED <<saves, made, cleans, running, svReport>>

\* The copy is read back and its orphans are counted for the report.
VerifyCleaned ==
  /\ svCall.stage = "verify"
  /\ svReport' = IF IsSave(svCall.out.file)
                 THEN [ok |-> TRUE, out |-> svCall.out.file, copied |-> svCall.copied,
                       paired |-> svCall.paired, raced |-> svCall.raced,
                       left |-> CountOrphans(ParseHeap(saves[svCall.out.file].heap))[svCall.mode]]
                 ELSE NoReport
  /\ svCall' = NoCall
  /\ UNCHANGED <<saves, cosaves, made, cleans, running>>

\* The server dies between two steps.
CleanCrash ==
  /\ svCall.stage # "idle"
  /\ svCall' = NoCall
  /\ UNCHANGED <<saves, cosaves, made, cleans, running, svReport>>

SvNext ==
  \/ GameToggle
  \/ \E f \in DOMAIN Beside, h \in Heaps : GameSaves(f, h)
  \/ \E path \in [file : DOMAIN Beside, spelling : Spellings],
        mode \in {"undefined", "unattached"} :
       \/ CleanBeside(path, mode)
       \/ \E out \in Paths : SaveCleanOrphans(path, mode, out)
  \/ SaveLockCheck
  \/ WriteCleaned \/ WriteCleanedFails
  \/ ReadCosave \/ WriteCosave \/ WriteCosaveFails
  \/ VerifyCleaned
  \/ CleanCrash

SvSpec == SvInit /\ [][SvNext]_svVars

-----------------------------------------------------------------------------

\* "Copies the paired co-save to match": when a call reports that it copied
\* the co-save, the cleaned save and its co-save are of one save of the game,
\* if they were before and the game did not save while the call ran (the save
\* is read before the lock check, the co-save long after).
CosaveMatches ==
  svReport.ok /\ svReport.copied /\ svReport.paired /\ ~svReport.raced =>
    cosaves[Stem[svReport.out]] = saves[svReport.out].game

\* What was written reads back as what was meant: the heap is cut up again at
\* the same place though nothing in it says where the instance data ends, the
\* instances and blocks that are left are all those that are no orphans, and
\* none of the kind asked for is found again.
CleanedReadsBack ==
  svCall.stage \in {"readcosave", "writecosave", "verify"} /\ ~svCall.raced =>
    LET base == ParseHeap(svCall.base)
        now == ParseHeap(saves[svCall.out.file].heap)
        Orphan(i) == IF svCall.mode = "unattached" THEN ~i.attached
                                                   ELSE UndefinedInstance(base, i)
    IN  /\ now.insts = {i \in base.insts : ~Orphan(i)}
        /\ now.tail = base.tail
        /\ \A i \in now.insts : (\E k \in DOMAIN base.data : base.data[k] = i.eid) =>
                                \E k \in DOMAIN now.data : now.data[k] = i.eid
        /\ CountOrphans(now)[svCall.mode] = 0

\* Where each section begins, by the lengths of those in front of it.
StartOf(body) ==
  LET s[k \in DOMAIN body] ==
        IF k = 1 THEN SectionLen["prefix"] ELSE s[k - 1] + body[k - 1][2]
  IN  s

\* The location table of every save that is whole says where its sections are,
\* whatever the cleaning removed in front of them (_rebuild_flt adds up the
\* lengths again, apart from serialize_body that writes them).
OffsetsTrue ==
  \A f \in Saves : IsSave(f) =>
    LET body == Body(saves[f].heap)
    IN  \A k \in {n \in DOMAIN body : body[n][1] \in DOMAIN saves[f].flt} :
          saves[f].flt[body[k][1]] = StartOf(body)[k]
=============================================================================
