--------------------------- MODULE SaveCleanProofs ---------------------------
(***************************************************************************)
(* Proofs about SaveClean: whatever the game writes meanwhile and wherever *)
(* a call is broken off, a co-save that is reported as copied belongs to   *)
(* the cleaned save, and the cleaned save reads back as what was meant,    *)
(* its sections where its table says.                                      *)
(***************************************************************************)
EXTENDS SaveClean, SequenceTheorems, OrderLemmas, TLAPS

CallFields == {"stage", "path", "out", "mode", "base", "cleaned", "paired", "cosave",
               "copied", "raced"}

\* The shape of the files and of a call, and that its two paths differ.
SvTypeOK ==
  /\ saves = [f \in Saves |-> saves[f]]
  /\ cosaves = [s \in Stems |-> cosaves[s]]
  /\ svCall.stage # "idle" =>
       /\ svCall = [k \in CallFields |-> svCall[k]]
       /\ svCall.path \in Paths
       /\ svCall.out \in Paths
       /\ svCall.out # svCall.path

\* The pairing, from what the call has read to what it reports: as long as the
\* game does not save, the co-save beside the original is that of the cleaned
\* heap if it ever was; the copy is what was cleaned; a co-save that was copied
\* is beside the copy.
CallPaired ==
  svCall.stage # "idle" =>
    /\ svReport = NoReport
    /\ svCall.paired /\ ~svCall.raced =>
         /\ svCall.stage \in {"check", "write", "readcosave"} =>
              cosaves[Stem[svCall.path.file]] = svCall.cleaned.game
         /\ svCall.stage = "writecosave" => svCall.cosave = svCall.cleaned.game
         /\ svCall.stage \in {"readcosave", "writecosave", "verify"} =>
              saves[svCall.out.file].game = svCall.cleaned.game
         /\ svCall.stage = "verify" /\ svCall.copied =>
              cosaves[Stem[svCall.out.file]] = svCall.cleaned.game
    /\ svCall.stage # "verify" => svCall.copied = FALSE
    /\ svCall.stage \in {"check", "write", "readcosave", "writecosave", "verify"}

LEMMA InitShape == SvInit => SvTypeOK
<1> QED BY SMT DEF SvInit, SvInitFrom, SvTypeOK, NoCall

LEMMA BegunShape ==
  ASSUME SvTypeOK, NEW path \in Paths, NEW mode, NEW out \in Paths,
         SaveCleanOrphans(path, mode, out)
  PROVE  SvTypeOK'
<1>1. UNCHANGED <<saves, cosaves>> /\ out # path
  BY DEF SaveCleanOrphans, BeginClean
<1>2. /\ svCall'.path = path /\ svCall'.out = out
      /\ svCall' = [k \in CallFields |-> svCall'[k]]
  BY SMT DEF SaveCleanOrphans, BeginClean, CallFields
<1> QED BY <1>1, <1>2 DEF SvTypeOK

\* Where a copy goes that has no name given is another path.
LEMMA BesideDiffers ==
  ASSUME NEW path \in [file : DOMAIN Beside, spelling : Spellings]
  PROVE  /\ path \in Paths
         /\ [path EXCEPT !.file = Beside[path.file]] \in Paths
  BY SaveAssumption DEF Paths

LEMMA CallsBegin ==
  ASSUME NEW path \in [file : DOMAIN Beside, spelling : Spellings],
         NEW mode \in {"undefined", "unattached"},
         \/ CleanBeside(path, mode)
         \/ \E out \in Paths : SaveCleanOrphans(path, mode, out)
  PROVE  path \in Paths /\ \E out \in Paths : SaveCleanOrphans(path, mode, out)
<1> QED BY BesideDiffers DEF CleanBeside

\* A call that goes on is about the same paths and the same copy.
SameCall(new, old) ==
  /\ new = [k \in CallFields |-> new[k]]
  /\ new.path = old.path /\ new.out = old.out
  /\ new.base = old.base /\ new.mode = old.mode /\ new.cleaned = old.cleaned
  /\ new.paired = old.paired /\ new.raced = old.raced

LEMMA StagePut ==
  ASSUME NEW c, c = [k \in CallFields |-> c[k]], NEW v
  PROVE  SameCall([c EXCEPT !.stage = v], c) /\ [c EXCEPT !.stage = v].stage = v
         /\ [c EXCEPT !.stage = v].copied = c.copied
  BY SMT DEF SameCall, CallFields

LEMMA CosavePut ==
  ASSUME NEW c, c = [k \in CallFields |-> c[k]], NEW w
  PROVE  LET d == [c EXCEPT !.cosave = w]
         IN  SameCall(d, c) /\ d.stage = c.stage /\ d.cosave = w /\ d.copied = c.copied
  BY SMT DEF SameCall, CallFields

LEMMA CopiedPut ==
  ASSUME NEW c, c = [k \in CallFields |-> c[k]], NEW w
  PROVE  LET d == [c EXCEPT !.copied = w]
         IN  SameCall(d, c) /\ d.stage = c.stage
  BY SMT DEF SameCall, CallFields

\* What the two steps that set two fields of a call make of it.
LEMMA CallSteps ==
  ASSUME svCall.stage # "idle" => svCall = [k \in CallFields |-> svCall[k]]
  PROVE  /\ ReadCosave =>
              LET c == cosaves[Stem[svCall.path.file]]
              IN  /\ SameCall(svCall', svCall)
                  /\ svCall'.stage = IF c = Absent THEN "verify" ELSE "writecosave"
                  /\ svCall'.cosave = c /\ svCall'.copied = svCall.copied
         /\ WriteCosave => SameCall(svCall', svCall) /\ svCall'.stage = "verify"
<1>1. ASSUME ReadCosave
      PROVE  LET c == cosaves[Stem[svCall.path.file]]
             IN  /\ SameCall(svCall', svCall)
                 /\ svCall'.stage = IF c = Absent THEN "verify" ELSE "writecosave"
                 /\ svCall'.cosave = c /\ svCall'.copied = svCall.copied
  <2> DEFINE c == cosaves[Stem[svCall.path.file]]
             stage == IF c = Absent THEN "verify" ELSE "writecosave"
             staged == [svCall EXCEPT !.stage = stage]
  <2>1. svCall = [k \in CallFields |-> svCall[k]]
    BY <1>1 DEF ReadCosave
  <2>2. svCall' = [staged EXCEPT !.cosave = c]
    BY <1>1, Zenon DEF ReadCosave
  <2> HIDE DEF c, stage
  <2>3. SameCall(staged, svCall) /\ staged.stage = stage /\ staged.copied = svCall.copied
    BY <2>1, StagePut
  <2> HIDE DEF staged
  <2>4. staged = [k \in CallFields |-> staged[k]]
    BY <2>3 DEF SameCall
  <2>5. /\ SameCall(svCall', staged) /\ svCall'.stage = staged.stage
        /\ svCall'.cosave = c /\ svCall'.copied = staged.copied
    BY <2>2, <2>4, CosavePut
  <2>6. /\ SameCall(svCall', svCall) /\ svCall'.stage = stage
        /\ svCall'.cosave = c /\ svCall'.copied = svCall.copied
    BY <2>3, <2>5 DEF SameCall
  <2> QED BY <2>6, Zenon DEF c, stage
<1>2. ASSUME WriteCosave PROVE SameCall(svCall', svCall) /\ svCall'.stage = "verify"
  <2> DEFINE staged == [svCall EXCEPT !.stage = "verify"]
  <2>1. svCall = [k \in CallFields |-> svCall[k]]
    BY <1>2 DEF WriteCosave
  <2>2. svCall' = [staged EXCEPT !.copied = TRUE]
    BY <1>2, Zenon DEF WriteCosave
  <2>3. SameCall(staged, svCall) /\ staged.stage = "verify"
    BY <2>1, StagePut
  <2> HIDE DEF staged
  <2>4. staged = [k \in CallFields |-> staged[k]]
    BY <2>3 DEF SameCall
  <2>5. SameCall(svCall', staged) /\ svCall'.stage = staged.stage
    BY <2>2, <2>4, CopiedPut
  <2> QED BY <2>3, <2>5 DEF SameCall
<1> QED BY <1>1, <1>2

\* A step within a call leaves what the call is about as it is.
LEMMA StepShape ==
  ASSUME SvTypeOK,
         SaveLockCheck \/ WriteCleaned \/ ReadCosave \/ WriteCosave \/ WriteCosaveFails
  PROVE  /\ svCall.stage # "idle"
         /\ SvTypeOK'
         /\ svCall' = NoCall \/ SameCall(svCall', svCall)
<1>1. svCall.stage # "idle"
  BY DEF SaveLockCheck, WriteCleaned, ReadCosave, WriteCosave, WriteCosaveFails
<1>2. svCall = [k \in CallFields |-> svCall[k]]
  BY <1>1 DEF SvTypeOK
<1>3. saves' = [f \in Saves |-> saves'[f]] /\ cosaves' = [s \in Stems |-> cosaves'[s]]
  BY SMT DEF SvTypeOK, SaveLockCheck, WriteCleaned, ReadCosave, WriteCosave, WriteCosaveFails
<1>4. svCall' = NoCall \/ SameCall(svCall', svCall)
  <2>1. CASE SaveLockCheck \/ WriteCleaned \/ WriteCosaveFails
    <3>1. svCall' = NoCall \/ \E v : svCall' = [svCall EXCEPT !.stage = v]
      BY <2>1, Zenon DEF SaveLockCheck, WriteCleaned, WriteCosaveFails
    <3> QED BY <3>1, <1>2, StagePut
  <2>2. CASE ReadCosave \/ WriteCosave
    BY <1>2, <2>2, CallSteps
  <2> QED BY <2>1, <2>2
<1> QED BY <1>1, <1>3, <1>4 DEF SvTypeOK, NoCall, SameCall

LEMMA NextShape == SvTypeOK /\ [SvNext]_svVars => SvTypeOK'
<1> SUFFICES ASSUME SvTypeOK, [SvNext]_svVars PROVE SvTypeOK'
  OBVIOUS
<1>1. CASE GameToggle
  BY <1>1 DEF SvTypeOK, GameToggle
<1>2. ASSUME NEW f \in DOMAIN Beside, NEW h \in Heaps, GameSaves(f, h) PROVE SvTypeOK'
  <2>1. saves' = [g \in Saves |-> saves'[g]] /\ cosaves' = [s \in Stems |-> cosaves'[s]]
    BY <1>2, SMT DEF SvTypeOK, GameSaves
  <2>2. svCall.stage = "idle" => svCall' = svCall
    BY <1>2 DEF GameSaves
  <2>3. svCall.stage # "idle" => /\ svCall' = [k \in CallFields |-> svCall'[k]]
                                 /\ svCall'.path = svCall.path /\ svCall'.out = svCall.out
    <3>1. svCall.stage # "idle" => svCall' = [svCall EXCEPT !.raced = TRUE]
      BY <1>2 DEF GameSaves
    <3>2. svCall.stage # "idle" => svCall = [k \in CallFields |-> svCall[k]]
      BY DEF SvTypeOK
    <3> QED BY <3>1, <3>2, SMT DEF CallFields
  <2> QED BY <2>1, <2>2, <2>3 DEF SvTypeOK
<1>3. ASSUME NEW path \in [file : DOMAIN Beside, spelling : Spellings],
             NEW mode \in {"undefined", "unattached"},
             \/ CleanBeside(path, mode)
             \/ \E out \in Paths : SaveCleanOrphans(path, mode, out)
      PROVE  SvTypeOK'
  BY <1>3, CallsBegin, BegunShape
<1>4. CASE SaveLockCheck \/ WriteCleaned \/ ReadCosave \/ WriteCosave \/ WriteCosaveFails
  BY <1>4, StepShape
<1>5. CASE WriteCleanedFails \/ VerifyCleaned \/ CleanCrash
  <2>1. svCall' = NoCall
    BY <1>5 DEF WriteCleanedFails, VerifyCleaned, CleanCrash
  <2>2. saves' = [f \in Saves |-> saves'[f]] /\ cosaves' = [s \in Stems |-> cosaves'[s]]
    BY <1>5, SMT DEF SvTypeOK, WriteCleanedFails, VerifyCleaned, CleanCrash
  <2> QED BY <2>1, <2>2 DEF SvTypeOK, NoCall
<1>6. CASE UNCHANGED svVars
  BY <1>6 DEF SvTypeOK, svVars
<1> QED BY <1>1, <1>2, <1>3, <1>4, <1>5, <1>6 DEF SvNext

LEMMA AlwaysSvTypeOK == SvSpec => []SvTypeOK
<1> QED BY InitShape, NextShape, PTL DEF SvSpec

-----------------------------------------------------------------------------
\* What is reported as copied is paired: CallPaired leads the pairing through
\* the steps of a call, from the co-save beside the original to the report.
PairInv == SvTypeOK /\ CallPaired /\ CosaveMatches

LEMMA InitPaired == SvInit => PairInv
<1> SUFFICES ASSUME SvInit PROVE PairInv
  OBVIOUS
<1>1. svCall.stage = "idle" /\ svReport.ok = FALSE
  BY DEF SvInit, SvInitFrom, NoCall, NoReport
<1> QED BY <1>1, InitShape DEF PairInv, CallPaired, CosaveMatches

LEMMA BegunPaired ==
  ASSUME PairInv, NEW path \in Paths, NEW mode, NEW out \in Paths,
         SaveCleanOrphans(path, mode, out)
  PROVE  PairInv'
<1>1. SvTypeOK'
  BY BegunShape DEF PairInv
<1>2. /\ svCall'.stage = "check" /\ svCall'.path = path /\ svCall'.out = out
      /\ svCall'.copied = FALSE /\ svReport' = NoReport
      /\ cosaves' = cosaves
  BY SMT DEF SaveCleanOrphans, BeginClean
<1>3. svCall'.paired => svCall'.cleaned.game = cosaves[Stem[path.file]]
  <2>1. /\ svCall'.cleaned = Save(Clean(saves[path.file].heap, mode), saves[path.file].game)
        /\ svCall'.paired = (cosaves[Stem[path.file]] = saves[path.file].game)
    BY SMT DEF SaveCleanOrphans, BeginClean
  <2>2. \A b, g : Save(b, g).game = g
    BY DEF Save
  <2>3. svCall'.cleaned.game = saves[path.file].game
    BY <2>1, <2>2
  <2> QED BY <2>1, <2>3
<1> QED BY <1>1, <1>2, <1>3 DEF PairInv, CallPaired, CosaveMatches, NoReport

LEMMA NextPaired == PairInv /\ [SvNext]_svVars => PairInv'
<1> SUFFICES ASSUME PairInv, [SvNext]_svVars PROVE PairInv'
  OBVIOUS
<1> USE DEF PairInv
<1>1. SvTypeOK'
  BY NextShape
<1>2. svCall.stage # "idle" =>
        /\ svCall = [k \in CallFields |-> svCall[k]]
        /\ svCall.path.file \in Saves /\ svCall.out.file \in Saves
        /\ Stem[svCall.path.file] \in Stems /\ Stem[svCall.out.file] \in Stems
        /\ svReport = NoReport
  BY SaveAssumption DEF SvTypeOK, CallPaired, Paths
<1>3. CASE GameToggle
  BY <1>1, <1>3 DEF GameToggle, CallPaired, CosaveMatches
<1>4. ASSUME NEW f \in DOMAIN Beside, NEW h \in Heaps, GameSaves(f, h) PROVE PairInv'
  <2>1. svReport' = NoReport
    BY <1>4 DEF GameSaves
  <2>2. CASE svCall.stage = "idle"
    BY <1>1, <1>4, <2>1, <2>2 DEF GameSaves, CallPaired, CosaveMatches, NoReport
  <2>3. CASE svCall.stage # "idle"
    <3>1. svCall' = [svCall EXCEPT !.raced = TRUE]
      BY <1>4, <2>3 DEF GameSaves
    <3>2. svCall'.raced = TRUE /\ svCall'.stage = svCall.stage /\ svCall'.copied = svCall.copied
      BY <1>2, <2>3, <3>1, SMT DEF CallFields
    <3> QED BY <1>1, <2>1, <2>3, <3>2 DEF CallPaired, CosaveMatches, NoReport
  <2> QED BY <2>2, <2>3
<1>5. ASSUME NEW path \in [file : DOMAIN Beside, spelling : Spellings],
             NEW mode \in {"undefined", "unattached"},
             \/ CleanBeside(path, mode)
             \/ \E out \in Paths : SaveCleanOrphans(path, mode, out)
      PROVE  PairInv'
  BY <1>5, CallsBegin, BegunPaired
<1>6. CASE SaveLockCheck
  <2>1. UNCHANGED <<saves, cosaves, svReport>> /\ svCall.stage = "check"
    BY <1>6 DEF SaveLockCheck
  <2>2. svCall' = NoCall \/ svCall' = [svCall EXCEPT !.stage = "write"]
    BY <1>6 DEF SaveLockCheck
  <2>3. svCall' = NoCall \/
          (SameCall(svCall', svCall) /\ svCall'.stage = "write" /\ svCall'.copied = svCall.copied)
    <3> DEFINE put == [svCall EXCEPT !.stage = "write"]
    <3>1. SameCall(put, svCall) /\ put.stage = "write" /\ put.copied = svCall.copied
      BY <1>2, <2>1, StagePut
    <3> QED BY <2>2, <3>1
  <2> QED BY <1>1, <1>2, <2>1, <2>3 DEF CallPaired, CosaveMatches, NoCall, NoReport, SameCall
<1>7. CASE WriteCleaned
  <2>1. /\ UNCHANGED <<cosaves, svReport>> /\ svCall.stage = "write"
        /\ saves' = [saves EXCEPT ![svCall.out.file] = svCall.cleaned]
    BY <1>7 DEF WriteCleaned
  <2>2. SameCall(svCall', svCall) /\ svCall'.stage = "readcosave" /\ svCall'.copied = svCall.copied
    BY <1>2, <1>7, StagePut DEF WriteCleaned
  <2>3. saves'[svCall.out.file] = svCall.cleaned
    BY <1>2, <2>1 DEF SvTypeOK
  <2> QED BY <1>1, <1>2, <2>1, <2>2, <2>3 DEF CallPaired, CosaveMatches, NoReport, SameCall
<1>8. CASE ReadCosave
  <2> DEFINE c == cosaves[Stem[svCall.path.file]]
             stage == IF c = Absent THEN "verify" ELSE "writecosave"
  <2>1. UNCHANGED <<saves, cosaves, svReport>> /\ svCall.stage = "readcosave"
    BY <1>8 DEF ReadCosave
  <2>2. /\ SameCall(svCall', svCall) /\ svCall'.stage = stage
        /\ svCall'.cosave = c /\ svCall'.copied = svCall.copied
    BY <1>2, <1>8, CallSteps
  <2> QED BY <1>1, <1>2, <2>1, <2>2 DEF CallPaired, CosaveMatches, NoReport, SameCall
<1>9. CASE WriteCosave
  <2>1. /\ UNCHANGED <<saves, svReport>> /\ svCall.stage = "writecosave"
        /\ cosaves' = [cosaves EXCEPT ![Stem[svCall.out.file]] = svCall.cosave]
    BY <1>9 DEF WriteCosave
  <2>2. SameCall(svCall', svCall) /\ svCall'.stage = "verify"
    BY <1>2, <1>9, CallSteps
  <2>3. cosaves'[Stem[svCall.out.file]] = svCall.cosave
    BY <1>2, <2>1 DEF SvTypeOK
  <2> QED BY <1>1, <1>2, <2>1, <2>2, <2>3 DEF CallPaired, CosaveMatches, NoReport, SameCall
<1>10. CASE WriteCosaveFails
  <2>1. /\ UNCHANGED <<saves, svReport>> /\ svCall.stage = "writecosave"
        /\ svCall' = [svCall EXCEPT !.stage = "verify"]
    BY <1>10 DEF WriteCosaveFails
  <2>2. SameCall(svCall', svCall) /\ svCall'.stage = "verify" /\ svCall'.copied = svCall.copied
    BY <1>2, <2>1, StagePut
  <2> QED BY <1>1, <1>2, <2>1, <2>2 DEF CallPaired, CosaveMatches, NoReport, SameCall
<1>11. CASE VerifyCleaned
  <2>1. /\ UNCHANGED <<saves, cosaves>> /\ svCall.stage = "verify" /\ svCall' = NoCall
    BY <1>11 DEF VerifyCleaned
  <2>2. svReport' = NoReport \/
          /\ svReport'.out = svCall.out.file /\ svReport'.copied = svCall.copied
          /\ svReport'.paired = svCall.paired /\ svReport'.raced = svCall.raced
    BY <1>11, SMT DEF VerifyCleaned
  <2> QED BY <1>1, <1>2, <2>1, <2>2 DEF CallPaired, CosaveMatches, NoReport, NoCall
<1>12. CASE WriteCleanedFails \/ CleanCrash
  <2>1. svCall' = NoCall /\ svReport' = NoReport
    BY <1>2, <1>12 DEF WriteCleanedFails, CleanCrash
  <2> QED BY <1>1, <2>1 DEF CallPaired, CosaveMatches, NoReport, NoCall
<1>13. CASE UNCHANGED svVars
  BY <1>1, <1>13 DEF CallPaired, CosaveMatches, svVars
<1> QED
  BY <1>3, <1>4, <1>5, <1>6, <1>7, <1>8, <1>9, <1>10, <1>11, <1>12, <1>13 DEF SvNext

\* A call that reports that it copied the co-save has put a cleaned save and a
\* co-save of one save of the game side by side, if the game did not save in
\* between: for any saves, stems and out, and whatever failed on the way.
THEOREM CopiedCosaveMatches == SvSpec => []CosaveMatches
<1> QED BY InitPaired, NextPaired, PTL DEF SvSpec, PairInv

-----------------------------------------------------------------------------
(* Where the data of the instances ends.                                   *)

WholeHeap(h) ==
  /\ \E X : h.rest \in Seq(X)
  /\ \A i, j \in h.insts : i.eid = j.eid => i = j

\* The blocks up to n are those of ids, and no block behind them is.
Cut(rest, ids, n) ==
  /\ n \in 0 .. Len(rest)
  /\ \A j \in 1 .. n : rest[j] \in ids
  /\ n < Len(rest) => rest[n + 1] \notin ids

LEMMA CutExists ==
  ASSUME NEW X, NEW rest \in Seq(X), NEW ids
  PROVE  \E n : Cut(rest, ids, n)
<1>0. PICK m \in Nat : m = Len(rest)
  OBVIOUS
<1> DEFINE S == {k \in 0 .. m : k = m \/ rest[k + 1] \notin ids}
<1>1. S \subseteq Nat /\ m \in S
  BY <1>0
<1>2. PICK n \in S : \A k \in S : n <= k
  <2>1. \E n \in S : \A k \in S : n <= k
    BY <1>1, LeastNatural
  <2> QED
    BY <2>1
<1>3. n \in 0 .. m
  OBVIOUS
<1>4. ASSUME NEW j \in 1 .. n PROVE rest[j] \in ids
  <2>1. PICK k \in Nat : k = j - 1
    BY <1>3
  <2>2. k \in 0 .. m /\ k < n /\ k + 1 = j
    BY <1>3, <2>1
  <2>3. k \notin S
    BY <1>2, <1>3, <2>2
  <2> QED
    BY <1>3, <2>2, <2>3
<1> QED
  BY <1>0, <1>2, <1>3, <1>4 DEF Cut

LEMMA CutIsOne ==
  ASSUME NEW X, NEW rest \in Seq(X), NEW ids, NEW n, NEW k,
         Cut(rest, ids, n), Cut(rest, ids, k)
  PROVE  n = k
<1>0. PICK m \in Nat : m = Len(rest)
  OBVIOUS
<1>1. ASSUME NEW a, NEW b, Cut(rest, ids, a), Cut(rest, ids, b), a < b PROVE FALSE
  <2>1. a \in 0 .. m /\ b \in 0 .. m
    BY <1>0, <1>1 DEF Cut
  <2>2. a + 1 \in 1 .. b /\ a < m
    BY <1>0, <1>1, <2>1
  <2> QED
    BY <1>0, <1>1, <2>2 DEF Cut
<1>2. n \in Nat /\ k \in Nat
  BY <1>0 DEF Cut
<1>3. ~(n < k) /\ ~(k < n)
  BY <1>1
<1> QED
  BY <1>2, <1>3

LEMMA HeapIsCut ==
  ASSUME NEW X, NEW b, b.rest \in Seq(X), NEW n, Cut(b.rest, Eids(b.insts), n)
  PROVE  ParseHeap(b) = [scripts |-> b.scripts, insts |-> b.insts,
                         data |-> SubSeq(b.rest, 1, n),
                         tail |-> SubSeq(b.rest, n + 1, Len(b.rest))]
<1> DEFINE IsCut(k) == /\ \A j \in 1 .. k : b.rest[j] \in Eids(b.insts)
                       /\ k < Len(b.rest) => b.rest[k + 1] \notin Eids(b.insts)
           c == CHOOSE k \in 0 .. Len(b.rest) : IsCut(k)
<1>1. \A k : Cut(b.rest, Eids(b.insts), k) <=> k \in 0 .. Len(b.rest) /\ IsCut(k)
  BY DEF Cut
<1>2. ParseHeap(b) = [scripts |-> b.scripts, insts |-> b.insts,
                      data |-> SubSeq(b.rest, 1, c),
                      tail |-> SubSeq(b.rest, c + 1, Len(b.rest))]
  BY DEF ParseHeap
<1> HIDE DEF IsCut
<1>3. c \in 0 .. Len(b.rest) /\ IsCut(c)
  BY <1>1
<1> HIDE DEF c
<1>4. Cut(b.rest, Eids(b.insts), c)
  BY <1>1, <1>3
<1>5. c = n
  BY <1>4, CutIsOne
<1> QED
  BY <1>2, <1>5

\* A list is put together and cut at the same place.
LEMMA CutBack ==
  ASSUME NEW X, NEW d \in Seq(X), NEW t \in Seq(X)
  PROVE  /\ SubSeq(d \o t, 1, Len(d)) = d
         /\ SubSeq(d \o t, Len(d) + 1, Len(d \o t)) = t
<1>0. PICK a \in Nat, b \in Nat : a = Len(d) /\ b = Len(t)
  OBVIOUS
<1>1. d \o t \in Seq(X) /\ Len(d \o t) = a + b
  BY <1>0, ConcatProperties
<1>2. SubSeq(d \o t, 1, a) = d
  <2>1. CASE a = 0
    <3>1. d = <<>>
      BY <1>0, <2>1, EmptySeq
    <3>2. SubSeq(d \o t, 1, 0) = <<>>
      BY SubSeqEmpty
    <3> QED
      BY <2>1, <3>1, <3>2
  <2>2. CASE a # 0
    <3>1. 1 \in 1 .. a /\ a \in 1 .. a
      BY <2>2
    <3>2. SubSeq(d \o t, 1, a) = SubSeq(d, 1, a)
      BY <1>0, <3>1, SubSeqOfConcat1
    <3> QED
      BY <1>0, <3>2, SubSeqFull
  <2> QED
    BY <2>1, <2>2
<1>3. SubSeq(d \o t, a + 1, a + b) = t
  <2>1. CASE b = 0
    <3>1. t = <<>>
      BY <1>0, <2>1, EmptySeq
    <3>2. \A u : SubSeq(u, a + 1, a) = <<>>
      BY SubSeqEmpty
    <3>3. a + b = a
      BY <2>1
    <3> QED
      BY <3>1, <3>2, <3>3
  <2>2. CASE b # 0
    <3>1. a + 1 \in a + 1 .. a + b /\ a + b \in a + 1 .. a + b
      BY <2>2
    <3>2. SubSeq(d \o t, a + 1, a + b) = SubSeq(t, (a + 1) - a, (a + b) - a)
      BY <1>0, <3>1, SubSeqOfConcat2
    <3>3. (a + 1) - a = 1 /\ (a + b) - a = b
      OBVIOUS
    <3> QED
      BY <1>0, <3>2, <3>3, SubSeqFull
  <2> QED
    BY <2>1, <2>2
<1> QED
  BY <1>0, <1>1, <1>2, <1>3

\* The heap that is left when instances and definitions are taken away.
Left(p, eids, scripts) ==
  [scripts |-> scripts, insts |-> {i \in p.insts : i.eid \notin eids},
   data |-> Sublist(p.data, {k \in DOMAIN p.data : p.data[k] \notin eids}),
   tail |-> p.tail]

\* What a parse makes of a heap.
LEMMA ParsedFacts ==
  ASSUME NEW b, WholeHeap(b)
  PROVE  LET p == ParseHeap(b)
         IN  /\ p.insts = b.insts /\ p.scripts = b.scripts
             /\ p = [scripts |-> p.scripts, insts |-> p.insts, data |-> p.data, tail |-> p.tail]
             /\ \E X : p.data \in Seq(X) /\ p.tail \in Seq(X)
             /\ \A k \in DOMAIN p.data : p.data[k] \in Eids(b.insts)
             /\ Len(p.tail) > 0 => p.tail[1] \notin Eids(b.insts)
<1>1. PICK X : b.rest \in Seq(X)
  BY DEF WholeHeap
<1>0. PICK m \in Nat : m = Len(b.rest)
  BY <1>1
<1>2. PICK n : Cut(b.rest, Eids(b.insts), n)
  BY <1>1, CutExists
<1> DEFINE p == ParseHeap(b)
           d == SubSeq(b.rest, 1, n)
           t == SubSeq(b.rest, n + 1, m)
<1>3. p = [scripts |-> b.scripts, insts |-> b.insts, data |-> d, tail |-> t]
  BY <1>0, <1>1, <1>2, HeapIsCut
<1>4. n \in 0 .. m
  BY <1>0, <1>2 DEF Cut
<1>5. d \in Seq(X) /\ Len(d) = n
  BY <1>0, <1>1, <1>4, SubSeqProperties
<1>6. \A j \in 1 .. n : d[j] = b.rest[j]
  BY <1>0, <1>1, <1>4, SubSeqProperties
<1>7. t \in Seq(X)
  BY <1>0, <1>1, <1>4, SubSeqProperties
<1>8. Len(t) > 0 => n < m /\ t[1] = b.rest[n + 1]
  <2>1. CASE n < m
    BY <1>0, <1>1, <1>4, <2>1, SubSeqProperties
  <2>2. CASE ~(n < m)
    <3>1. t = <<>>
      BY <1>4, <2>2, SubSeqEmpty
    <3> HIDE DEF t
    <3>2. Len(t) = 0
      BY <3>1
    <3>3. ~(Len(t) > 0)
      BY <3>2
    <3> QED
      BY <3>3
  <2> QED
    BY <2>1, <2>2
<1> HIDE DEF d, t, p
<1>9. DOMAIN d = 1 .. n
  BY <1>4, <1>5
<1>10. \A k \in DOMAIN d : d[k] \in Eids(b.insts)
  BY <1>2, <1>6, <1>9 DEF Cut
<1>11. Len(t) > 0 => t[1] \notin Eids(b.insts)
  BY <1>0, <1>2, <1>8 DEF Cut
<1>12. \E Y : p.data \in Seq(Y) /\ p.tail \in Seq(Y)
  BY <1>3, <1>5, <1>7
<1>13. p.data = d /\ p.tail = t /\ p.insts = b.insts /\ p.scripts = b.scripts
  BY <1>3
<1> QED
  BY <1>3, <1>10, <1>11, <1>12, <1>13 DEF p

\* What is left, written and parsed again, is what was left.
LEMMA LeftReadsBack ==
  ASSUME NEW b, WholeHeap(b), NEW eids, NEW scripts
  PROVE  LET q == Left(ParseHeap(b), eids, scripts)
         IN  /\ WholeHeap(HeapBytes(q))
             /\ ParseHeap(HeapBytes(q)) = q
             /\ \A i \in q.insts :
                  (\E k \in DOMAIN ParseHeap(b).data : ParseHeap(b).data[k] = i.eid) =>
                  \E k \in DOMAIN q.data : q.data[k] = i.eid
<1> DEFINE p == ParseHeap(b)
           K == {k \in DOMAIN p.data : p.data[k] \notin eids}
           d == Sublist(p.data, K)
           q == Left(p, eids, scripts)
           h == HeapBytes(q)
           ids == Eids(q.insts)
<1>1. p.insts = b.insts
  BY ParsedFacts
<1>2. PICK X : p.data \in Seq(X) /\ p.tail \in Seq(X)
  BY ParsedFacts
<1>3. \A k \in DOMAIN p.data : p.data[k] \in Eids(b.insts)
  BY ParsedFacts
<1>4. Len(p.tail) > 0 => p.tail[1] \notin Eids(b.insts)
  BY ParsedFacts
<1> HIDE DEF p
<1>5. q = [scripts |-> scripts, insts |-> {i \in b.insts : i.eid \notin eids},
           data |-> d, tail |-> p.tail]
  BY <1>1 DEF Left
<1>6. K \subseteq DOMAIN p.data
  OBVIOUS
<1>7. /\ d \in Seq(X)
      /\ DOMAIN d = 1 .. Cardinality(K)
      /\ \A j \in 1 .. Cardinality(K) : NthOf(K, j) \in K /\ d[j] = p.data[NthOf(K, j)]
      /\ \A k \in K : Rank(K, k) \in 1 .. Cardinality(K) /\ d[Rank(K, k)] = p.data[k]
  <2> DEFINE s == p.data
  <2>1. s \in Seq(X) /\ K \subseteq DOMAIN s
    BY <1>2, <1>6
  <2> HIDE DEF K, s
  <2>2. /\ Sublist(s, K) \in Seq(X)
        /\ DOMAIN Sublist(s, K) = 1 .. Cardinality(K)
    BY <2>1, SublistFacts
  <2>3. \A j \in 1 .. Cardinality(K) : NthOf(K, j) \in K /\ Sublist(s, K)[j] = s[NthOf(K, j)]
    BY <2>1, SublistFacts
  <2>4. \A k \in K : Rank(K, k) \in 1 .. Cardinality(K) /\ Sublist(s, K)[Rank(K, k)] = s[k]
    BY <2>1, SublistFacts
  <2> QED
    BY <2>2, <2>3, <2>4 DEF s
<1>8. \A j \in DOMAIN d : \E k \in K : d[j] = p.data[k]
  BY <1>7
<1>9. \A k \in K : \E j \in DOMAIN d : d[j] = p.data[k]
  BY <1>7
<1>10. \A k \in DOMAIN p.data : p.data[k] \notin eids => \E j \in DOMAIN d : d[j] = p.data[k]
  BY <1>9
<1>11. \A j \in DOMAIN d : d[j] \in Eids(b.insts) /\ d[j] \notin eids
  BY <1>3, <1>8
<1> HIDE DEF d, K
<1> HIDE DEF q
<1>12. ids = {i.eid : i \in {i \in b.insts : i.eid \notin eids}}
  BY <1>5 DEF Eids
<1>13. ids \subseteq Eids(b.insts)
  BY <1>12 DEF Eids
<1>14. \A j \in DOMAIN d : d[j] \in ids
  BY <1>11, <1>12 DEF Eids
<1>15. h = [scripts |-> scripts, insts |-> q.insts, rest |-> d \o p.tail]
  BY <1>5 DEF HeapBytes
<1>16. h.rest = d \o p.tail /\ h.insts = q.insts /\ h.scripts = scripts
  BY <1>15
<1> HIDE DEF h
<1>17. h.rest \in Seq(X)
  BY <1>2, <1>7, <1>16, ConcatProperties
<1>18. PICK c \in Nat, e \in Nat : c = Len(d) /\ e = Len(p.tail)
  BY <1>2, <1>7
<1>19. Len(h.rest) = c + e
  BY <1>2, <1>7, <1>16, <1>18, ConcatProperties
<1>20. \A j \in 1 .. c : h.rest[j] = d[j]
  BY <1>2, <1>7, <1>16, <1>18
<1>21. e > 0 => h.rest[c + 1] = p.tail[1]
  BY <1>2, <1>7, <1>16, <1>18
<1>22. Cut(h.rest, Eids(h.insts), c)
  <2>1. c \in 0 .. Len(h.rest)
    BY <1>18, <1>19
  <2>2. \A j \in 1 .. c : h.rest[j] \in Eids(h.insts)
    <3>1. DOMAIN d = 1 .. c
      BY <1>7, <1>18
    <3> QED
      BY <1>14, <1>16, <1>20, <3>1
  <2>3. c < Len(h.rest) => h.rest[c + 1] \notin Eids(h.insts)
    <3>1. c < Len(h.rest) => e > 0
      BY <1>18, <1>19
    <3> QED
      BY <1>4, <1>13, <1>16, <1>18, <1>21, <3>1
  <2> QED
    BY <2>1, <2>2, <2>3 DEF Cut
<1>23. ParseHeap(h) = [scripts |-> h.scripts, insts |-> h.insts,
                       data |-> SubSeq(h.rest, 1, c),
                       tail |-> SubSeq(h.rest, c + 1, Len(h.rest))]
  BY <1>17, <1>22, HeapIsCut
<1>24. SubSeq(h.rest, 1, c) = d /\ SubSeq(h.rest, c + 1, Len(h.rest)) = p.tail
  BY <1>2, <1>7, <1>16, <1>18, CutBack
<1>25. ParseHeap(h) = q
  BY <1>5, <1>16, <1>23, <1>24
<1>26. WholeHeap(h)
  <2>1. h.insts \subseteq b.insts
    BY <1>5, <1>16
  <2> QED
    BY <1>17, <2>1 DEF WholeHeap
<1>27. \A i \in q.insts : (\E k \in DOMAIN p.data : p.data[k] = i.eid) =>
                          \E k \in DOMAIN q.data : q.data[k] = i.eid
  <2>1. \A i \in q.insts : i.eid \notin eids
    BY <1>5
  <2>2. q.data = d
    BY <1>5
  <2> QED
    BY <1>10, <2>1, <2>2
<1> QED
  BY <1>25, <1>26, <1>27 DEF p, h, q

-----------------------------------------------------------------------------
(* The copy reads back.                                                    *)

\* What a heap, parsed, ought to be after the cleaning of another.
ReadsBack(base, mode, now) ==
  LET Orphan(i) == IF mode = "unattached" THEN ~i.attached ELSE UndefinedInstance(base, i)
  IN  /\ now.insts = {i \in base.insts : ~Orphan(i)}
      /\ now.tail = base.tail
      /\ \A i \in now.insts : (\E k \in DOMAIN base.data : base.data[k] = i.eid) =>
                              \E k \in DOMAIN now.data : now.data[k] = i.eid
      /\ CountOrphans(now)[mode] = 0

\* remove_instances leaves the definitions; they can be put in afterwards.
LEMMA RemovedIsLeft ==
  ASSUME NEW p, NEW eids, NEW scripts,
         p = [scripts |-> p.scripts, insts |-> p.insts, data |-> p.data, tail |-> p.tail]
  PROVE  /\ RemoveInstances(p, eids) = Left(p, eids, p.scripts)
         /\ [RemoveInstances(p, eids) EXCEPT !.scripts = scripts] = Left(p, eids, scripts)
<1> DEFINE insts == {i \in p.insts : i.eid \notin eids}
           data == Sublist(p.data, {k \in DOMAIN p.data : p.data[k] \notin eids})
<1>1. RemoveInstances(p, eids) = [p EXCEPT !.insts = insts, !.data = data]
  BY DEF RemoveInstances
<1>2. \A s : Left(p, eids, s) = [scripts |-> s, insts |-> insts, data |-> data, tail |-> p.tail]
  BY DEF Left
<1> HIDE DEF insts, data
<1>3. RemoveInstances(p, eids) =
        [scripts |-> p.scripts, insts |-> insts, data |-> data, tail |-> p.tail]
  BY <1>1
<1> QED
  BY <1>2, <1>3

\* What goes with the ids of some instances are those instances, no others.
LEMMA OwnIds ==
  ASSUME NEW insts, \A i, j \in insts : i.eid = j.eid => i = j, NEW S, S \subseteq insts
  PROVE  {i \in insts : i.eid \notin Eids(S)} = insts \ S
<1>1. \A i \in insts : i.eid \in Eids(S) <=> i \in S
  BY DEF Eids
<1> QED
  BY <1>1

LEMMA UnattachedReadsBack ==
  ASSUME NEW b, WholeHeap(b)
  PROVE  /\ WholeHeap(Clean(b, "unattached"))
         /\ ReadsBack(ParseHeap(b), "unattached", ParseHeap(Clean(b, "unattached")))
<1> DEFINE p == ParseHeap(b)
           S == {i \in p.insts : ~i.attached}
           ids == Eids(S)
           all == p.scripts
           q == Left(p, ids, all)
<1>1. p.insts = b.insts
  BY ParsedFacts
<1>2. p = [scripts |-> p.scripts, insts |-> p.insts, data |-> p.data, tail |-> p.tail]
  BY ParsedFacts
<1>3. /\ WholeHeap(HeapBytes(q)) /\ ParseHeap(HeapBytes(q)) = q
      /\ \A i \in q.insts : (\E k \in DOMAIN p.data : p.data[k] = i.eid) =>
                            \E k \in DOMAIN q.data : q.data[k] = i.eid
  <2> HIDE DEF ids, all
  <2> QED
    BY LeftReadsBack
<1>4. Clean(b, "unattached") = HeapBytes(RemoveUnattached(p))
  BY DEF Clean
<1> HIDE DEF p
<1>5. RemoveUnattached(p) = q
  BY <1>2, RemovedIsLeft DEF RemoveUnattached
<1>6. q.insts = {i \in p.insts : i.eid \notin Eids(S)} /\ q.tail = p.tail
  BY DEF Left
<1>7. \A i, j \in p.insts : i.eid = j.eid => i = j
  BY <1>1 DEF WholeHeap
<1>8. S \subseteq p.insts
  OBVIOUS
<1>9. q.insts = p.insts \ S
  BY <1>6, <1>7, <1>8, OwnIds
<1> HIDE DEF q
<1>10. q.insts = {i \in p.insts : ~(~i.attached)}
  BY <1>9
<1>11. {i \in q.insts : ~i.attached} = {}
  BY <1>10
<1>12. CountOrphans(q)["unattached"] = 0
  BY <1>11, FS_EmptySet DEF CountOrphans
<1>13. ReadsBack(p, "unattached", q)
  BY <1>3, <1>6, <1>10, <1>12 DEF ReadsBack
<1> QED
  BY <1>3, <1>4, <1>5, <1>13 DEF p

LEMMA UndefinedReadsBack ==
  ASSUME NEW b, WholeHeap(b)
  PROVE  /\ WholeHeap(Clean(b, "undefined"))
         /\ ReadsBack(ParseHeap(b), "undefined", ParseHeap(Clean(b, "undefined")))
<1> DEFINE p == ParseHeap(b)
           S == {i \in p.insts : UndefinedInstance(p, i)}
           defined == {sc \in p.scripts : ~StubScript(sc)}
           q == Left(p, Eids(S), defined)
<1>1. p.insts = b.insts
  BY ParsedFacts
<1>2. p = [scripts |-> p.scripts, insts |-> p.insts, data |-> p.data, tail |-> p.tail]
  BY ParsedFacts
<1>3. /\ WholeHeap(HeapBytes(q)) /\ ParseHeap(HeapBytes(q)) = q
      /\ \A i \in q.insts : (\E k \in DOMAIN p.data : p.data[k] = i.eid) =>
                            \E k \in DOMAIN q.data : q.data[k] = i.eid
  BY LeftReadsBack
<1>4. Clean(b, "undefined") = HeapBytes(RemoveUndefined(p))
  BY DEF Clean
<1> HIDE DEF p
<1>5. RemoveUndefined(p) = q
  BY <1>2, RemovedIsLeft DEF RemoveUndefined
<1>6. q.insts = {i \in p.insts : i.eid \notin Eids(S)} /\ q.tail = p.tail /\ q.scripts = defined
  BY DEF Left
<1>7. \A i, j \in p.insts : i.eid = j.eid => i = j
  BY <1>1 DEF WholeHeap
<1>8. S \subseteq p.insts
  OBVIOUS
<1>9. q.insts = p.insts \ S
  BY <1>6, <1>7, <1>8, OwnIds
<1> HIDE DEF q
<1>10. q.insts = {i \in p.insts : ~UndefinedInstance(p, i)}
  BY <1>9
<1>11. ASSUME NEW i \in q.insts PROVE ~UndefinedInstance(q, i)
  <2>1. i.name \notin UndefinedNames(p)
    BY <1>10 DEF UndefinedInstance
  <2>2. i.name \in {sc.name : sc \in p.scripts} \cup Native
    BY <1>10 DEF UndefinedInstance
  <2>3. i.name \notin UndefinedNames(q)
    BY <1>6 DEF UndefinedNames
  <2>4. i.name \in {sc.name : sc \in q.scripts} \cup Native
    BY <1>6, <2>1, <2>2 DEF UndefinedNames
  <2> QED
    BY <2>3, <2>4 DEF UndefinedInstance
<1>12. {i \in q.insts : UndefinedInstance(q, i)} = {}
  BY <1>11
<1>13. CountOrphans(q)["undefined"] = 0
  BY <1>12, FS_EmptySet DEF CountOrphans
<1>14. ReadsBack(p, "undefined", q)
  BY <1>3, <1>6, <1>10, <1>13 DEF ReadsBack
<1> QED
  BY <1>3, <1>4, <1>5, <1>14 DEF p

Modes == {"undefined", "unattached"}

Written == {"readcosave", "writecosave", "verify"}

\* A call holds the heap it has read and what the cleaning made of it, and once
\* the copy is written it is in the file, unless the game saved over it.
BackInv ==
  /\ SvTypeOK
  /\ \A f \in Saves : IsSave(f) => WholeHeap(saves[f].heap)
  /\ svCall.stage # "idle" =>
       /\ WholeHeap(svCall.base)
       /\ svCall.mode \in Modes
       /\ svCall.cleaned.heap = Clean(svCall.base, svCall.mode)
       /\ svCall.stage \in Written /\ ~svCall.raced =>
            saves[svCall.out.file].heap = svCall.cleaned.heap

LEMMA GivenWhole == \A h \in Heaps : WholeHeap(h)
  BY SaveAssumption DEF WholeHeap

LEMMA InitBack == SvInit => BackInv
<1> SUFFICES ASSUME NEW start \in SvStarts, SvInitFrom(start)
             PROVE  BackInv
  BY DEF SvInit
<1>1. SvTypeOK
  BY InitShape DEF SvInit
<1>2. svCall.stage = "idle"
  BY DEF SvInitFrom, NoCall
<1>3. ASSUME NEW f \in Saves, IsSave(f) PROVE WholeHeap(saves[f].heap)
  <2>1. saves[f] = Save(start.heap, 0)
    BY <1>3 DEF SvInitFrom, IsSave
  <2>2. saves[f].heap = start.heap
    BY <2>1 DEF Save
  <2> QED
    BY <2>2, GivenWhole DEF SvStarts
<1> QED
  BY <1>1, <1>2, <1>3 DEF BackInv

\* A step that goes on with the call, or ends it, and touches no save.
LEMMA CallGoesOn ==
  ASSUME BackInv, SvTypeOK', saves' = saves,
         \/ svCall' = svCall
         \/ svCall'.stage = "idle"
         \/ /\ svCall.stage # "idle" /\ SameCall(svCall', svCall)
            /\ svCall'.stage \in Written => svCall.stage \in Written
  PROVE  BackInv'
<1>1. \A f \in Saves : IsSave(f)' <=> IsSave(f)
  BY DEF IsSave
<1> QED
  BY <1>1 DEF BackInv, SameCall

LEMMA BegunBack ==
  ASSUME BackInv, NEW path \in Paths, NEW mode \in Modes, NEW out \in Paths,
         SaveCleanOrphans(path, mode, out)
  PROVE  BackInv'
<1>1. SvTypeOK'
  BY BegunShape DEF BackInv
<1>2. saves' = saves /\ IsSave(path.file) /\ path.file \in Saves
  BY DEF SaveCleanOrphans, BeginClean, Paths
<1>3. /\ svCall'.stage = "check"
      /\ svCall'.base = saves[path.file].heap
      /\ svCall'.mode = mode
      /\ svCall'.cleaned = Save(Clean(saves[path.file].heap, mode), saves[path.file].game)
  BY SMT DEF SaveCleanOrphans, BeginClean
<1>4. svCall'.cleaned.heap = Clean(svCall'.base, svCall'.mode)
  BY <1>3 DEF Save
<1>5. WholeHeap(svCall'.base)
  BY <1>2, <1>3 DEF BackInv
<1>6. \A f \in Saves : IsSave(f)' <=> IsSave(f)
  BY <1>2 DEF IsSave
<1>7. svCall'.stage \notin Written
  BY <1>3 DEF Written
<1> QED
  BY <1>1, <1>2, <1>3, <1>4, <1>5, <1>6, <1>7 DEF BackInv

\* A write of a whole heap to one save.
LEMMA WholeAfter ==
  ASSUME BackInv, NEW f \in Saves, NEW s, saves' = [saves EXCEPT ![f] = s],
         s \in {Absent, Torn} \/ WholeHeap(s.heap)
  PROVE  /\ \A g \in Saves : IsSave(g)' => WholeHeap(saves'[g].heap)
         /\ saves'[f] = s
         /\ \A g \in Saves : g # f => saves'[g] = saves[g]
<1>1. saves = [g \in Saves |-> saves[g]]
  BY DEF BackInv, SvTypeOK
<1>2. saves'[f] = s /\ \A g \in Saves : g # f => saves'[g] = saves[g]
  BY <1>1
<1> QED
  BY <1>2 DEF BackInv, IsSave

LEMMA CleanReadsBack ==
  ASSUME NEW b, WholeHeap(b), NEW mode \in Modes
  PROVE  /\ WholeHeap(Clean(b, mode))
         /\ ReadsBack(ParseHeap(b), mode, ParseHeap(Clean(b, mode)))
<1>1. CASE mode = "unattached"
  BY <1>1, UnattachedReadsBack
<1>2. CASE mode = "undefined"
  BY <1>2, UndefinedReadsBack
<1> QED
  BY <1>1, <1>2 DEF Modes

LEMMA NextBack == BackInv /\ [SvNext]_svVars => BackInv'
<1> SUFFICES ASSUME BackInv, [SvNext]_svVars PROVE BackInv'
  OBVIOUS
<1>1. SvTypeOK'
  BY NextShape DEF BackInv
<1>2. svCall.stage # "idle" =>
        /\ svCall = [k \in CallFields |-> svCall[k]]
        /\ svCall.path.file \in Saves /\ svCall.out.file \in Saves
  BY DEF BackInv, SvTypeOK, Paths
<1>3. CASE GameToggle \/ VerifyCleaned \/ CleanCrash \/ UNCHANGED svVars
  <2>1. saves' = saves /\ (svCall' = svCall \/ svCall' = NoCall)
    BY <1>3 DEF GameToggle, VerifyCleaned, CleanCrash, svVars
  <2> QED
    BY <1>1, <2>1, CallGoesOn DEF NoCall
<1>4. ASSUME NEW f \in DOMAIN Beside, NEW h \in Heaps, GameSaves(f, h) PROVE BackInv'
  <2>1. f \in Saves
    BY SaveAssumption
  <2>2. saves' = [saves EXCEPT ![f] = Save(h, made')]
    BY <1>4 DEF GameSaves
  <2>3. WholeHeap(Save(h, made').heap)
    BY GivenWhole DEF Save
  <2>4. \A g \in Saves : IsSave(g)' => WholeHeap(saves'[g].heap)
    BY <2>1, <2>2, <2>3, WholeAfter
  <2>5. CASE svCall.stage = "idle"
    <3>1. svCall' = svCall
      BY <1>4, <2>5 DEF GameSaves
    <3> QED
      BY <1>1, <2>4, <2>5, <3>1 DEF BackInv
  <2>6. CASE svCall.stage # "idle"
    <3>1. svCall' = [svCall EXCEPT !.raced = TRUE]
      BY <1>4, <2>6 DEF GameSaves
    <3>2. /\ svCall'.raced = TRUE /\ svCall'.base = svCall.base /\ svCall'.mode = svCall.mode
          /\ svCall'.cleaned = svCall.cleaned
      BY <1>2, <2>6, <3>1, SMT DEF CallFields
    <3> QED
      BY <1>1, <2>4, <2>6, <3>2 DEF BackInv
  <2> QED
    BY <2>5, <2>6
<1>5. ASSUME NEW path \in [file : DOMAIN Beside, spelling : Spellings],
             NEW mode \in {"undefined", "unattached"},
             \/ CleanBeside(path, mode)
             \/ \E out \in Paths : SaveCleanOrphans(path, mode, out)
      PROVE  BackInv'
  BY <1>5, CallsBegin, BegunBack DEF Modes
<1>6. CASE SaveLockCheck
  <2>1. saves' = saves /\ svCall.stage = "check"
    BY <1>6 DEF SaveLockCheck
  <2>2. svCall' = NoCall \/ svCall' = [svCall EXCEPT !.stage = "write"]
    BY <1>6 DEF SaveLockCheck
  <2>3. svCall' = NoCall \/ (SameCall(svCall', svCall) /\ svCall'.stage = "write")
    <3> DEFINE put == [svCall EXCEPT !.stage = "write"]
    <3>1. SameCall(put, svCall) /\ put.stage = "write"
      BY <1>2, <2>1, StagePut
    <3> QED BY <2>2, <3>1
  <2> QED
    BY <1>1, <2>1, <2>3, CallGoesOn DEF NoCall, Written
<1>7. CASE ReadCosave \/ WriteCosave
  <2>1. saves' = saves /\ svCall.stage \in Written
    BY <1>7 DEF ReadCosave, WriteCosave, Written
  <2>2. SameCall(svCall', svCall)
    BY <1>2, <1>7, CallSteps
  <2>3. svCall.stage # "idle"
    BY <1>7 DEF ReadCosave, WriteCosave
  <2> QED
    BY <1>1, <2>1, <2>2, <2>3, CallGoesOn
<1>8. CASE WriteCosaveFails
  <2>1. saves' = saves /\ svCall.stage = "writecosave"
    BY <1>8 DEF WriteCosaveFails
  <2>2. svCall' = [svCall EXCEPT !.stage = "verify"]
    BY <1>8 DEF WriteCosaveFails
  <2>3. SameCall(svCall', svCall)
    BY <1>2, <2>1, <2>2, StagePut
  <2> QED
    BY <1>1, <2>1, <2>3, CallGoesOn DEF Written
<1>9. CASE WriteCleaned
  <2>1. svCall.stage = "write" /\ saves' = [saves EXCEPT ![svCall.out.file] = svCall.cleaned]
    BY <1>9 DEF WriteCleaned
  <2>2. SameCall(svCall', svCall) /\ svCall'.stage = "readcosave"
    BY <1>2, <1>9, StagePut DEF WriteCleaned
  <2>3. WholeHeap(svCall.cleaned.heap)
    BY <2>1, CleanReadsBack DEF BackInv
  <2>4. /\ \A g \in Saves : IsSave(g)' => WholeHeap(saves'[g].heap)
        /\ saves'[svCall.out.file] = svCall.cleaned
    BY <1>2, <2>1, <2>3, WholeAfter
  <2> QED
    BY <1>1, <2>1, <2>2, <2>4 DEF BackInv, SameCall
<1>10. CASE WriteCleanedFails
  <2>1. /\ svCall.stage = "write" /\ saves' = [saves EXCEPT ![svCall.out.file] = Torn]
        /\ svCall' = NoCall
    BY <1>10 DEF WriteCleanedFails
  <2>2. \A g \in Saves : IsSave(g)' => WholeHeap(saves'[g].heap)
    BY <1>2, <2>1, WholeAfter
  <2> QED
    BY <1>1, <2>1, <2>2 DEF BackInv, NoCall
<1> QED
  BY <1>3, <1>4, <1>5, <1>6, <1>7, <1>8, <1>9, <1>10 DEF SvNext

LEMMA BackMeansBack == BackInv => CleanedReadsBack
<1> SUFFICES ASSUME BackInv, svCall.stage \in Written, ~svCall.raced
             PROVE  ReadsBack(ParseHeap(svCall.base), svCall.mode,
                              ParseHeap(saves[svCall.out.file].heap))
  BY DEF CleanedReadsBack, ReadsBack, Written
<1>1. svCall.stage # "idle"
  BY DEF Written
<1>2. saves[svCall.out.file].heap = Clean(svCall.base, svCall.mode)
  BY <1>1 DEF BackInv
<1> QED
  BY <1>1, <1>2, CleanReadsBack DEF BackInv

\* A cleaned copy, parsed as any save is, has the instances that are no orphans
\* with their blocks, and the rest of the heap behind them: for every heap whose
\* instances have ids of their own, whatever its blocks, however often saves are
\* cleaned of what other cleanings left.
THEOREM CopyReadsBack == SvSpec => []CleanedReadsBack
<1>1. SvInit => BackInv
  BY InitBack
<1>2. BackInv /\ [SvNext]_svVars => BackInv'
  BY NextBack
<1>3. BackInv => CleanedReadsBack
  BY BackMeansBack
<1> QED
  BY <1>1, <1>2, <1>3, PTL DEF SvSpec

-----------------------------------------------------------------------------
(* The location table.                                                     *)

\* A save whose table was computed from its heap, as long as that is.
Placed(s) ==
  /\ s.flt = RebuildFlt(s.heap)
  /\ IsFiniteSet(s.heap.scripts) /\ IsFiniteSet(s.heap.insts)

\* Every save is one, and what a call is about to write.
PlacedInv ==
  /\ BackInv
  /\ \A f \in Saves : IsSave(f) => Placed(saves[f])
  /\ svCall.stage # "idle" => Placed(svCall.cleaned)

LEMMA GivenPlaced == \A h \in Heaps : \A g : Placed(Save(h, g))
  BY SaveAssumption DEF Placed, Save

\* Cleaning takes definitions and instances away.
LEMMA CleanedPlaced ==
  ASSUME NEW b, WholeHeap(b), IsFiniteSet(b.scripts), IsFiniteSet(b.insts),
         NEW mode \in Modes, NEW g
  PROVE  Placed(Save(Clean(b, mode), g))
<1> DEFINE p == ParseHeap(b)
           new == IF mode = "unattached" THEN RemoveUnattached(p) ELSE RemoveUndefined(p)
<1>1. p.insts = b.insts /\ p.scripts = b.scripts
  BY ParsedFacts
<1>2. p = [scripts |-> p.scripts, insts |-> p.insts, data |-> p.data, tail |-> p.tail]
  BY ParsedFacts
<1>3. Clean(b, mode) = HeapBytes(new)
  BY DEF Clean
<1> HIDE DEF p
<1>4. \E ids, scripts : new = Left(p, ids, scripts) /\ scripts \subseteq p.scripts
  <2>1. CASE mode = "unattached"
    <3>1. new = Left(p, Eids({i \in p.insts : ~i.attached}), p.scripts)
      BY <1>2, <2>1, RemovedIsLeft DEF RemoveUnattached
    <3> QED
      BY <3>1
  <2>2. CASE mode # "unattached"
    <3> DEFINE kept == {sc \in p.scripts : ~StubScript(sc)}
               gone == Eids({i \in p.insts : UndefinedInstance(p, i)})
    <3>1. new = [RemoveInstances(p, gone) EXCEPT !.scripts = kept]
      BY <2>2 DEF RemoveUndefined
    <3>2. kept \subseteq p.scripts
      OBVIOUS
    <3> HIDE DEF kept, gone, new
    <3>3. new = Left(p, gone, kept)
      BY <1>2, <3>1, RemovedIsLeft
    <3> QED
      BY <3>2, <3>3
  <2> QED
    BY <2>1, <2>2
<1> HIDE DEF new
<1>5. new.scripts \subseteq p.scripts /\ new.insts \subseteq p.insts
  BY <1>4 DEF Left
<1>6. IsFiniteSet(new.scripts) /\ IsFiniteSet(new.insts)
  BY <1>1, <1>5, FS_Subset
<1>7. Clean(b, mode).scripts = new.scripts /\ Clean(b, mode).insts = new.insts
  BY <1>3 DEF HeapBytes
<1> QED
  BY <1>6, <1>7 DEF Placed, Save

LEMMA InitPlaced == SvInit => PlacedInv
<1> SUFFICES ASSUME NEW start \in SvStarts, SvInitFrom(start)
             PROVE  PlacedInv
  BY DEF SvInit
<1>1. BackInv
  BY InitBack DEF SvInit
<1>2. svCall.stage = "idle"
  BY DEF SvInitFrom, NoCall
<1>3. ASSUME NEW f \in Saves, IsSave(f) PROVE Placed(saves[f])
  <2>1. saves[f] = Save(start.heap, 0)
    BY <1>3 DEF SvInitFrom, IsSave
  <2> QED
    BY <2>1, GivenPlaced DEF SvStarts
<1> QED
  BY <1>1, <1>2, <1>3 DEF PlacedInv

\* A call that goes on holds what it held; one that ended holds nothing.
LEMMA StaysPlaced ==
  ASSUME PlacedInv, BackInv', saves' = saves,
         svCall'.stage = "idle" \/ (svCall.stage # "idle" /\ svCall'.cleaned = svCall.cleaned)
  PROVE  PlacedInv'
<1>1. \A f \in Saves : IsSave(f)' <=> IsSave(f)
  BY DEF IsSave
<1> QED
  BY <1>1 DEF PlacedInv, BackInv

\* A write puts in what is torn, or has its table.
LEMMA WritePlaced ==
  ASSUME PlacedInv, BackInv', NEW f \in Saves, NEW s, saves' = [saves EXCEPT ![f] = s],
         s \in {Absent, Torn} \/ Placed(s),
         svCall'.stage = "idle" \/ (svCall.stage # "idle" /\ svCall'.cleaned = svCall.cleaned)
  PROVE  PlacedInv'
<1>1. saves = [g \in Saves |-> saves[g]]
  BY DEF PlacedInv, BackInv, SvTypeOK
<1>2. saves'[f] = s /\ \A g \in Saves : g # f => saves'[g] = saves[g]
  BY <1>1
<1>3. \A g \in Saves : IsSave(g)' => Placed(saves'[g])
  BY <1>2 DEF PlacedInv, IsSave
<1> QED
  BY <1>3 DEF PlacedInv, BackInv

LEMMA NextPlaced == PlacedInv /\ [SvNext]_svVars => PlacedInv'
<1> SUFFICES ASSUME PlacedInv, [SvNext]_svVars PROVE PlacedInv'
  OBVIOUS
<1>1. BackInv'
  BY NextBack DEF PlacedInv
<1>2. svCall.stage # "idle" =>
        /\ svCall = [k \in CallFields |-> svCall[k]]
        /\ svCall.path.file \in Saves /\ svCall.out.file \in Saves
  BY DEF PlacedInv, BackInv, SvTypeOK, Paths
<1>3. CASE GameToggle \/ VerifyCleaned \/ CleanCrash \/ UNCHANGED svVars
  <2>1. saves' = saves /\ (svCall' = svCall \/ svCall' = NoCall)
    BY <1>3 DEF GameToggle, VerifyCleaned, CleanCrash, svVars
  <2> QED
    BY <1>1, <2>1, StaysPlaced DEF NoCall
<1>4. ASSUME NEW f \in DOMAIN Beside, NEW h \in Heaps, GameSaves(f, h) PROVE PlacedInv'
  <2>1. f \in Saves
    BY SaveAssumption
  <2>2. saves' = [saves EXCEPT ![f] = Save(h, made')]
    BY <1>4 DEF GameSaves
  <2>3. Placed(Save(h, made'))
    BY GivenPlaced
  <2>4. CASE svCall.stage = "idle"
    <3>1. svCall'.stage = "idle"
      BY <1>4, <2>4 DEF GameSaves
    <3> QED
      BY <1>1, <2>1, <2>2, <2>3, <3>1, WritePlaced
  <2>5. CASE svCall.stage # "idle"
    <3>1. svCall' = [svCall EXCEPT !.raced = TRUE]
      BY <1>4, <2>5 DEF GameSaves
    <3>2. svCall'.cleaned = svCall.cleaned
      BY <1>2, <2>5, <3>1, SMT DEF CallFields
    <3> QED
      BY <1>1, <2>1, <2>2, <2>3, <2>5, <3>2, WritePlaced
  <2> QED
    BY <2>4, <2>5
<1>5. ASSUME NEW path \in [file : DOMAIN Beside, spelling : Spellings],
             NEW mode \in {"undefined", "unattached"},
             \/ CleanBeside(path, mode)
             \/ \E out \in Paths : SaveCleanOrphans(path, mode, out)
      PROVE  PlacedInv'
  <2>1. path \in Paths /\ \E out \in Paths : SaveCleanOrphans(path, mode, out)
    BY <1>5, CallsBegin
  <2>2. saves' = saves /\ IsSave(path.file) /\ path.file \in Saves
    BY <2>1 DEF SaveCleanOrphans, BeginClean, Paths
  <2>3. svCall'.cleaned = Save(Clean(saves[path.file].heap, mode), saves[path.file].game)
    BY <2>1, SMT DEF SaveCleanOrphans, BeginClean
  <2>4. WholeHeap(saves[path.file].heap) /\ Placed(saves[path.file])
    BY <2>2 DEF PlacedInv, BackInv
  <2>5. mode \in Modes
    BY DEF Modes
  <2>6. Placed(svCall'.cleaned)
    BY <2>3, <2>4, <2>5, CleanedPlaced DEF Placed
  <2>7. \A f \in Saves : IsSave(f)' <=> IsSave(f)
    BY <2>2 DEF IsSave
  <2> QED
    BY <1>1, <2>2, <2>6, <2>7 DEF PlacedInv
<1>6. CASE SaveLockCheck
  <2>1. saves' = saves /\ svCall.stage = "check"
    BY <1>6 DEF SaveLockCheck
  <2>2. svCall' = NoCall \/ svCall' = [svCall EXCEPT !.stage = "write"]
    BY <1>6 DEF SaveLockCheck
  <2>3. svCall'.stage = "idle" \/ svCall'.cleaned = svCall.cleaned
    <3> DEFINE put == [svCall EXCEPT !.stage = "write"]
    <3>1. put.cleaned = svCall.cleaned
      BY <1>2, <2>1, StagePut DEF SameCall
    <3>2. NoCall.stage = "idle"
      BY DEF NoCall
    <3>3. svCall' = NoCall \/ svCall' = put
      BY <2>2
    <3> HIDE DEF put
    <3> QED
      BY <3>1, <3>2, <3>3
  <2> QED
    BY <1>1, <2>1, <2>3, StaysPlaced
<1>7. CASE ReadCosave \/ WriteCosave
  <2>1. saves' = saves /\ svCall.stage # "idle"
    BY <1>7 DEF ReadCosave, WriteCosave
  <2>2. svCall'.cleaned = svCall.cleaned
    BY <1>2, <1>7, CallSteps DEF SameCall
  <2> QED
    BY <1>1, <2>1, <2>2, StaysPlaced
<1>8. CASE WriteCosaveFails
  <2>1. saves' = saves /\ svCall.stage = "writecosave"
    BY <1>8 DEF WriteCosaveFails
  <2>2. svCall' = [svCall EXCEPT !.stage = "verify"]
    BY <1>8 DEF WriteCosaveFails
  <2>3. svCall'.cleaned = svCall.cleaned
    BY <1>2, <2>1, <2>2, StagePut DEF SameCall
  <2> QED
    BY <1>1, <2>1, <2>3, StaysPlaced
<1>9. CASE WriteCleaned
  <2>1. svCall.stage = "write" /\ saves' = [saves EXCEPT ![svCall.out.file] = svCall.cleaned]
    BY <1>9 DEF WriteCleaned
  <2>2. svCall'.cleaned = svCall.cleaned
    BY <1>2, <1>9, StagePut DEF WriteCleaned, SameCall
  <2>3. Placed(svCall.cleaned) /\ svCall.out.file \in Saves /\ svCall.stage # "idle"
    BY <1>2, <2>1 DEF PlacedInv
  <2> QED
    BY <1>1, <2>1, <2>2, <2>3, WritePlaced
<1>10. CASE WriteCleanedFails
  <2>1. /\ svCall.stage = "write" /\ saves' = [saves EXCEPT ![svCall.out.file] = Torn]
        /\ svCall' = NoCall
    BY <1>10 DEF WriteCleanedFails
  <2> QED
    BY <1>1, <1>2, <2>1, WritePlaced DEF NoCall
<1> QED
  BY <1>3, <1>4, <1>5, <1>6, <1>7, <1>8, <1>9, <1>10 DEF SvNext

\* A list of ten sections: each begins where the one in front of it ends.
LEMMA StartsFollow ==
  ASSUME NEW body, DOMAIN body = 1 .. 10
  PROVE  /\ StartOf(body)[1] = SectionLen["prefix"]
         /\ \A k \in 2 .. 10 : StartOf(body)[k] = StartOf(body)[k - 1] + body[k - 1][2]
<1> DEFINE p == SectionLen["prefix"]
           D == DOMAIN body
           Step(w) == [k \in D |-> IF k = 1 THEN p ELSE w[k - 1] + body[k - 1][2]]
           a2 == p + body[1][2]
           a3 == a2 + body[2][2]
           a4 == a3 + body[3][2]
           a5 == a4 + body[4][2]
           a6 == a5 + body[5][2]
           a7 == a6 + body[6][2]
           a8 == a7 + body[7][2]
           a9 == a8 + body[8][2]
           a10 == a9 + body[9][2]
           w == <<p, a2, a3, a4, a5, a6, a7, a8, a9, a10>>
           s == CHOOSE f : f = Step(f)
<1>1. StartOf(body) = s
  BY DEF StartOf
<1>2. w = Step(w)
  <2>1. w = [k \in 1 .. 10 |-> w[k]]
    OBVIOUS
  <2>2. \A k \in 1 .. 10 : w[k] = Step(w)[k]
    <3> TAKE k \in 1 .. 10
    <3> QED
      OBVIOUS
  <2>3. Step(w) = [k \in 1 .. 10 |-> Step(w)[k]]
    OBVIOUS
  <2> HIDE DEF w, Step
  <2> QED
    BY <2>1, <2>2, <2>3
<1> HIDE DEF w, Step
<1>3. s = Step(s)
  BY <1>2
<1> HIDE DEF s
<1>4. \A k \in 1 .. 10 : s[k] = IF k = 1 THEN p ELSE s[k - 1] + body[k - 1][2]
  BY <1>3 DEF Step
<1> QED
  BY <1>1, <1>4

LEMMA PlacedMeansTrue == PlacedInv => OffsetsTrue
<1> SUFFICES ASSUME PlacedInv, NEW f \in Saves, IsSave(f)
             PROVE  \A k \in {n \in DOMAIN Body(saves[f].heap) :
                               Body(saves[f].heap)[n][1] \in DOMAIN saves[f].flt} :
                      saves[f].flt[Body(saves[f].heap)[k][1]] = StartOf(Body(saves[f].heap))[k]
  BY DEF OffsetsTrue
<1> DEFINE b == saves[f].heap
           body == Body(b)
           s == StartOf(body)
<1>1. Placed(saves[f]) /\ WholeHeap(b)
  BY DEF PlacedInv, BackInv
<1>2. PICK heap \in Nat : heap = HeapLen(b)
  <2>1. Cardinality(b.scripts) \in Nat /\ Cardinality(b.insts) \in Nat
    BY <1>1, FS_CardinalityType DEF Placed
  <2>2. Len(b.rest) \in Nat
    BY <1>1 DEF WholeHeap
  <2> HIDE DEF b
  <2> QED
    BY <2>1, <2>2 DEF HeapLen
<1>3. /\ body = << <<"version", 1>>, <<"plugins", 4 + SectionLen["plugins"]>>, <<"flt", 100>>,
                   <<"table1", SectionLen["table1"]>>, <<"table2", SectionLen["table2"]>>,
                   <<"changes", SectionLen["changes"]>>,
                   <<"table3", SectionLen["before"] + 8 + heap + SectionLen["after"]>>,
                   <<"formids", SectionLen["formids"]>>, <<"worlds", SectionLen["worlds"]>>,
                   <<"trailing", 0>> >>
      /\ saves[f].flt = FltFor(8 + heap)
  BY <1>1, <1>2 DEF Body, Placed, RebuildFlt
<1>4. \A x \in Sections : SectionLen[x] \in Nat
  BY SaveAssumption
<1>5. PICK t1 \in Nat : t1 = SectionLen["table1"]
  BY <1>4 DEF Sections
<1>6. PICK t2 \in Nat : t2 = SectionLen["table2"]
  BY <1>4 DEF Sections
<1>7. PICK ch \in Nat : ch = SectionLen["changes"]
  BY <1>4 DEF Sections
<1>8. PICK be \in Nat : be = SectionLen["before"]
  BY <1>4 DEF Sections
<1>9. PICK af \in Nat : af = SectionLen["after"]
  BY <1>4 DEF Sections
<1>10. PICK fi \in Nat : fi = SectionLen["formids"]
  BY <1>4 DEF Sections
<1>11. PICK wo \in Nat : wo = SectionLen["worlds"]
  BY <1>4 DEF Sections
<1>12. PICK pl \in Nat : pl = SectionLen["plugins"]
  BY <1>4 DEF Sections
<1>13. PICK pr \in Nat : pr = SectionLen["prefix"]
  BY <1>4 DEF Sections
<1> HIDE DEF body, b
<1>14. /\ DOMAIN body = 1 .. 10
       /\ body[1] = <<"version", 1>> /\ body[2] = <<"plugins", 4 + pl>> /\ body[3] = <<"flt", 100>>
       /\ body[4] = <<"table1", t1>> /\ body[5] = <<"table2", t2>> /\ body[6] = <<"changes", ch>>
       /\ body[7] = <<"table3", be + 8 + heap + af>> /\ body[8] = <<"formids", fi>>
       /\ body[9] = <<"worlds", wo>> /\ body[10] = <<"trailing", 0>>
  BY <1>3, <1>5, <1>6, <1>7, <1>8, <1>9, <1>10, <1>11, <1>12
<1>15. s[1] = pr /\ \A k \in 2 .. 10 : s[k] = s[k - 1] + body[k - 1][2]
  BY <1>13, <1>14, StartsFollow
<1> HIDE DEF s
<1>16. s[2] = pr + 1
  BY <1>14, <1>15
<1>17. s[3] = pr + 5 + pl
  BY <1>14, <1>15, <1>16
<1>18. s[4] = pr + 105 + pl
  BY <1>14, <1>15, <1>17
<1>19. s[5] = pr + 105 + pl + t1
  BY <1>14, <1>15, <1>18
<1>20. s[6] = pr + 105 + pl + t1 + t2
  BY <1>14, <1>15, <1>19
<1>21. s[7] = pr + 105 + pl + t1 + t2 + ch
  BY <1>14, <1>15, <1>20
<1>22. s[8] = pr + 105 + pl + t1 + t2 + ch + be + 8 + heap + af
  BY <1>14, <1>15, <1>21
<1>23. s[9] = pr + 105 + pl + t1 + t2 + ch + be + 8 + heap + af + fi
  BY <1>14, <1>15, <1>22
<1>24. s[10] = pr + 105 + pl + t1 + t2 + ch + be + 8 + heap + af + fi + wo
  BY <1>14, <1>15, <1>23
<1> DEFINE flt == saves[f].flt
<1>25. /\ DOMAIN flt = {"formids", "trailing", "table1", "table2", "changes", "table3"}
       /\ flt["table1"] = pr + 105 + pl
       /\ flt["table2"] = pr + 105 + pl + t1
       /\ flt["changes"] = pr + 105 + pl + t1 + t2
       /\ flt["table3"] = pr + 105 + pl + t1 + t2 + ch
       /\ flt["formids"] = pr + 105 + pl + t1 + t2 + ch + be + 8 + heap + af
       /\ flt["trailing"] = pr + 105 + pl + t1 + t2 + ch + be + 8 + heap + af + fi + wo
  BY <1>3, <1>5, <1>6, <1>7, <1>8, <1>9, <1>10, <1>11, <1>12, <1>13 DEF FltFor
<1> HIDE DEF flt
<1>26. ASSUME NEW k \in DOMAIN body, body[k][1] \in DOMAIN flt
       PROVE  flt[body[k][1]] = s[k]
  <2>1. k \in {4, 5, 6, 7, 8, 10}
    BY <1>14, <1>25, <1>26
  <2>2. CASE k = 4
    BY <1>14, <1>18, <1>25, <2>2
  <2>3. CASE k = 5
    BY <1>14, <1>19, <1>25, <2>3
  <2>4. CASE k = 6
    BY <1>14, <1>20, <1>25, <2>4
  <2>5. CASE k = 7
    BY <1>14, <1>21, <1>25, <2>5
  <2>6. CASE k = 8
    BY <1>14, <1>22, <1>25, <2>6
  <2>7. CASE k = 10
    BY <1>14, <1>24, <1>25, <2>7
  <2> QED
    BY <2>1, <2>2, <2>3, <2>4, <2>5, <2>6, <2>7
<1> QED
  BY <1>26 DEF s, body, flt, b

\* The offsets of the location table, which are added up apart from the code
\* that writes the sections, are where the sections are: for all lengths of the
\* sections and all heaps, also after instances and definitions were removed.
THEOREM OffsetsStayTrue == SvSpec => []OffsetsTrue
<1>1. SvInit => PlacedInv
  BY InitPlaced
<1>2. PlacedInv /\ [SvNext]_svVars => PlacedInv'
  BY NextPlaced
<1>3. PlacedInv => OffsetsTrue
  BY PlacedMeansTrue
<1> QED
  BY <1>1, <1>2, <1>3, PTL DEF SvSpec
=============================================================================
