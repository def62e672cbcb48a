---------------------------- MODULE PapyrusProofs ----------------------------
(***************************************************************************)
(* Proofs about PapyrusCompile: a call that nothing came in between of     *)
(* leaves the compiled script of its own command, for any processes,        *)
(* scripts and directories.                                                *)
(***************************************************************************)
EXTENDS PapyrusCompile, TLAPS

Imports == PcGiven \cup {DefaultImports}
Commands == [script : PcScripts, imports : Imports \ {<<>>}]
Pexes == [script : PcScripts, version : 0 .. MaxVersion, api : PcDirs]
Calls == [stage : {"upload", "write", "run", "compiling", "returned"},
          command : Commands, began : 0 .. MaxVersion, makes : Pexes \cup {NoPex},
          ok : BOOLEAN, disturbed : BOOLEAN]

PcTypeOK ==
  /\ pcSource \in [PcScripts -> 0 .. MaxVersion]
  /\ pcPex \in [PcScripts -> Pexes \cup {NoPex}]
  /\ pcBat \in [{"host", "temp"} -> Commands \cup {NoCommand}]
  /\ pcCalls \in [PcProcs -> Calls \cup {NoCompile}]
  /\ pcLate \subseteq Pexes

\* A compiled script that is what a call asked for, of a source that the call
\* may have met.
Fits(call, pex) ==
  /\ pex \in Pexes
  /\ pex.version \in call.began .. pcSource[call.command.script]
  /\ pex = Compiled(call.command, pex.version)

\* What a call relies on at each stage as long as nothing came in between: its
\* batch file holds its command when it is run, the compiler it waits for is
\* its own, and no compiler that was given up on is about to write its script.
CallOwn(call, path) ==
  /\ call.stage = "run" => pcBat[path] = call.command
  /\ call.stage = "compiling" => Fits(call, call.makes)
  /\ call.stage = "returned" /\ call.ok => Fits(call, pcPex[call.command.script])
  /\ call.began <= pcSource[call.command.script]
  /\ \A late \in pcLate : late.script # call.command.script

PcOwn == \A p \in PcProcs : Under(p) /\ ~pcCalls[p].disturbed => CallOwn(pcCalls[p], BatPath(p))

\* A compiler is at work in every call of that stage.
Working == \A p \in PcProcs : pcCalls[p].stage = "compiling" => pcCalls[p].makes \in Pexes

PcInv == PcTypeOK /\ Working /\ PcOwn

-----------------------------------------------------------------------------

\* What a step does to the call of a process that it is not a step of.
Spared(q) == \/ pcCalls'[q] = pcCalls[q]
             \/ Under(q) /\ pcCalls'[q] = [pcCalls[q] EXCEPT !.disturbed = TRUE]

LEMMA CallKinds ==
  ASSUME PcInv, NEW p \in PcProcs
  PROVE  /\ Under(p) <=> pcCalls[p] \in Calls
         /\ ~Under(p) <=> pcCalls[p] = NoCompile
         /\ BatPath(p) \in {"host", "temp"}
  BY SMT DEF PcInv, PcTypeOK, Calls, NoCompile, Under, BatPath

\* What the steps make of a record like a call.
LEMMA FieldPut ==
  ASSUME NEW S, NEW C, NEW N, NEW M, NEW O, NEW D,
         NEW r \in [stage : S, command : C, began : N, makes : M, ok : O, disturbed : D],
         NEW v \in S, NEW m \in M, NEW o \in O, NEW d \in D
  PROVE  LET kind == [stage : S, command : C, began : N, makes : M, ok : O, disturbed : D]
             Same(new) == new.command = r.command /\ new.began = r.began
             staged == [r EXCEPT !.stage = v]
             ended == [r EXCEPT !.ok = o]
             making == [r EXCEPT !.makes = m]
             hurt == [r EXCEPT !.disturbed = d]
         IN  /\ staged \in kind /\ Same(staged) /\ staged.stage = v
             /\ staged.makes = r.makes /\ staged.ok = r.ok /\ staged.disturbed = r.disturbed
             /\ ended \in kind /\ Same(ended) /\ ended.stage = r.stage
             /\ ended.makes = r.makes /\ ended.ok = o /\ ended.disturbed = r.disturbed
             /\ making \in kind /\ Same(making) /\ making.stage = r.stage
             /\ making.makes = m /\ making.ok = r.ok /\ making.disturbed = r.disturbed
             /\ hurt \in kind /\ Same(hurt) /\ hurt.stage = r.stage
             /\ hurt.makes = r.makes /\ hurt.ok = r.ok /\ hurt.disturbed = d
  BY SMT

LEMMA DisturbedCall ==
  ASSUME NEW c \in Calls
  PROVE  [c EXCEPT !.disturbed = TRUE] \in Calls
  BY FieldPut, Zenon DEF Calls

\* A call that is disturbed stays a call, at the same stage.
LEMMA SparedKeeps ==
  ASSUME PcInv, NEW q \in PcProcs, Spared(q)
  PROVE  /\ pcCalls'[q] \in Calls \cup {NoCompile}
         /\ pcCalls'[q].stage = pcCalls[q].stage
         /\ Under(q) => /\ pcCalls'[q].makes = pcCalls[q].makes
                        /\ pcCalls'[q].disturbed \/ pcCalls'[q] = pcCalls[q]
<1>1. CASE pcCalls'[q] = pcCalls[q]
  BY <1>1, SMT DEF PcInv, PcTypeOK
<1>2. CASE Under(q) /\ pcCalls'[q] = [pcCalls[q] EXCEPT !.disturbed = TRUE]
  <2>1. pcCalls[q] \in Calls
    BY <1>2, CallKinds
  <2>2. pcCalls'[q] \in Calls
    BY <1>2, <2>1, DisturbedCall, Zenon
  <2>3. pcCalls'[q].stage = pcCalls[q].stage /\ pcCalls'[q].makes = pcCalls[q].makes
    BY <1>2, <2>1, SMT DEF Calls
  <2>4. pcCalls'[q].disturbed
    BY <1>2, <2>1, SMT DEF Calls
  <2> QED BY <2>2, <2>3, <2>4
<1> QED BY <1>1, <1>2 DEF Spared

LEMMA CompiledIsPex ==
  ASSUME PcInv, NEW command \in Commands
  PROVE  Compiled(command, pcSource[command.script]) \in Pexes
<1>1. command.script \in PcScripts /\ command.imports \in Seq(PcDirs) /\ command.imports # <<>>
  <2>1. DefaultImports \in Seq(PcDirs)
    BY PapyrusAssumption, SMT DEF DefaultImports
  <2>2. Imports \subseteq Seq(PcDirs)
    BY <2>1, PapyrusAssumption DEF Imports
  <2> QED BY <2>2, SMT DEF Commands
<1>2. Head(command.imports) \in PcDirs
  BY <1>1, SMT
<1>3. pcSource[command.script] \in 0 .. MaxVersion
  BY <1>1 DEF PcInv, PcTypeOK
<1> QED BY <1>1, <1>2, <1>3 DEF Compiled, Pexes

LEMMA InitOwn == PcInit => PcInv
<1> SUFFICES ASSUME PcInit PROVE PcInv
  OBVIOUS
<1> USE PapyrusAssumption DEF PcInit, PcInitFrom
<1>1. PcTypeOK
  BY SMT DEF PcTypeOK
<1>2. \A p \in PcProcs : pcCalls[p].stage = "idle"
  <2>1. NoCompile.stage = "idle"
    BY DEF NoCompile
  <2> QED BY <2>1
<1> QED BY <1>1, <1>2, SMT DEF PcInv, Working, PcOwn, Under

LEMMA StagePut ==
  ASSUME NEW c \in Calls, NEW v \in {"upload", "write", "run", "compiling", "returned"}
  PROVE  LET d == [c EXCEPT !.stage = v]
         IN  /\ d \in Calls /\ d.stage = v
             /\ d.command = c.command /\ d.began = c.began /\ d.makes = c.makes
             /\ d.ok = c.ok /\ d.disturbed = c.disturbed
  BY FieldPut, Zenon DEF Calls

\* What a step does not do to a call that nothing came in between of: other
\* calls and older compilers keep off its batch file and its script.
Clear(q) ==
  /\ pcCalls[q].stage = "run" => pcBat'[BatPath(q)] = pcBat[BatPath(q)]
  /\ pcCalls[q].stage = "returned" =>
       pcPex'[pcCalls[q].command.script] = pcPex[pcCalls[q].command.script]
  /\ \A late \in pcLate' : late \in pcLate \/ late.script # pcCalls[q].command.script

LEMMA SourceGrows ==
  ASSUME PcInv, [PcNext]_pcVars
  PROVE  /\ pcMode' = pcMode
         /\ pcSource' \in [PcScripts -> 0 .. MaxVersion]
         /\ \A s \in PcScripts : pcSource[s] <= pcSource'[s]
<1>1. CASE \E s \in PcScripts : SourceEdited(s)
  BY <1>1, PapyrusAssumption, SMT DEF PcInv, PcTypeOK, SourceEdited
<1>2. CASE UNCHANGED <<pcMode, pcSource>>
  BY <1>2, PapyrusAssumption, SMT DEF PcInv, PcTypeOK
<1> QED
  BY <1>1, <1>2 DEF PcNext, pcVars, PapyrusCompile, OpenBat, WriteBat, PutCommand, RunBat,
     CompileRaises, CompileTimesOut, CompilerEnds, LateCompilerEnds

LEMMA StaysOwn ==
  ASSUME PcInv, [PcNext]_pcVars, NEW q \in PcProcs, Spared(q),
         Under(q) /\ ~pcCalls'[q].disturbed => Clear(q)
  PROVE  /\ pcCalls'[q] \in Calls \cup {NoCompile}
         /\ pcCalls'[q].stage = "compiling" => pcCalls'[q].makes \in Pexes
         /\ Under(q)' /\ ~pcCalls'[q].disturbed => CallOwn(pcCalls[q], BatPath(q))'
<1>1. /\ pcCalls'[q] \in Calls \cup {NoCompile}
      /\ pcCalls'[q].stage = pcCalls[q].stage
  BY SparedKeeps
<1>2. pcCalls'[q].stage = "compiling" => pcCalls'[q].makes \in Pexes
  BY SparedKeeps, <1>1 DEF PcInv, Working, Under
<1>3. ASSUME Under(q)', ~pcCalls'[q].disturbed PROVE CallOwn(pcCalls[q], BatPath(q))'
  <2>1. Under(q)
    BY <1>1, <1>3 DEF Under
  <2>2. pcCalls'[q] = pcCalls[q] /\ pcCalls[q] \in Calls
    BY <1>3, <2>1, SparedKeeps, CallKinds
  <2>3. CallOwn(pcCalls[q], BatPath(q)) /\ Clear(q)
    BY <1>3, <2>1, <2>2 DEF PcInv, PcOwn
  <2>4. BatPath(q)' = BatPath(q)
    BY SourceGrows DEF BatPath
  <2>5. /\ pcCalls[q].command.script \in PcScripts
        /\ pcCalls[q].began \in 0 .. MaxVersion
    BY <2>2, SMT DEF Calls, Commands
  <2>6. /\ pcSource[pcCalls[q].command.script] \in Nat
        /\ pcSource'[pcCalls[q].command.script] \in Nat
        /\ pcSource[pcCalls[q].command.script] <= pcSource'[pcCalls[q].command.script]
    BY <2>5, SourceGrows, PapyrusAssumption, SMT DEF PcInv, PcTypeOK
  <2>7. \A pex : Fits(pcCalls[q], pex) => Fits(pcCalls[q], pex)'
    <3> SUFFICES ASSUME NEW pex, Fits(pcCalls[q], pex) PROVE Fits(pcCalls[q], pex)'
      OBVIOUS
    <3>1. pex \in Pexes /\ pex.version \in pcCalls[q].began .. pcSource[pcCalls[q].command.script]
          /\ pex = Compiled(pcCalls[q].command, pex.version)
      BY DEF Fits
    <3>2. pex.version \in pcCalls[q].began .. pcSource'[pcCalls[q].command.script]
      BY <2>5, <2>6, <3>1, PapyrusAssumption
    <3> QED BY <2>2, <3>1, <3>2, Zenon DEF Fits
  <2>8. pcCalls[q].began <= pcSource'[pcCalls[q].command.script]
    BY <2>3, <2>5, <2>6, PapyrusAssumption DEF CallOwn
  <2> QED BY <2>2, <2>3, <2>4, <2>7, <2>8 DEF CallOwn, Clear
<1> QED BY <1>1, <1>2, <1>3

\* What a step has to make of a call.
Right(q) == /\ pcCalls'[q] \in Calls \cup {NoCompile}
            /\ pcCalls'[q].stage = "compiling" => pcCalls'[q].makes \in Pexes
            /\ Under(q)' /\ ~pcCalls'[q].disturbed => CallOwn(pcCalls[q], BatPath(q))'

LEMMA StepInv ==
  ASSUME PcInv, [PcNext]_pcVars,
         pcPex' \in [PcScripts -> Pexes \cup {NoPex}],
         pcBat' \in [{"host", "temp"} -> Commands \cup {NoCommand}],
         pcLate' \subseteq Pexes,
         pcCalls' = [q \in PcProcs |-> pcCalls'[q]],
         \A q \in PcProcs :
           Right(q) \/ (Spared(q) /\ (Under(q) /\ ~pcCalls'[q].disturbed => Clear(q)))
  PROVE  PcInv'
<1>1. \A q \in PcProcs : Right(q)
  BY StaysOwn DEF Right
<1>2. PcTypeOK'
  <2>1. pcCalls' \in [PcProcs -> Calls \cup {NoCompile}]
    BY <1>1, SMT DEF Right
  <2> QED BY <2>1, SourceGrows DEF PcTypeOK
<1>3. Working' /\ PcOwn'
  BY <1>1 DEF Right, Working, PcOwn
<1> QED BY <1>2, <1>3 DEF PcInv

LEMMA NobodysStep ==
  ASSUME PcInv, [PcNext]_pcVars,
         \/ UNCHANGED pcVars
         \/ \E s \in PcScripts : SourceEdited(s)
         \/ \E made \in pcLate, status \in {0, 1} : LateCompilerEnds(made, status)
  PROVE  PcInv'
<1>1. pcCalls' = pcCalls /\ pcBat' = pcBat /\ pcLate' \subseteq pcLate
  BY DEF pcVars, SourceEdited, LateCompilerEnds
<1>2. \/ pcPex' = pcPex
      \/ \E made \in pcLate : pcPex' = [pcPex EXCEPT ![made.script] = made]
  BY DEF pcVars, SourceEdited, LateCompilerEnds
<1>3. pcPex' \in [PcScripts -> Pexes \cup {NoPex}]
  BY <1>2, SMT DEF PcInv, PcTypeOK
<1>4. ASSUME NEW q \in PcProcs, Under(q), ~pcCalls'[q].disturbed PROVE Clear(q)
  <2>1. \A late \in pcLate : late.script # pcCalls[q].command.script
    BY <1>1, <1>4 DEF PcInv, PcOwn, CallOwn
  <2>2. pcCalls[q].command.script \in PcScripts
    BY <1>4, CallKinds, SMT DEF Calls, Commands
  <2>3. pcPex'[pcCalls[q].command.script] = pcPex[pcCalls[q].command.script]
    BY <1>2, <2>1, <2>2, SMT DEF PcInv, PcTypeOK
  <2> QED BY <1>1, <2>3 DEF Clear
<1>5. pcCalls' = [q \in PcProcs |-> pcCalls'[q]] /\ pcLate' \subseteq Pexes
      /\ pcBat' \in [{"host", "temp"} -> Commands \cup {NoCommand}]
  BY <1>1 DEF PcInv, PcTypeOK
<1> QED BY <1>1, <1>3, <1>4, <1>5, StepInv DEF Spared

LEMMA CallBegins ==
  ASSUME PcInv, [PcNext]_pcVars, NEW p \in PcProcs, NEW script \in PcScripts, NEW given \in PcGiven,
         PapyrusCompile(p, script, given)
  PROVE  PcInv'
<1> DEFINE imports == IF given = <<>> THEN DefaultImports ELSE given
           call == [stage |-> "upload", command |-> BuildCommand(script, imports),
                    began |-> pcSource[script], makes |-> NoPex, ok |-> FALSE,
                    disturbed |-> \E r \in pcLate : r.script = script]
<1>1. pcCalls' = [pcCalls EXCEPT ![p] = call]
  BY DEF PapyrusCompile
<1>2. UNCHANGED <<pcMode, pcSource, pcPex, pcBat, pcLate>>
  BY DEF PapyrusCompile
<1>3. call \in Calls
  <2>1. DefaultImports # <<>>
    BY SMT DEF DefaultImports
  <2>2. BuildCommand(script, imports) \in Commands
    BY <2>1 DEF BuildCommand, Commands, Imports
  <2>3. pcSource[script] \in 0 .. MaxVersion
    BY DEF PcInv, PcTypeOK
  <2>4. (\E r \in pcLate : r.script = script) \in BOOLEAN
    OBVIOUS
  <2> QED BY <2>2, <2>3, <2>4 DEF Calls
<1>4. pcCalls'[p] = call /\ \A q \in PcProcs \ {p} : pcCalls'[q] = pcCalls[q]
  BY <1>1, SMT DEF PcInv, PcTypeOK
<1>5. Right(p)
  <2>1. call.stage = "upload" /\ call.command.script = script /\ call.began = pcSource[script]
        /\ (~call.disturbed => \A late \in pcLate : late.script # script)
    BY DEF BuildCommand
  <2>2. pcSource[script] <= pcSource[script]
    BY PapyrusAssumption DEF PcInv, PcTypeOK
  <2> HIDE DEF call
  <2> QED BY <1>2, <1>3, <1>4, <2>1, <2>2 DEF Right, CallOwn
<1>6. \A q \in PcProcs \ {p} : Spared(q) /\ Clear(q)
  BY <1>2, <1>4 DEF Spared, Clear
<1>7. pcCalls' = [q \in PcProcs |-> pcCalls'[q]]
  BY <1>1 DEF PcInv, PcTypeOK
<1> QED BY <1>2, <1>5, <1>6, <1>7, StepInv DEF PcInv, PcTypeOK

LEMMA BatchStep ==
  ASSUME PcInv, [PcNext]_pcVars, NEW p \in PcProcs, OpenBat(p) \/ WriteBat(p)
  PROVE  PcInv'
<1> DEFINE stage == IF OpenBat(p) THEN "write" ELSE "run"
           command == IF OpenBat(p) THEN NoCommand ELSE pcCalls[p].command
<1>1. /\ OpenBat(p) => pcCalls[p].stage = "upload"
      /\ WriteBat(p) => pcCalls[p].stage = "write"
      /\ pcCalls[p] \in Calls
      /\ UNCHANGED <<pcMode, pcSource, pcPex, pcLate>>
  BY CallKinds DEF OpenBat, WriteBat, PutCommand, Under
<1>2. pcBat' = [pcBat EXCEPT ![BatPath(p)] = command]
  BY <1>1 DEF OpenBat, WriteBat, PutCommand
<1>3. pcCalls' = [q \in PcProcs |->
        IF q = p THEN [pcCalls[p] EXCEPT !.stage = stage]
        ELSE IF Under(q) /\ BatPath(q) = BatPath(p) THEN [pcCalls[q] EXCEPT !.disturbed = TRUE]
        ELSE pcCalls[q]]
  <2>1. CASE OpenBat(p)
    BY <2>1, Zenon DEF OpenBat, Moved, To
  <2>2. CASE WriteBat(p) /\ ~OpenBat(p)
    BY <2>2, Zenon DEF WriteBat, PutCommand, Moved, To
  <2> QED BY <2>1, <2>2
<1>4. /\ pcCalls'[p] \in Calls /\ pcCalls'[p].stage = stage
      /\ pcCalls'[p].command = pcCalls[p].command /\ pcCalls'[p].began = pcCalls[p].began
      /\ pcCalls'[p].disturbed = pcCalls[p].disturbed
  <2>1. pcCalls'[p] = [pcCalls[p] EXCEPT !.stage = stage]
    BY <1>3
  <2>2. stage \in {"upload", "write", "run", "compiling", "returned"}
    OBVIOUS
  <2> HIDE DEF stage
  <2>3. pcCalls[p] \in Calls
    BY <1>1
  <2>4. LET d == [pcCalls[p] EXCEPT !.stage = stage]
        IN  /\ d \in Calls /\ d.stage = stage
            /\ d.command = pcCalls[p].command /\ d.began = pcCalls[p].began
            /\ d.disturbed = pcCalls[p].disturbed
    BY <2>2, <2>3, StagePut, Zenon
  <2> QED BY <2>1, <2>4
<1>5. pcBat' \in [{"host", "temp"} -> Commands \cup {NoCommand}]
  <2>1. pcCalls[p].command \in Commands
    BY <1>1, SMT DEF Calls
  <2> QED BY <1>2, <2>1, CallKinds DEF PcInv, PcTypeOK
<1>6. Right(p)
  <2>1. stage = "run" => pcBat'[BatPath(p)] = pcCalls[p].command
    BY <1>2, CallKinds, SMT DEF PcInv, PcTypeOK
  <2>2. stage # "compiling" /\ stage # "returned"
    OBVIOUS
  <2>3. BatPath(p)' = BatPath(p)
    BY <1>1 DEF BatPath
  <2>4. ~pcCalls[p].disturbed =>
          /\ pcCalls[p].began <= pcSource[pcCalls[p].command.script]
          /\ \A late \in pcLate : late.script # pcCalls[p].command.script
    BY <1>1 DEF PcInv, PcOwn, CallOwn, Under
  <2> HIDE DEF stage, command
  <2> QED BY <1>1, <1>4, <2>1, <2>2, <2>3, <2>4 DEF Right, CallOwn
<1>7. \A q \in PcProcs \ {p} : Spared(q)
  BY <1>3 DEF Spared
<1>8. \A q \in PcProcs \ {p} : Under(q) /\ ~pcCalls'[q].disturbed => Clear(q)
  <2> SUFFICES ASSUME NEW q \in PcProcs \ {p}, Under(q), ~pcCalls'[q].disturbed
               PROVE  Clear(q)
    OBVIOUS
  <2>1. BatPath(q) # BatPath(p)
    <3>1. pcCalls[q] \in Calls
      BY CallKinds
    <3>2. [pcCalls[q] EXCEPT !.disturbed = TRUE].disturbed
      BY <3>1, SMT DEF Calls
    <3> QED BY <1>3, <3>2
  <2>2. pcBat'[BatPath(q)] = pcBat[BatPath(q)]
    BY <1>2, <2>1, CallKinds, SMT DEF PcInv, PcTypeOK
  <2> QED BY <1>1, <2>2 DEF Clear
<1>9. pcCalls' = [q \in PcProcs |-> pcCalls'[q]]
  BY <1>3
<1>10. pcPex' \in [PcScripts -> Pexes \cup {NoPex}] /\ pcLate' \subseteq Pexes
  BY <1>1 DEF PcInv, PcTypeOK
<1> QED BY <1>5, <1>6, <1>7, <1>8, <1>9, <1>10, StepInv

LEMMA RunStep ==
  ASSUME PcInv, [PcNext]_pcVars, NEW p \in PcProcs, RunBat(p)
  PROVE  PcInv'
<1> DEFINE command == pcBat[BatPath(p)]
           made == Compiled(command, pcSource[command.script])
<1>1. /\ pcCalls[p].stage = "run" /\ pcCalls[p] \in Calls
      /\ UNCHANGED <<pcMode, pcSource, pcPex, pcBat, pcLate>>
      /\ pcCalls' = [pcCalls EXCEPT ![p] = pcCalls'[p]]
  <2>1. pcCalls[p].stage = "run" /\ UNCHANGED <<pcMode, pcSource, pcPex, pcBat, pcLate>>
    BY DEF RunBat
  <2>2. pcCalls[p] \in Calls
    BY <2>1, CallKinds DEF Under
  <2>3. \E call : pcCalls' = [pcCalls EXCEPT ![p] = call]
    BY Zenon DEF RunBat
  <2> QED BY <2>1, <2>2, <2>3 DEF PcInv, PcTypeOK
<1>2. ~pcCalls[p].disturbed => command = pcCalls[p].command
  BY <1>1 DEF PcInv, PcOwn, CallOwn, Under
<1>3. pcCalls[p].command \in Commands /\ command \in Commands \cup {NoCommand}
  BY <1>1, CallKinds, SMT DEF PcInv, PcTypeOK, Calls
<1>4. NoCommand \notin Commands
  BY PapyrusAssumption, SMT DEF Commands, Imports, DefaultImports
<1>5. Right(p)
  <2>1. CASE command = NoCommand
    <3>1. pcCalls[p].disturbed
      BY <1>2, <1>3, <1>4, <2>1
    <3> DEFINE staged == [pcCalls[p] EXCEPT !.stage = "returned"]
    <3>2. pcCalls'[p] = [staged EXCEPT !.ok = TRUE]
      <4>1. pcCalls' = [pcCalls EXCEPT ![p] = [staged EXCEPT !.ok = TRUE]]
        BY <2>1, Zenon DEF RunBat
      <4> QED BY <4>1 DEF PcInv, PcTypeOK
    <3>3. staged \in Calls /\ staged.stage = "returned" /\ staged.disturbed = pcCalls[p].disturbed
      BY <1>1, StagePut
    <3> HIDE DEF staged
    <3>4. LET d == [staged EXCEPT !.ok = TRUE]
          IN  d \in Calls /\ d.stage = staged.stage /\ d.disturbed = staged.disturbed
      BY <3>3, FieldPut, Zenon DEF Calls
    <3>5. /\ pcCalls'[p] \in Calls /\ pcCalls'[p].stage = "returned" /\ pcCalls'[p].disturbed
      BY <3>1, <3>2, <3>3, <3>4
    <3> QED BY <3>5 DEF Right
  <2>2. CASE command # NoCommand
    <3> DEFINE staged == [pcCalls[p] EXCEPT !.stage = "compiling"]
    <3>1. made \in Pexes
      BY <1>3, <2>2, CompiledIsPex
    <3>2. pcCalls'[p] = [staged EXCEPT !.makes = made]
      <4>1. pcCalls' = [pcCalls EXCEPT ![p] = [staged EXCEPT !.makes = made]]
        BY <2>2, Zenon DEF RunBat
      <4> QED BY <4>1 DEF PcInv, PcTypeOK
    <3> HIDE DEF made
    <3>3. /\ staged \in Calls /\ staged.stage = "compiling"
          /\ staged.command = pcCalls[p].command /\ staged.began = pcCalls[p].began
          /\ staged.disturbed = pcCalls[p].disturbed
      BY <1>1, StagePut
    <3> HIDE DEF staged
    <3>4. LET d == [staged EXCEPT !.makes = made]
          IN  /\ d \in Calls /\ d.stage = staged.stage /\ d.makes = made
              /\ d.command = staged.command /\ d.began = staged.began
              /\ d.disturbed = staged.disturbed
      BY <3>1, <3>3, FieldPut, Zenon DEF Calls
    <3>5. /\ pcCalls'[p] \in Calls /\ pcCalls'[p].stage = "compiling" /\ pcCalls'[p].makes = made
          /\ pcCalls'[p].command = pcCalls[p].command /\ pcCalls'[p].began = pcCalls[p].began
          /\ pcCalls'[p].disturbed = pcCalls[p].disturbed
      BY <3>2, <3>3, <3>4
    <3>6. ~pcCalls[p].disturbed =>
            /\ pcCalls[p].began <= pcSource[pcCalls[p].command.script]
            /\ \A late \in pcLate : late.script # pcCalls[p].command.script
      BY <1>1 DEF PcInv, PcOwn, CallOwn, Under
    <3>7. ~pcCalls[p].disturbed => Fits(pcCalls[p], made)
      <4>1. pcCalls[p].began \in Nat /\ pcSource[pcCalls[p].command.script] \in Nat
        BY <1>1, <1>3, PapyrusAssumption, SMT DEF Calls, Commands, PcInv, PcTypeOK
      <4>2. \A n : Compiled(command, n).version = n
        BY DEF Compiled
      <4>3. made.version = pcSource[command.script]
        BY <4>2 DEF made
      <4> QED BY <1>2, <3>1, <3>6, <4>1, <4>3, SMT DEF Fits, made
    <3>8. ~pcCalls[p].disturbed => Fits(pcCalls[p], pcCalls[p].makes)'
      BY <1>1, <3>5, <3>7, Zenon DEF Fits
    <3> QED BY <1>1, <3>1, <3>5, <3>6, <3>8 DEF Right, CallOwn
  <2> QED BY <2>1, <2>2
<1>6. \A q \in PcProcs \ {p} : Spared(q) /\ Clear(q)
  <2>1. \A q \in PcProcs \ {p} : pcCalls'[q] = pcCalls[q]
    BY <1>1 DEF PcInv, PcTypeOK
  <2> QED BY <1>1, <2>1 DEF Spared, Clear
<1>7. pcCalls' = [q \in PcProcs |-> pcCalls'[q]]
  BY <1>1 DEF PcInv, PcTypeOK
<1> QED BY <1>1, <1>5, <1>6, <1>7, StepInv DEF PcInv, PcTypeOK

LEMMA CallEnds ==
  ASSUME PcInv, [PcNext]_pcVars, NEW p \in PcProcs, NEW status \in {0, 1}, CompilerEnds(p, status)
  PROVE  PcInv'
<1> DEFINE made == pcCalls[p].makes
           staged == [pcCalls[p] EXCEPT !.stage = "returned"]
           over == [staged EXCEPT !.ok = (status = 0)]
           meets(q) == status = 0 /\ pcCalls[q].command.script = made.script
<1>1. /\ pcCalls[p].stage = "compiling" /\ UNCHANGED <<pcMode, pcSource, pcBat, pcLate>>
      /\ pcPex' = IF status = 0 THEN [pcPex EXCEPT ![made.script] = made] ELSE pcPex
  BY DEF CompilerEnds
<1>2. pcCalls' = [q \in PcProcs |->
        IF q = p THEN over
        ELSE IF Under(q) /\ meets(q) THEN [pcCalls[q] EXCEPT !.disturbed = TRUE]
        ELSE pcCalls[q]]
  BY Zenon DEF CompilerEnds, Moved, To
<1>3. pcCalls[p] \in Calls /\ made \in Pexes /\ made.script \in PcScripts
  <2>1. pcCalls[p] \in Calls /\ made \in Pexes
    BY <1>1, CallKinds DEF Under, PcInv, Working
  <2> HIDE DEF made
  <2> QED BY <2>1, SMT DEF Pexes
<1>4. pcPex' \in [PcScripts -> Pexes \cup {NoPex}]
  BY <1>1, <1>3, SMT DEF PcInv, PcTypeOK
<1>5. /\ over \in Calls /\ over.stage = "returned" /\ over.disturbed = pcCalls[p].disturbed
      /\ over.command = pcCalls[p].command /\ over.began = pcCalls[p].began
      /\ over.ok = (status = 0)
  <2>1. /\ staged \in Calls /\ staged.stage = "returned"
        /\ staged.command = pcCalls[p].command /\ staged.began = pcCalls[p].began
        /\ staged.disturbed = pcCalls[p].disturbed
    BY <1>3, StagePut
  <2> HIDE DEF staged
  <2>2. (status = 0) \in BOOLEAN
    OBVIOUS
  <2>3. /\ over \in Calls /\ over.stage = staged.stage /\ over.disturbed = staged.disturbed
        /\ over.command = staged.command /\ over.began = staged.began
        /\ over.ok = (status = 0)
    BY <2>1, <2>2, FieldPut, Zenon DEF Calls
  <2> QED BY <2>1, <2>3
<1>6. Right(p)
  <2>1. pcCalls'[p] = over
    BY <1>2
  <2> HIDE DEF over
  <2>2. ~pcCalls[p].disturbed =>
          /\ Fits(pcCalls[p], made)
          /\ pcCalls[p].began <= pcSource[pcCalls[p].command.script]
          /\ \A late \in pcLate : late.script # pcCalls[p].command.script
    BY <1>1 DEF PcInv, PcOwn, CallOwn, Under
  <2>3. ~pcCalls[p].disturbed /\ status = 0 => pcPex'[pcCalls[p].command.script] = made
    <3>1. Fits(pcCalls[p], made) => made.script = pcCalls[p].command.script
      BY DEF Fits, Compiled
    <3> HIDE DEF made
    <3> QED BY <1>1, <1>3, <2>2, <3>1, SMT DEF PcInv, PcTypeOK
  <2>4. ~pcCalls[p].disturbed /\ status = 0 =>
          Fits(pcCalls[p], pcPex[pcCalls[p].command.script])'
    BY <1>1, <1>5, <2>1, <2>2, <2>3, Zenon DEF Fits
  <2>5. /\ pcCalls'[p] \in Calls /\ pcCalls'[p].stage = "returned"
        /\ pcCalls'[p].disturbed = pcCalls[p].disturbed
        /\ pcCalls'[p].command = pcCalls[p].command /\ pcCalls'[p].began = pcCalls[p].began
        /\ pcCalls'[p].ok = (status = 0)
    BY <1>5, <2>1
  <2> QED BY <1>1, <2>2, <2>4, <2>5 DEF Right, CallOwn
<1>7. \A q \in PcProcs \ {p} : Spared(q)
  BY <1>2 DEF Spared
<1>8. \A q \in PcProcs \ {p} : Under(q) /\ ~pcCalls'[q].disturbed => Clear(q)
  <2> SUFFICES ASSUME NEW q \in PcProcs \ {p}, Under(q), ~pcCalls'[q].disturbed
               PROVE  Clear(q)
    OBVIOUS
  <2>1. pcCalls[q] \in Calls
    BY CallKinds
  <2>2. ~meets(q)
    <3>1. [pcCalls[q] EXCEPT !.disturbed = TRUE].disturbed
      BY <2>1, SMT DEF Calls
    <3> HIDE DEF meets, over
    <3> QED BY <1>2, <3>1
  <2>3. pcPex'[pcCalls[q].command.script] = pcPex[pcCalls[q].command.script]
    <3>1. pcCalls[q].command.script \in PcScripts
      BY <2>1, SMT DEF Calls, Commands
    <3> HIDE DEF made
    <3> QED BY <1>1, <1>3, <2>2, <3>1, SMT DEF PcInv, PcTypeOK
  <2> QED BY <1>1, <2>3 DEF Clear
<1>9. pcCalls' = [q \in PcProcs |-> pcCalls'[q]]
  BY <1>2
<1> QED BY <1>1, <1>4, <1>6, <1>7, <1>8, <1>9, StepInv DEF PcInv, PcTypeOK

LEMMA CallBreaksOff ==
  ASSUME PcInv, [PcNext]_pcVars, NEW p \in PcProcs, CompileRaises(p) \/ CompileTimesOut(p)
  PROVE  PcInv'
<1> DEFINE late == IF CompileTimesOut(p) THEN {pcCalls[p].makes} ELSE {}
           meets(q) == CompileTimesOut(p) /\ pcCalls[q].command.script = pcCalls[p].makes.script
<1>1. UNCHANGED <<pcMode, pcSource, pcPex, pcBat>>
  BY DEF CompileRaises, CompileTimesOut
<1>2. pcLate' = pcLate \cup late
  BY DEF CompileRaises, CompileTimesOut
<1>3. /\ CompileTimesOut(p) => pcCalls[p].stage = "compiling"
      /\ CompileRaises(p) => pcCalls[p].stage # "compiling"
  BY DEF CompileRaises, CompileTimesOut
<1>4. pcCalls' = [q \in PcProcs |->
        IF q = p THEN NoCompile
        ELSE IF Under(q) /\ meets(q) THEN [pcCalls[q] EXCEPT !.disturbed = TRUE]
        ELSE pcCalls[q]]
  <2>1. CASE CompileTimesOut(p)
    BY <2>1, Zenon DEF CompileTimesOut, Moved
  <2>2. CASE CompileRaises(p) /\ ~CompileTimesOut(p)
    <3>1. pcCalls' = [pcCalls EXCEPT ![p] = NoCompile]
      BY <2>2 DEF CompileRaises
    <3> QED BY <2>2, <3>1 DEF PcInv, PcTypeOK
  <2> QED BY <2>1, <2>2
<1>5. pcLate' \subseteq Pexes
  BY <1>2, <1>3 DEF PcInv, PcTypeOK, Working
<1>6. Right(p)
  <2>1. pcCalls'[p] = NoCompile /\ NoCompile.stage = "idle"
    BY <1>4 DEF NoCompile
  <2> QED BY <2>1 DEF Right, Under
<1>7. \A q \in PcProcs \ {p} : Spared(q)
  BY <1>4 DEF Spared
<1>8. \A q \in PcProcs \ {p} : Under(q) /\ ~pcCalls'[q].disturbed => Clear(q)
  <2> SUFFICES ASSUME NEW q \in PcProcs \ {p}, Under(q), ~pcCalls'[q].disturbed
               PROVE  Clear(q)
    OBVIOUS
  <2>1. pcCalls[q] \in Calls
    BY CallKinds
  <2>2. ~meets(q)
    <3>1. [pcCalls[q] EXCEPT !.disturbed = TRUE].disturbed
      BY <2>1, SMT DEF Calls
    <3> HIDE DEF meets
    <3> QED BY <1>4, <3>1
  <2> QED BY <1>1, <1>2, <2>2 DEF Clear
<1>9. pcCalls' = [q \in PcProcs |-> pcCalls'[q]]
  BY <1>4
<1> QED BY <1>1, <1>5, <1>6, <1>7, <1>8, <1>9, StepInv DEF PcInv, PcTypeOK

LEMMA NextOwn == PcInv /\ [PcNext]_pcVars => PcInv'
<1> SUFFICES ASSUME PcInv, [PcNext]_pcVars PROVE PcInv'
  OBVIOUS
<1>1. ASSUME NEW p \in PcProcs,
             \/ \E script \in PcScripts, given \in PcGiven : PapyrusCompile(p, script, given)
             \/ OpenBat(p) \/ WriteBat(p) \/ RunBat(p)
             \/ CompileRaises(p) \/ CompileTimesOut(p)
             \/ \E status \in {0, 1} : CompilerEnds(p, status)
      PROVE  PcInv'
  BY <1>1, CallBegins, BatchStep, RunStep, CallBreaksOff, CallEnds
<1> QED BY <1>1, NobodysStep DEF PcNext

\* For any processes, scripts and directories: a call that returned ok, and
\* that no other call of its batch file and no other compiler of its script
\* came in between of, left the compiled script that it was asked for.
THEOREM CompilesItsOwn == PcSpec => []CompiledOwn
<1>1. PcInv => CompiledOwn
  <2> SUFFICES ASSUME PcInv, NEW p \in PcProcs, pcCalls[p].stage = "returned",
                      pcCalls[p].ok, ~pcCalls[p].disturbed
               PROVE  LET call == pcCalls[p]
                          pex == pcPex[call.command.script]
                      IN  /\ pex # NoPex
                          /\ pex.version \in call.began .. pcSource[call.command.script]
                          /\ pex = Compiled(call.command, pex.version)
    BY Zenon DEF CompiledOwn
  <2>1. Fits(pcCalls[p], pcPex[pcCalls[p].command.script])
    BY DEF PcInv, PcOwn, CallOwn, Under
  <2>2. NoPex \notin Pexes
    BY PapyrusAssumption DEF Pexes
  <2> QED BY <2>1, <2>2, Zenon DEF Fits
<1> QED BY <1>1, InitOwn, NextOwn, PTL DEF PcSpec
=============================================================================
