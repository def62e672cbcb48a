---------------------------- MODULE PapyrusCompile ----------------------------
(***************************************************************************)
(* Compiling a Papyrus script (chim.esp.papyrus and papyrus_compile).  A    *)
(* call writes its command into a batch file of a fixed name and runs that *)
(* file, on the host over ssh or on its own machine; calls of several chim *)
(* processes that have one host, or one TEMP directory, have one batch     *)
(* file.                                                                   *)
(***************************************************************************)
EXTENDS Naturals, Sequences

CONSTANTS
  PcProcs,         \* chim processes
  PcScripts,       \* scripts
  PcDirs,          \* directories of sources
  SkseDir, VanillaDir,
  PcGiven,         \* the lists of directories that calls give, or none
  PcStarts,        \* which processes work on the host over ssh, and which on their own
  NoPex, NoCommand, \* no compiled script; an empty batch file
  MaxVersion,      \* bound on the versions of a source
  MaxCompiles      \* bound on the calls

ASSUME PapyrusAssumption ==
  /\ {SkseDir, VanillaDir} \subseteq PcDirs
  /\ PcGiven \subseteq Seq(PcDirs)
  /\ PcStarts \subseteq [PcProcs -> {"remote", "local"}]
  /\ {MaxVersion, MaxCompiles} \subseteq Nat
  /\ NoCommand \notin [script : PcScripts, imports : PcGiven \cup {<<SkseDir, VanillaDir>>}]
  /\ NoPex \notin [script : PcScripts, version : 0 .. MaxVersion, api : PcDirs]

VARIABLES
  pcMode,    \* pcMode[p]: "remote" or "local"
  pcSource,  \* pcSource[s]: the version of the source of a script
  pcPex,     \* pcPex[s]: the compiled script
  pcBat,     \* the command in each of the batch files
  pcCalls,   \* pcCalls[p]: the call under way, or the last one
  pcLate,    \* what compilers that were given up on are about to write
  pcCount    \* how many calls were made

pcVars == <<pcMode, pcSource, pcPex, pcBat, pcCalls, pcLate, pcCount>>

\* The directory of SKSE is searched first, so that its Actor.psc is found.
DefaultImports == <<SkseDir, VanillaDir>>

BuildCommand(script, imports) == [script |-> script, imports |-> imports]

\* What the compiler makes of a source, with the API that it finds first.
Compiled(command, version) ==
  [script |-> command.script, version |-> version, api |-> Head(command.imports)]

\* The batch file of a process: that of the host, or that of the local TEMP.
BatPath(p) == IF pcMode[p] = "remote" THEN "host" ELSE "temp"

NoCompile == [stage |-> "idle"]
Under(p) == pcCalls[p].stage # "idle"

\* The calls with one of them in a new state, and the calls of others that a
\* step gets in the way of.
Moved(p, call, Hurt(_)) ==
  [q \in PcProcs |-> IF q = p THEN call
                     ELSE IF Under(q) /\ Hurt(q) THEN [pcCalls[q] EXCEPT !.disturbed = TRUE]
                     ELSE pcCalls[q]]

NoneHurt(q) == FALSE
To(p, stage) == [pcCalls[p] EXCEPT !.stage = stage]

PcInitFrom(start) ==
  /\ pcMode = start
  /\ pcSource = [s \in PcScripts |-> 0]
  /\ pcPex = [s \in PcScripts |-> NoPex]
  /\ pcBat = [b \in {"host", "temp"} |-> NoCommand]
  /\ pcCalls = [p \in PcProcs |-> NoCompile]
  /\ pcLate = {}
  /\ pcCount = 0

PcInit == \E start \in PcStarts : PcInitFrom(start)

-----------------------------------------------------------------------------

\* The author saves a new version of a source.
SourceEdited(s) ==
  /\ pcSource[s] < MaxVersion
  /\ pcSource' = [pcSource EXCEPT ![s] = @ + 1]
  /\ UNCHANGED <<pcMode, pcPex, pcBat, pcCalls, pcLate, pcCount>>

\* papyrus_compile; without import directories those of the default are taken.
PapyrusCompile(p, script, given) ==
  LET imports == IF given = <<>> THEN DefaultImports ELSE given
  IN  /\ pcCalls[p].stage \in {"idle", "returned"}
      /\ pcCount < MaxCompiles
      /\ pcCount' = pcCount + 1
      /\ pcCalls' = [pcCalls EXCEPT ![p] =
           [stage |-> "upload", command |-> BuildCommand(script, imports),
            began |-> pcSource[script], makes |-> NoPex, ok |-> FALSE,
            disturbed |-> \E r \in pcLate : r.script = script]]
      /\ UNCHANGED <<pcMode, pcSource, pcPex, pcBat, pcLate>>

\* Opening the batch file to write it empties it.
OpenBat(p) ==
  LET Shares(q) == BatPath(q) = BatPath(p)
  IN  /\ pcCalls[p].stage = "upload"
      /\ pcBat' = [pcBat EXCEPT ![BatPath(p)] = NoCommand]
      /\ pcCalls' = Moved(p, To(p, "write"), Shares)
      /\ UNCHANGED <<pcMode, pcSource, pcPex, pcLate, pcCount>>

PutCommand(p, command) ==
  LET Shares(q) == BatPath(q) = BatPath(p)
  IN  /\ pcCalls[p].stage = "write"
      /\ pcBat' = [pcBat EXCEPT ![BatPath(p)] = command]
      /\ pcCalls' = Moved(p, To(p, "run"), Shares)
      /\ UNCHANGED <<pcMode, pcSource, pcPex, pcLate, pcCount>>

\* Mutant: the command leaves out the directories that were asked for.
WriteBatDefault(p) ==
  PutCommand(p, [pcCalls[p].command EXCEPT !.imports = DefaultImports])

WriteBat(p) == PutCommand(p, pcCalls[p].command)

\* The connection, the upload or the start of the batch raises.
CompileRaises(p) ==
  /\ pcCalls[p].stage \in {"upload", "write", "run"}
  /\ pcCalls' = [pcCalls EXCEPT ![p] = NoCompile]
  /\ UNCHANGED <<pcMode, pcSource, pcPex, pcBat, pcLate, pcCount>>

\* cmd runs what the batch file holds by now; an empty one exits with 0.
RunBat(p) ==
  LET command == pcBat[BatPath(p)]
  IN  /\ pcCalls[p].stage = "run"
      /\ pcCalls' = [pcCalls EXCEPT ![p] =
           IF command = NoCommand
           THEN [@ EXCEPT !.stage = "returned", !.ok = TRUE]
           ELSE [@ EXCEPT !.stage = "compiling",
                          !.makes = Compiled(command, pcSource[command.script])]]
      /\ UNCHANGED <<pcMode, pcSource, pcPex, pcBat, pcLate, pcCount>>

\* The compiler exits, and the call returns its status.  What it writes may be
\* what another call is about, or was.
CompilerEnds(p, status) ==
  LET made == pcCalls[p].makes
      Meets(q) == status = 0 /\ pcCalls[q].command.script = made.script
  IN  /\ pcCalls[p].stage = "compiling"
      /\ pcPex' = IF status = 0 THEN [pcPex EXCEPT ![made.script] = made] ELSE pcPex
      /\ pcCalls' = Moved(p, [To(p, "returned") EXCEPT !.ok = (status = 0)], Meets)
      /\ UNCHANGED <<pcMode, pcSource, pcBat, pcLate, pcCount>>

\* The call gives up; the compiler does not.
CompileTimesOut(p) ==
  LET Meets(q) == pcCalls[q].command.script = pcCalls[p].makes.script
  IN  /\ pcCalls[p].stage = "compiling"
      /\ pcLate' = pcLate \cup {pcCalls[p].makes}
      /\ pcCalls' = Moved(p, NoCompile, Meets)
      /\ UNCHANGED <<pcMode, pcSource, pcPex, pcBat, pcCount>>

LateCompilerEnds(made, status) ==
  /\ pcLate' = pcLate \ {made}
  /\ pcPex' = IF status = 0 THEN [pcPex EXCEPT ![made.script] = made] ELSE pcPex
  /\ UNCHANGED <<pcMode, pcSource, pcBat, pcCalls, pcCount>>

PcNext ==
  \/ \E s \in PcScripts : SourceEdited(s)
  \/ \E p \in PcProcs :
       \/ \E script \in PcScripts, given \in PcGiven :
            PapyrusCompile(p, script, given)
       \/ OpenBat(p) \/ WriteBat(p) \/ RunBat(p)
       \/ CompileRaises(p) \/ CompileTimesOut(p)
       \/ \E status \in {0, 1} : CompilerEnds(p, status)
  \/ \E made \in pcLate, status \in {0, 1} : LateCompilerEnds(made, status)

PcSpec == PcInit /\ [][PcNext]_pcVars

-----------------------------------------------------------------------------

\* A call that returned ok left the compiled script of its own command, made
\* of a source no older than the call, against the API of the directory that
\* was to be searched first, and it stays until the next compilation of the
\* script.  What comes in between unnoticed: another process that writes the
\* same batch file, and a compiler of the same script that is still running,
\* of another process or of a call that timed out.
CompiledOwn ==
  \A p \in PcProcs :
    LET call == pcCalls[p]
        pex == pcPex[call.command.script]
    IN  call.stage = "returned" /\ call.ok /\ ~call.disturbed =>
          /\ pex # NoPex
          /\ pex.version \in call.began .. pcSource[call.command.script]
          /\ pex = Compiled(call.command, pex.version)
=============================================================================
