----------------------------- MODULE ModInstall -----------------------------
(***************************************************************************)
(* chim/modinstall.py and the mod_* tools of chim/server.py: mods are      *)
(* copied into a game's data directory, their plugins are registered in    *)
(* its configuration, and a manifest by the mod's name says what uninstall *)
(* has to take back.  Every game has a data directory and a configuration  *)
(* of its own; the manifests of all games are in one directory.            *)
(*                                                                         *)
(* One chim process runs one tool call at a time; a call is a sequence of  *)
(* file operations and may break off between any two of them.  The lock    *)
(* check refuses a call before its first operation and dry_run=True makes  *)
(* it change nothing; neither is a step here.                              *)
(***************************************************************************)
EXTENDS Naturals, FiniteSets, Functions

CONSTANTS
  Games,     \* the games; each is a data directory and a configuration
  OpenMW,    \* the one whose configuration has to be there, and of the BSAs
  Mods,      \* the names mods are installed under
  Files,     \* paths below a data directory
  Plugins,   \* those of them that are registered in the configuration
  Faults,    \* which disturbances the environment and the user allow
  Absent,    \* what is at a path where there is no file
  User,      \* the writer of a file that chim did not write
  NoManifest,\* there is no <name>.json
  Garbled,   \* <name>.json is not valid JSON
  NoCfg,     \* there is no openmw.cfg, or plugins.txt
  Idle       \* no tool call is running

FaultKinds ==
  { "break",    \* an operation raises, or the process dies between two
    "busy",     \* a file of the mod cannot be deleted (OSError)
    "shrink",   \* a name is installed again with a plan that drops files,
                \* or spells them otherwise (Foo.nif for foo.nif on Windows)
    "crossgame" }  \* a name is installed again, for another game

ASSUME GamesAssumption == OpenMW \in Games
ASSUME PluginsAssumption == Plugins \subseteq Files
ASSUME FaultsAssumption == Faults \subseteq FaultKinds

VARIABLES
  data,       \* who wrote the file at each path of each data directory
  cfg,        \* the plugins registered in each configuration, or NoCfg
  cfgBak,     \* each configuration as last backed up
  manifest,   \* the manifest of each name
  op,         \* the tool call that is running
  theirs,     \* history: paths where the user put a file that no manifest claims
  theirLines, \* history: plugins the user registered that no manifest claims
  disturbed   \* history: a call broke off, or a manifest dropped an entry

vars == <<data, cfg, cfgBak, manifest, op, theirs, theirLines, disturbed>>

\* Of each path of a list, whether it is marked "preexisting".
Marks == UNION {[S -> BOOLEAN] : S \in SUBSET Files}

\* The lines a manifest lists, by the game whose configuration they went to.
Lines == [Games -> SUBSET Plugins]

NoLines == [g \in Games |-> {}]

WithLines(x, g, S) == [x EXCEPT ![g] = x[g] \cup S]

Manifest == [game : Games, files : Marks, cfgAdded : Lines, hasCfg : BOOLEAN]

IsManifest(m) == m \notin {NoManifest, Garbled}

\* The files a manifest tells uninstall to delete.
OwnedIn(m) ==
  IF IsManifest(m) THEN {f \in DOMAIN m.files : ~m.files[f]} ELSE {}

AddedIn(m) == IF IsManifest(m) THEN m.cfgAdded ELSE NoLines

\* The local variables of a tool call: of install and the BSA extractions,
Copying ==
  [kind : {"install", "extract", "meshes"}, at : {"copy", "record", "recording"},
   mod : Mods, game : Games, plan : SUBSET Files, todo : SUBSET Files,
   owned : SUBSET Files, copied : Marks, cfgAdded : Lines]

\* and of uninstall.
Deleting ==
  [kind : {"uninstall"}, at : {"delete", "rewrite", "remove"}, mod : Mods,
   game : Games, todo : SUBSET Files, cfgAdded : Lines, hasCfg : BOOLEAN,
   kept : SUBSET Plugins]

Ops == Copying \cup Deleting

ASSUME WritersAssumption == User \notin Mods /\ Absent \notin Mods /\ User # Absent
ASSUME ManifestAssumption ==
  NoManifest \notin Manifest /\ Garbled \notin Manifest /\ NoManifest # Garbled
ASSUME CfgAssumption == \A S \in SUBSET Plugins : S # NoCfg
ASSUME IdleAssumption == Idle \notin Ops

Configs == (SUBSET Plugins) \cup {NoCfg}

\* The plugins registered for a game.
Registered(g) == IF cfg[g] = NoCfg THEN {} ELSE cfg[g]

TypeOK ==
  /\ data \in [Games -> [Files -> Mods \cup {User, Absent}]]
  /\ cfg \in [Games -> Configs]
  /\ cfgBak \in [Games -> Configs]
  /\ manifest \in [Mods -> Manifest \cup {NoManifest, Garbled}]
  /\ op \in Ops \cup {Idle}
  /\ theirs \in [Games -> SUBSET Files]
  /\ theirLines \in [Games -> SUBSET Plugins]
  /\ disturbed \in BOOLEAN

Init ==
  /\ data \in [Games -> [Files -> {User, Absent}]]
  /\ cfg \in [Games -> Configs]
  /\ cfgBak = [g \in Games |-> NoCfg]
  /\ manifest = [m \in Mods |-> NoManifest]
  /\ op = Idle
  /\ theirs = [g \in Games |-> {f \in Files : data[g][f] = User}]
  /\ theirLines = [g \in Games |-> Registered(g)]
  /\ disturbed = FALSE

history == <<theirs, theirLines>>

\* What the mod's last manifest owns that a new plan does not find again.
Drops(m, found) == ~(OwnedIn(manifest[m]) \subseteq found)

\* The mod's last manifest is about another game.
Crosses(m, g) == IsManifest(manifest[m]) /\ manifest[m].game # g

\* safety.backup copies a configuration that is there.
BackUp(g) == cfgBak' = IF cfg[g] = NoCfg THEN cfgBak ELSE [cfgBak EXCEPT ![g] = cfg[g]]

-----------------------------------------------------------------------------
(* Mutants: what a step would be with a bug that a property must catch.    *)

\* An install does not look for the manifest of an earlier one.
InstallBeginsFresh(m, g, plan, same) ==
  /\ op = Idle
  /\ Drops(m, plan \cap same) => "shrink" \in Faults
  /\ Crosses(m, g) => "crossgame" \in Faults
  /\ disturbed' = (disturbed \/ Drops(m, plan \cap same) \/ Crosses(m, g))
  /\ op' = [kind |-> "install", at |-> "copy", mod |-> m, game |-> g,
            plan |-> plan, todo |-> plan, owned |-> {},
            copied |-> <<>>, cfgAdded |-> NoLines]
  /\ BackUp(g)
  /\ UNCHANGED <<data, cfg, manifest, history>>

\* Every file copied counts as added.
CopyFileUnmarked(f) ==
  /\ op # Idle
  /\ op.kind \in {"install", "extract"}
  /\ op.at = "copy"
  /\ f \in op.todo
  /\ op' = [op EXCEPT !.todo = @ \ {f},
               !.copied = [h \in DOMAIN @ \cup {f} |-> FALSE]]
  /\ data' = [data EXCEPT ![op.game] = [@ EXCEPT ![f] = op.mod]]
  /\ UNCHANGED <<cfg, cfgBak, manifest, history, disturbed>>

\* Every line of the plan counts as added.
RegisterUnmarked ==
  /\ op # Idle
  /\ op.kind = "install" /\ op.at = "copy" /\ op.todo = {}
  /\ cfg[op.game] # NoCfg \/ op.game # OpenMW
  /\ LET newly == op.plan \cap Plugins
     IN  /\ cfg' = [cfg EXCEPT ![op.game] = Registered(op.game) \cup newly]
         /\ op' = [op EXCEPT !.at = "record",
                     !.cfgAdded = WithLines(@, op.game, newly)]
  /\ UNCHANGED <<data, cfgBak, manifest, history, disturbed>>

\* The manifest does not say which configuration it is about.
RecordEndsPlain ==
  /\ op # Idle
  /\ op.at = "recording"
  /\ manifest' = [manifest EXCEPT ![op.mod] =
                    [game |-> op.game, files |-> op.copied,
                     cfgAdded |-> op.cfgAdded]]
  /\ op' = Idle
  /\ UNCHANGED <<data, cfg, cfgBak, history, disturbed>>

\* An uninstall does not back the configuration up.
UninstallBeginsUnsaved(m) ==
  /\ op = Idle
  /\ IsManifest(manifest[m])
  /\ op' = [kind |-> "uninstall", at |-> "delete", mod |-> m,
            game |-> manifest[m].game, todo |-> OwnedIn(manifest[m]),
            cfgAdded |-> manifest[m].cfgAdded, hasCfg |-> manifest[m].hasCfg,
            kept |-> {}]
  /\ UNCHANGED <<data, cfg, cfgBak, manifest, history, disturbed>>

\* An uninstall deletes from the data directory of the default game.
UninstallBeginsOpenMW(m) ==
  /\ op = Idle
  /\ IsManifest(manifest[m])
  /\ op' = [kind |-> "uninstall", at |-> "delete", mod |-> m, game |-> OpenMW,
            todo |-> OwnedIn(manifest[m]), cfgAdded |-> manifest[m].cfgAdded,
            hasCfg |-> manifest[m].hasCfg, kept |-> {}]
  /\ IF manifest[m].hasCfg THEN BackUp(OpenMW) ELSE UNCHANGED cfgBak
  /\ UNCHANGED <<data, cfg, manifest, history, disturbed>>

-----------------------------------------------------------------------------
(* mod_install -> install_archive -> install.                              *)

\* mod_install backs the game's configuration up; install then reads what the
\* last install of this name owns, whichever game that was for.  An
\* unreadable manifest counts as none.  `same` is what the plan spells as the
\* manifest does.
InstallBegins(m, g, plan, same) ==
  /\ op = Idle
  /\ Drops(m, plan \cap same) => "shrink" \in Faults
  /\ Crosses(m, g) => "crossgame" \in Faults
  /\ disturbed' = (disturbed \/ Drops(m, plan \cap same) \/ Crosses(m, g))
  /\ op' = [kind |-> "install", at |-> "copy", mod |-> m, game |-> g,
            plan |-> plan, todo |-> plan, owned |-> OwnedIn(manifest[m]) \cap same,
            copied |-> <<>>, cfgAdded |-> AddedIn(manifest[m])]
  /\ BackUp(g)
  /\ UNCHANGED <<data, cfg, manifest, history>>

\* One file: it pre-exists if it is there and no earlier install owns it.
CopyFile(f) ==
  /\ op # Idle
  /\ op.kind \in {"install", "extract"}
  /\ op.at = "copy"
  /\ f \in op.todo
  /\ LET pre == data[op.game][f] # Absent /\ f \notin op.owned
     IN  op' = [op EXCEPT !.todo = @ \ {f},
                  !.copied = [h \in DOMAIN @ \cup {f} |->
                                IF h = f THEN pre ELSE @[h]]]
  /\ data' = [data EXCEPT ![op.game] = [@ EXCEPT ![f] = op.mod]]
  /\ UNCHANGED <<cfg, cfgBak, manifest, history, disturbed>>

\* register_openmw, or register_skyrim, adds the lines that are not there; the
\* latter also makes a plugins.txt that is not there.
Register ==
  /\ op # Idle
  /\ op.kind = "install" /\ op.at = "copy" /\ op.todo = {}
  /\ cfg[op.game] # NoCfg \/ op.game # OpenMW
  /\ LET newly == (op.plan \cap Plugins) \ Registered(op.game)
     IN  /\ cfg' = IF newly = {} THEN cfg
                   ELSE [cfg EXCEPT ![op.game] = Registered(op.game) \cup newly]
         /\ op' = [op EXCEPT !.at = "record",
                     !.cfgAdded = WithLines(@, op.game, newly)]
  /\ UNCHANGED <<data, cfgBak, manifest, history, disturbed>>

\* register_openmw opens a configuration that is not there: the call raises
\* with every file copied and no manifest written.
RegisterRaises ==
  /\ op # Idle
  /\ op.kind = "install" /\ op.at = "copy" /\ op.todo = {}
  /\ cfg[op.game] = NoCfg /\ op.game = OpenMW
  /\ op' = Idle
  /\ disturbed' = TRUE
  /\ UNCHANGED <<data, cfg, cfgBak, manifest, history>>

\* open(<name>.json, "w") truncates the manifest of an earlier install ...
RecordBegins ==
  /\ op # Idle
  /\ \/ op.at = "record"
     \/ op.kind \in {"extract", "meshes"} /\ op.at = "copy" /\ op.todo = {}
  /\ op' = [op EXCEPT !.at = "recording"]
  /\ manifest' = [manifest EXCEPT ![op.mod] = Garbled]
  /\ UNCHANGED <<data, cfg, cfgBak, history, disturbed>>

\* ... and json.dump writes the files of this plan alone.
RecordEnds ==
  /\ op # Idle
  /\ op.at = "recording"
  /\ manifest' = [manifest EXCEPT ![op.mod] =
                    [game |-> op.game, files |-> op.copied,
                     cfgAdded |-> op.cfgAdded, hasCfg |-> op.kind = "install"]]
  /\ op' = Idle
  /\ UNCHANGED <<data, cfg, cfgBak, history, disturbed>>

-----------------------------------------------------------------------------
(* mod_extract_bsa: assets out of a BSA, into OpenMW's data directory, with *)
(* no regard to an earlier manifest of the name.                           *)

ExtractBegins(m, plan, kind) ==
  /\ op = Idle
  /\ plan \cap Plugins = {}
  /\ manifest[m] # NoManifest => "shrink" \in Faults
  /\ disturbed' = (disturbed \/ manifest[m] # NoManifest)
  /\ op' = [kind |-> kind, at |-> "copy", mod |-> m, game |-> OpenMW,
            plan |-> plan, todo |-> plan, owned |-> {}, copied |-> <<>>,
            cfgAdded |-> NoLines]
  /\ UNCHANGED <<data, cfg, cfgBak, manifest, history>>

\* extract_bsa_for_meshes pulls only what the data directory does not have.
PullTexture(f) ==
  /\ op # Idle
  /\ op.kind = "meshes" /\ op.at = "copy"
  /\ f \in op.todo
  /\ IF data[op.game][f] = Absent
     THEN /\ data' = [data EXCEPT ![op.game] = [@ EXCEPT ![f] = op.mod]]
          /\ op' = [op EXCEPT !.todo = @ \ {f},
                      !.copied = [h \in DOMAIN @ \cup {f} |->
                                    IF h = f THEN FALSE ELSE @[h]]]
     ELSE op' = [op EXCEPT !.todo = @ \ {f}] /\ UNCHANGED data
  /\ UNCHANGED <<cfg, cfgBak, manifest, history, disturbed>>

-----------------------------------------------------------------------------
(* mod_uninstall.                                                          *)

\* load_manifest raises on a missing or garbled manifest; the data directory
\* and the configuration are the manifest's.
UninstallBegins(m) ==
  /\ op = Idle
  /\ IsManifest(manifest[m])
  /\ op' = [kind |-> "uninstall", at |-> "delete", mod |-> m,
            game |-> manifest[m].game, todo |-> OwnedIn(manifest[m]),
            cfgAdded |-> manifest[m].cfgAdded, hasCfg |-> manifest[m].hasCfg,
            kept |-> {}]
  /\ IF manifest[m].hasCfg THEN BackUp(manifest[m].game) ELSE UNCHANGED cfgBak
  /\ UNCHANGED <<data, cfg, manifest, history, disturbed>>

\* An OSError of one file is swallowed and the next file is tried.
DeleteFile(f) ==
  /\ op # Idle
  /\ op.kind = "uninstall" /\ op.at = "delete"
  /\ f \in op.todo
  /\ op' = [op EXCEPT !.todo = @ \ {f}]
  /\ \/ /\ data' = [data EXCEPT ![op.game] = [@ EXCEPT ![f] = Absent]]
        /\ UNCHANGED disturbed
     \/ /\ "busy" \in Faults
        /\ data[op.game][f] # Absent
        /\ disturbed' = TRUE
        /\ UNCHANGED data
  /\ UNCHANGED <<cfg, cfgBak, manifest, history>>

\* _remove_cfg_lines: when there is a line to drop, open(cfg, "w") truncates
\* the configuration ...
Unregister ==
  /\ op # Idle
  /\ op.kind = "uninstall" /\ op.at = "delete" /\ op.todo = {}
  /\ LET added == op.cfgAdded[op.game]
     IN  IF op.hasCfg /\ Registered(op.game) \cap added # {}
         THEN /\ cfg' = [cfg EXCEPT ![op.game] = {}]
              /\ op' = [op EXCEPT !.at = "rewrite",
                          !.kept = Registered(op.game) \ added]
         ELSE op' = [op EXCEPT !.at = "remove"] /\ UNCHANGED cfg
  /\ UNCHANGED <<data, cfgBak, manifest, history, disturbed>>

\* ... and the other lines are written back.
RewriteEnds ==
  /\ op # Idle
  /\ op.at = "rewrite"
  /\ cfg' = [cfg EXCEPT ![op.game] = op.kept]
  /\ op' = [op EXCEPT !.at = "remove"]
  /\ UNCHANGED <<data, cfgBak, manifest, history, disturbed>>

RemoveManifest ==
  /\ op # Idle
  /\ op.at = "remove"
  /\ manifest' = [manifest EXCEPT ![op.mod] = NoManifest]
  /\ op' = Idle
  /\ UNCHANGED <<data, cfg, cfgBak, history, disturbed>>

-----------------------------------------------------------------------------
(* The environment.                                                        *)

\* Nothing undoes what a call has done when it breaks off.  An uninstall
\* that breaks off keeps its manifest and can be called again, but if it was
\* rewriting the configuration the user's lines are only in the backup.
BreaksOff ==
  /\ "break" \in Faults
  /\ op # Idle
  /\ op' = Idle
  /\ disturbed' = (disturbed \/ op.kind # "uninstall")
  /\ theirLines' = IF op.at = "rewrite"
                   THEN [theirLines EXCEPT ![op.game] = {}] ELSE theirLines
  /\ UNCHANGED <<data, cfg, cfgBak, manifest, theirs>>

\* What a manifest tells uninstall to take back from a game.
OwnedFor(x, g) == IF IsManifest(x) /\ x.game = g THEN OwnedIn(x) ELSE {}
AddedFor(x, g) == IF IsManifest(x) /\ x.game = g THEN x.cfgAdded[g] ELSE {}

Listed(g, f) == \E m \in Mods : f \in OwnedFor(manifest[m], g)
ListedLine(g, p) == \E m \in Mods : p \in AddedFor(manifest[m], g)

\* Between calls the user does as they like.  What they put where a manifest
\* claims a file or a line is chim's to take back: uninstall cannot tell it
\* from what chim put there.
UserAdds(g, f) ==
  /\ op = Idle
  /\ data[g][f] # User
  /\ data' = [data EXCEPT ![g] = [@ EXCEPT ![f] = User]]
  /\ theirs' = IF Listed(g, f) THEN theirs
               ELSE [theirs EXCEPT ![g] = @ \cup {f}]
  /\ UNCHANGED <<cfg, cfgBak, manifest, op, theirLines, disturbed>>

UserDeletes(g, f) ==
  /\ op = Idle
  /\ data[g][f] # Absent
  /\ data' = [data EXCEPT ![g] = [@ EXCEPT ![f] = Absent]]
  /\ theirs' = [theirs EXCEPT ![g] = @ \ {f}]
  /\ UNCHANGED <<cfg, cfgBak, manifest, op, theirLines, disturbed>>

UserRegisters(g, p) ==
  /\ op = Idle
  /\ cfg[g] # NoCfg /\ p \notin cfg[g]
  /\ cfg' = [cfg EXCEPT ![g] = @ \cup {p}]
  /\ theirLines' = IF ListedLine(g, p) THEN theirLines
                   ELSE [theirLines EXCEPT ![g] = @ \cup {p}]
  /\ UNCHANGED <<data, cfgBak, manifest, op, theirs, disturbed>>

UserUnregisters(g, p) ==
  /\ op = Idle
  /\ cfg[g] # NoCfg /\ p \in cfg[g]
  /\ cfg' = [cfg EXCEPT ![g] = @ \ {p}]
  /\ theirLines' = [theirLines EXCEPT ![g] = @ \ {p}]
  /\ UNCHANGED <<data, cfgBak, manifest, op, theirs, disturbed>>

-----------------------------------------------------------------------------
Install ==
  \/ \E m \in Mods, g \in Games, plan, same \in SUBSET Files :
       InstallBegins(m, g, plan, same)
  \/ \E f \in Files : CopyFile(f)
  \/ Register \/ RegisterRaises \/ RecordBegins \/ RecordEnds

Extract ==
  \/ \E m \in Mods, plan \in SUBSET Files, kind \in {"extract", "meshes"} :
       ExtractBegins(m, plan, kind)
  \/ \E f \in Files : PullTexture(f)

Uninstall ==
  \/ \E m \in Mods : UninstallBegins(m)
  \/ \E f \in Files : DeleteFile(f)
  \/ Unregister \/ RewriteEnds \/ RemoveManifest

UserActs == \E g \in Games :
  \/ \E f \in Files : UserAdds(g, f) \/ UserDeletes(g, f)
  \/ \E p \in Plugins : UserRegisters(g, p) \/ UserUnregisters(g, p)

Next == Install \/ Extract \/ Uninstall \/ UserActs \/ BreaksOff

Spec == Init /\ [][Next]_vars

-----------------------------------------------------------------------------
(* What an install promises.                                               *)

\* A path where the user had a file keeps a file, whatever is installed over
\* it, uninstalled, or broken off (uninstall removes "precisely those files",
\* "never touching pre-existing files"), though not its bytes: install keeps no
\* copy of what it overwrites.  With "crossgame" the code does not keep this.
UserFilesKept == \A g \in Games : \A f \in theirs[g] : data[g][f] # Absent

Rewriting(o) == o # Idle /\ o.at = "rewrite"

\* A plugin that the user registered stays registered; while the
\* configuration is being rewritten, and a crash would lose it, it is in the
\* backup and among the lines to be written back.
UserLinesKept ==
  \A g \in Games : cfg[g] # NoCfg =>
    IF Rewriting(op) /\ op.game = g
    THEN theirLines[g] \subseteq op.kept /\ theirLines[g] \subseteq cfgBak[g]
    ELSE theirLines[g] \subseteq cfg[g]

\* chim loses track of nothing: between calls, each file and each line that
\* it added is in a manifest that uninstall can take back, also after an
\* uninstall that broke off.  (Not so when an install breaks off, or when a
\* name is installed again for another game.)
AccountedFor ==
  op = Idle /\ ~disturbed => \A g \in Games :
    /\ \A f \in Files : data[g][f] # Absent => f \in theirs[g] \/ Listed(g, f)
    /\ \A p \in Registered(g) : p \in theirLines[g] \/ ListedLine(g, p)

\* A configuration never changes under a call but from the very content that
\* the call backed up, or back to that content less what it takes out.
ConfigBackedUp ==
  [][op # Idle => \A g \in Games : cfg[g] # NoCfg /\ cfg'[g] # cfg[g] =>
       \/ cfg[g] = cfgBak[g]
       \/ Rewriting(op) /\ cfg'[g] = cfgBak[g] \ op.cfgAdded[g]]_vars

\* When a name is installed again, what its earlier install added and is
\* still there stays its own ("files/cfg lines chim already added stay
\* chim-owned, so a later uninstall still reverses them").
ReinstallKeepsOwnership ==
  [][op # Idle /\ op.at = "recording" /\ op.kind = "install"
       /\ manifest' # manifest =>
     {f \in op.owned : data[op.game][f] # Absent}
       \subseteq OwnedIn(manifest'[op.mod])]_vars

-----------------------------------------------------------------------------
(* The inductive invariant behind UserFilesKept and UserLinesKept: nothing *)
(* of the user's is marked for deletion, in a manifest or in a call, and   *)
(* what a call is about to rewrite is in the backup.                       *)

\* What a call in progress deletes, or has an uninstall delete later.
Marked(o, g) ==
  IF o = Idle \/ o.game # g THEN {}
  ELSE IF o.kind = "uninstall" THEN o.todo
  ELSE o.owned \cup {f \in DOMAIN o.copied : ~o.copied[f]}

MarkedLines(o, g) == IF o = Idle \/ o.game # g THEN {} ELSE o.cfgAdded[g]

FilesInv ==
  /\ UserFilesKept
  /\ \A g \in Games : \A f \in theirs[g] :
       ~Listed(g, f) /\ f \notin Marked(op, g)

LinesInv ==
  /\ UserLinesKept
  /\ \A g \in Games : \A p \in theirLines[g] :
       cfg[g] # NoCfg /\ ~ListedLine(g, p) /\ p \notin MarkedLines(op, g)

\* A call has backed up the configuration that it is about to change.
Changing(o) ==
  /\ o # Idle
  /\ \/ o.kind = "install" /\ o.at = "copy"
     \/ o.kind = "uninstall" /\ o.at = "delete" /\ o.hasCfg

BackupInv ==
  /\ Changing(op) /\ cfg[op.game] # NoCfg => cfgBak[op.game] = cfg[op.game]
  /\ Rewriting(op) => /\ cfgBak[op.game] # NoCfg
                      /\ op.kept = cfgBak[op.game] \ op.cfgAdded[op.game]

OwnershipInv == TypeOK /\ FilesInv /\ LinesInv /\ BackupInv
=============================================================================
