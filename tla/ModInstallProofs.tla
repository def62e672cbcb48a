-------------------------- MODULE ModInstallProofs --------------------------
(***************************************************************************)
(* Theorems about ModInstall, for any games, mods, files and plugins and   *)
(* every combination of disturbances, save where a theorem says that no    *)
(* name goes from one game to another.                                     *)
(***************************************************************************)
EXTENDS ModInstall, TLAPS

\* Marking one more path.
Mark(c, f, b) == [g \in DOMAIN c \cup {f} |-> IF g = f THEN b ELSE c[g]]

Unmarked(c) == {f \in DOMAIN c : ~c[f]}

LEMMA MarksFacts ==
  /\ <<>> \in Marks /\ Unmarked(<<>>) = {}
  /\ \A c \in Marks : Unmarked(c) \subseteq Files
  /\ \A c \in Marks, f \in Files, b \in BOOLEAN :
       /\ Mark(c, f, b) \in Marks
       /\ Unmarked(Mark(c, f, b)) \subseteq
            Unmarked(c) \cup (IF b THEN {} ELSE {f})
<1>1. <<>> \in [{} -> BOOLEAN]
  OBVIOUS
<1>2. <<>> \in Marks /\ Unmarked(<<>>) = {}
  BY <1>1 DEF Marks, Unmarked
<1>3. \A c \in Marks : Unmarked(c) \subseteq Files
  BY DEF Marks, Unmarked
<1>4. ASSUME NEW c \in Marks, NEW f \in Files, NEW b \in BOOLEAN
      PROVE  /\ Mark(c, f, b) \in Marks
             /\ Unmarked(Mark(c, f, b)) \subseteq
                  Unmarked(c) \cup (IF b THEN {} ELSE {f})
  <2>1. PICK S \in SUBSET Files : c \in [S -> BOOLEAN]
    BY DEF Marks
  <2>2. Mark(c, f, b) \in [S \cup {f} -> BOOLEAN]
    BY <2>1 DEF Mark
  <2>3. S \cup {f} \in SUBSET Files /\ DOMAIN c = S
    BY <2>1
  <2>4. Mark(c, f, b) \in Marks
    BY <2>2, <2>3 DEF Marks
  <2>5. Unmarked(Mark(c, f, b)) \subseteq Unmarked(c) \cup (IF b THEN {} ELSE {f})
    BY DEF Unmarked, Mark
  <2> QED BY <2>4, <2>5
<1> QED BY <1>2, <1>3, <1>4

LEMMA LinesFacts ==
  /\ NoLines \in Lines /\ \A g \in Games : NoLines[g] = {}
  /\ \A x \in Lines, g \in Games :
       /\ x[g] \in SUBSET Plugins
       /\ \A S \in SUBSET Plugins :
            /\ WithLines(x, g, S) \in Lines
            /\ WithLines(x, g, S)[g] = x[g] \cup S
BY DEF Lines, NoLines, WithLines

LEMMA ManifestFacts ==
  ASSUME NEW m \in Manifest \cup {NoManifest, Garbled}
  PROVE  /\ OwnedIn(m) \in SUBSET Files
         /\ AddedIn(m) \in Lines
         /\ IsManifest(m) =>
              /\ m \in Manifest
              /\ m.game \in Games
              /\ m.cfgAdded \in Lines
              /\ m.cfgAdded = AddedIn(m)
              /\ m.hasCfg \in BOOLEAN
BY ManifestAssumption, MarksFacts, LinesFacts
   DEF OwnedIn, AddedIn, IsManifest, Manifest, Unmarked

\* What a manifest claims, in its own game and in another.
LEMMA ForFacts ==
  ASSUME NEW x, NEW g \in Games
  PROVE  /\ OwnedFor(x, g) \subseteq OwnedIn(x)
         /\ ~IsManifest(x) => OwnedFor(x, g) = {} /\ AddedFor(x, g) = {}
         /\ IsManifest(x) /\ x.game # g =>
              OwnedFor(x, g) = {} /\ AddedFor(x, g) = {}
         /\ IsManifest(x) /\ x.game = g =>
              OwnedFor(x, g) = OwnedIn(x) /\ AddedFor(x, g) = x.cfgAdded[g]
         /\ AddedFor(x, g) \subseteq AddedIn(x)[g]
BY DEF OwnedFor, AddedFor, OwnedIn, AddedIn, NoLines

\* The fields of a call, and that Idle is not one.
LEMMA OpFacts ==
  ASSUME NEW o \in Ops \cup {Idle}
  PROVE  /\ o # Idle => /\ o \in Ops /\ o.mod \in Mods /\ o.game \in Games
                        /\ o.cfgAdded \in Lines
         /\ o # Idle /\ o.kind \in {"install", "extract", "meshes"} => o \in Copying
         /\ o # Idle /\ o.at \in {"record", "recording"} => o \in Copying
         /\ o # Idle /\ o.kind = "uninstall" => o \in Deleting
BY DEF Ops, Copying, Deleting

LEMMA MarkedFacts ==
  ASSUME NEW o \in Ops \cup {Idle}, NEW g \in Games
  PROVE  /\ o = Idle => Marked(o, g) = {} /\ MarkedLines(o, g) = {}
         /\ o # Idle /\ o.game # g => Marked(o, g) = {} /\ MarkedLines(o, g) = {}
         /\ o \in Copying /\ o.game = g =>
              /\ Marked(o, g) = o.owned \cup Unmarked(o.copied)
              /\ MarkedLines(o, g) = o.cfgAdded[g]
         /\ o \in Deleting /\ o.game = g =>
              Marked(o, g) = o.todo /\ MarkedLines(o, g) = o.cfgAdded[g]
BY IdleAssumption DEF Marked, MarkedLines, Unmarked, Ops, Copying, Deleting

-----------------------------------------------------------------------------
(* What each step of a call does to the call's local variables.            *)

LEMMA InstallBeginsOp ==
  ASSUME TypeOK, NEW m \in Mods, NEW g \in Games, NEW plan \in SUBSET Files,
         NEW same \in SUBSET Files, InstallBegins(m, g, plan, same)
  PROVE  /\ op' \in Copying /\ op'.game = g
         /\ op'.owned = OwnedIn(manifest[m]) \cap same
         /\ Unmarked(op'.copied) = {}
         /\ op'.cfgAdded = AddedIn(manifest[m])
<1>1. op'.copied = <<>> /\ op'.owned = OwnedIn(manifest[m]) \cap same
        /\ op'.cfgAdded = AddedIn(manifest[m]) /\ op'.game = g
  BY DEF InstallBegins
<1>2. op' \in Copying
  <2>1. OwnedIn(manifest[m]) \cap same \in SUBSET Files
          /\ AddedIn(manifest[m]) \in Lines
    BY ManifestFacts DEF TypeOK
  <2> QED BY <2>1, MarksFacts DEF InstallBegins, Copying
<1>3. Unmarked(op'.copied) = {}
  BY <1>1 DEF Unmarked
<1> QED BY <1>1, <1>2, <1>3

LEMMA CopyFileOp ==
  ASSUME TypeOK, NEW f \in Files, CopyFile(f)
  PROVE  /\ op \in Copying /\ op' \in Copying
         /\ op'.game = op.game /\ op'.owned = op.owned
         /\ Unmarked(op'.copied) \subseteq Unmarked(op.copied) \cup
              (IF data[op.game][f] # Absent /\ f \notin op.owned THEN {} ELSE {f})
         /\ op'.cfgAdded = op.cfgAdded
<1> DEFINE pre == data[op.game][f] # Absent /\ f \notin op.owned
<1>1. op \in Copying
  BY OpFacts DEF CopyFile, TypeOK
<1>2. op' = [op EXCEPT !.todo = @ \ {f}, !.copied = Mark(@, f, pre)]
  BY DEF CopyFile, Mark
<1>3. pre \in BOOLEAN
  OBVIOUS
<1> HIDE DEF pre
<1>4. Mark(op.copied, f, pre) \in Marks
  BY <1>1, <1>3, MarksFacts DEF Copying
<1>5. op' \in Copying /\ op'.owned = op.owned /\ op'.game = op.game
        /\ op'.copied = Mark(op.copied, f, pre) /\ op'.cfgAdded = op.cfgAdded
  BY <1>1, <1>2, <1>4 DEF Copying
<1>6. Unmarked(op'.copied) \subseteq Unmarked(op.copied) \cup (IF pre THEN {} ELSE {f})
  BY <1>1, <1>3, <1>5, MarksFacts DEF Copying
<1> QED BY <1>1, <1>5, <1>6 DEF pre

\* The lines that a call registers.
Newly == (op.plan \cap Plugins) \ Registered(op.game)

LEMMA RegisterOp ==
  ASSUME TypeOK, Register
  PROVE  /\ op \in Copying /\ op' \in Copying /\ op'.game = op.game
         /\ op'.owned = op.owned /\ op'.copied = op.copied
         /\ op'.cfgAdded[op.game] = op.cfgAdded[op.game] \cup Newly
         /\ op'.at = "record" /\ op'.mod = op.mod /\ op'.kind = op.kind
         /\ op'.todo = op.todo
<1>1. op \in Copying
  BY OpFacts DEF Register, TypeOK
<1>2. op.cfgAdded \in Lines /\ op.game \in Games /\ Newly \in SUBSET Plugins
  BY <1>1 DEF Copying, Newly
<1> DEFINE added == WithLines(op.cfgAdded, op.game, Newly)
<1>3. op' = [op EXCEPT !.at = "record", !.cfgAdded = added]
  BY DEF Register, Newly
<1>4. added \in Lines /\ added[op.game] = op.cfgAdded[op.game] \cup Newly
  BY <1>2, LinesFacts
<1> HIDE DEF added
<1> QED BY <1>1, <1>3, <1>4 DEF Copying

\* Nothing is taken out of a configuration by registering.
LEMMA RegisterCfg ==
  ASSUME TypeOK, Register
  PROVE  /\ cfg' \in [Games -> Configs]
         /\ \A g \in Games : cfg'[g] # cfg[g] =>
              /\ g = op.game /\ cfg'[g] # NoCfg
              /\ cfg'[g] = Registered(g) \cup Newly
         /\ \A g \in Games : cfg[g] # NoCfg => cfg'[g] # NoCfg /\ cfg[g] \subseteq cfg'[g]
         /\ Registered(op.game)' = Registered(op.game) \cup Newly
<1> DEFINE new == Registered(op.game) \cup Newly
<1>1. op \in Copying /\ op' \in Copying /\ op.game \in Games /\ op'.game = op.game
  BY RegisterOp DEF Copying
<1>2. cfg' = IF Newly = {} THEN cfg ELSE [cfg EXCEPT ![op.game] = new]
  BY DEF Register, Newly
<1>3. Newly \subseteq Plugins /\ cfg[op.game] \in Configs
  BY <1>1 DEF Newly, TypeOK
<1>4. new \in SUBSET Plugins /\ new # NoCfg
  BY <1>3, CfgAssumption DEF Registered, Configs
<1>5. cfg' \in [Games -> Configs]
  BY <1>1, <1>2, <1>4 DEF TypeOK, Configs
<1>6. cfg[op.game] # NoCfg => cfg[op.game] \subseteq new
  BY DEF Registered
<1>7. Registered(op.game)' = new
  <2>1. CASE Newly = {}
    BY <1>1, <1>2, <2>1 DEF Registered
  <2>2. CASE Newly # {}
    <3>1. cfg'[op.game] = new
      BY <1>1, <1>2, <2>2 DEF TypeOK
    <3> QED BY <1>1, <1>4, <3>1 DEF Registered
  <2> QED BY <2>1, <2>2
<1>8. \A g \in Games : cfg'[g] # cfg[g] => g = op.game /\ cfg'[g] = new
  BY <1>1, <1>2 DEF TypeOK
<1> HIDE DEF new
<1>9. \A g \in Games : cfg[g] # NoCfg => cfg'[g] # NoCfg /\ cfg[g] \subseteq cfg'[g]
  BY <1>4, <1>6, <1>8
<1> QED BY <1>4, <1>5, <1>7, <1>8, <1>9 DEF new

LEMMA RecordBeginsOp ==
  ASSUME TypeOK, RecordBegins
  PROVE  /\ op \in Copying /\ op' \in Copying /\ op'.game = op.game
         /\ op'.owned = op.owned /\ op'.copied = op.copied
         /\ op'.cfgAdded = op.cfgAdded
<1>1. op \in Copying
  BY OpFacts DEF RecordBegins, TypeOK
<1> QED BY <1>1 DEF RecordBegins, Copying

\* The manifest that an install or an extraction leaves.
LEMMA RecordEndsOp ==
  ASSUME TypeOK, RecordEnds
  PROVE  /\ op \in Copying
         /\ manifest'[op.mod] \in Manifest /\ IsManifest(manifest'[op.mod])
         /\ manifest'[op.mod].game = op.game
         /\ manifest'[op.mod].hasCfg = (op.kind = "install")
         /\ OwnedIn(manifest'[op.mod]) = Unmarked(op.copied)
         /\ manifest'[op.mod].cfgAdded = op.cfgAdded
         /\ AddedIn(manifest'[op.mod]) = op.cfgAdded
         /\ \A m \in Mods : m # op.mod => manifest'[m] = manifest[m]
<1> DEFINE new == [game |-> op.game, files |-> op.copied,
                   cfgAdded |-> op.cfgAdded, hasCfg |-> op.kind = "install"]
<1>1. op \in Copying
  BY OpFacts DEF RecordEnds, TypeOK
<1>2. new \in Manifest
  BY <1>1 DEF Copying, Manifest
<1>3. IsManifest(new) /\ new.files = op.copied /\ new.cfgAdded = op.cfgAdded
        /\ new.game = op.game /\ new.hasCfg = (op.kind = "install")
  BY <1>2, ManifestAssumption DEF IsManifest
<1>4. manifest'[op.mod] = new
        /\ \A m \in Mods : m # op.mod => manifest'[m] = manifest[m]
  BY <1>1 DEF RecordEnds, TypeOK, Copying
<1> HIDE DEF new
<1> QED BY <1>1, <1>2, <1>3, <1>4 DEF OwnedIn, AddedIn, Unmarked

LEMMA ExtractBeginsOp ==
  ASSUME TypeOK, NEW m \in Mods, NEW plan \in SUBSET Files,
         NEW kind \in {"extract", "meshes"}, ExtractBegins(m, plan, kind)
  PROVE  /\ op' \in Copying /\ op'.game = OpenMW
         /\ op'.owned = {} /\ Unmarked(op'.copied) = {} /\ op'.cfgAdded = NoLines
<1>1. op'.copied = <<>> /\ op'.owned = {} /\ op'.cfgAdded = NoLines
        /\ op'.game = OpenMW
  BY DEF ExtractBegins
<1>2. op' \in Copying
  BY MarksFacts, LinesFacts, GamesAssumption DEF ExtractBegins, Copying
<1>3. Unmarked(op'.copied) = {}
  BY <1>1 DEF Unmarked
<1> QED BY <1>1, <1>2, <1>3

LEMMA PullTextureOp ==
  ASSUME TypeOK, NEW f \in Files, PullTexture(f)
  PROVE  /\ op \in Copying /\ op' \in Copying /\ op'.game = op.game
         /\ op'.owned = op.owned /\ op'.cfgAdded = op.cfgAdded
         /\ Unmarked(op'.copied) \subseteq Unmarked(op.copied) \cup
              (IF data[op.game][f] = Absent THEN {f} ELSE {})
<1>1. op \in Copying
  BY OpFacts DEF PullTexture, TypeOK
<1>2. CASE data[op.game][f] = Absent
  <2>1. op' = [op EXCEPT !.todo = @ \ {f}, !.copied = Mark(@, f, FALSE)]
    BY <1>2 DEF PullTexture, Mark
  <2>2. op.copied \in Marks /\ Mark(op.copied, f, FALSE) \in Marks
    BY <1>1, MarksFacts DEF Copying
  <2>3. Unmarked(Mark(op.copied, f, FALSE)) \subseteq Unmarked(op.copied) \cup {f}
    BY <2>2, MarksFacts
  <2>4. op' \in Copying /\ op'.copied = Mark(op.copied, f, FALSE)
          /\ op'.owned = op.owned /\ op'.cfgAdded = op.cfgAdded
          /\ op'.game = op.game
    BY <1>1, <2>1, <2>2 DEF Copying
  <2> QED BY <1>1, <1>2, <2>3, <2>4
<1>3. CASE data[op.game][f] # Absent
  BY <1>1, <1>3 DEF PullTexture, Copying
<1> QED BY <1>2, <1>3

LEMMA UninstallBeginsOp ==
  ASSUME TypeOK, NEW m \in Mods, UninstallBegins(m)
  PROVE  /\ op' \in Deleting /\ op'.at = "delete"
         /\ op'.game = manifest[m].game
         /\ op'.hasCfg = manifest[m].hasCfg
         /\ op'.todo = OwnedIn(manifest[m])
         /\ op'.cfgAdded = AddedIn(manifest[m])
<1>1. manifest[m] \in Manifest \cup {NoManifest, Garbled}
  BY DEF TypeOK
<1> QED BY <1>1, ManifestFacts DEF UninstallBegins, Deleting

LEMMA DeleteFileOp ==
  ASSUME TypeOK, NEW f \in Files, DeleteFile(f)
  PROVE  /\ op \in Deleting /\ op' \in Deleting /\ op'.game = op.game
         /\ op.at = "delete" /\ op'.at = "delete" /\ op'.hasCfg = op.hasCfg
         /\ f \in op.todo /\ op'.todo = op.todo \ {f}
         /\ op'.cfgAdded = op.cfgAdded
<1>1. op \in Deleting
  BY OpFacts DEF DeleteFile, TypeOK
<1> QED BY <1>1 DEF DeleteFile, Deleting

LEMMA UnregisterOp ==
  ASSUME TypeOK, Unregister
  PROVE  /\ op \in Deleting /\ op' \in Deleting /\ op'.game = op.game
         /\ op.at = "delete" /\ op'.todo = op.todo /\ op'.cfgAdded = op.cfgAdded
         /\ op'.mod = op.mod /\ op'.hasCfg = op.hasCfg
         /\ \/ /\ op'.at = "rewrite" /\ op.hasCfg
               /\ cfg[op.game] \in SUBSET Plugins /\ cfg[op.game] # NoCfg
               /\ cfg' = [cfg EXCEPT ![op.game] = {}]
               /\ op'.kept = cfg[op.game] \ op.cfgAdded[op.game]
            \/ /\ op'.at = "remove" /\ cfg' = cfg
               /\ op.hasCfg => Registered(op.game) \cap op.cfgAdded[op.game] = {}
<1>1. op \in Deleting /\ op.game \in Games
  BY OpFacts DEF Unregister, TypeOK, Deleting
<1>2. CASE op.hasCfg /\ Registered(op.game) \cap op.cfgAdded[op.game] # {}
  <2>1. cfg[op.game] # NoCfg /\ Registered(op.game) = cfg[op.game]
    BY <1>2 DEF Registered
  <2>2. cfg[op.game] \in SUBSET Plugins
    BY <1>1, <2>1 DEF TypeOK, Configs
  <2>3. /\ op' = [op EXCEPT !.at = "rewrite",
                    !.kept = cfg[op.game] \ op.cfgAdded[op.game]]
        /\ cfg' = [cfg EXCEPT ![op.game] = {}] /\ op.at = "delete"
    BY <1>2, <2>1 DEF Unregister
  <2>4. cfg[op.game] \ op.cfgAdded[op.game] \in SUBSET Plugins
    BY <2>2
  <2> QED BY <1>1, <1>2, <2>1, <2>2, <2>3, <2>4 DEF Deleting
<1>3. CASE ~(op.hasCfg /\ Registered(op.game) \cap op.cfgAdded[op.game] # {})
  BY <1>1, <1>3 DEF Unregister, Deleting
<1> QED BY <1>2, <1>3

LEMMA RewriteEndsOp ==
  ASSUME TypeOK, RewriteEnds
  PROVE  /\ op \in Deleting /\ op' \in Deleting /\ op'.game = op.game
         /\ op.at = "rewrite" /\ op'.at = "remove"
         /\ op'.mod = op.mod /\ op'.hasCfg = op.hasCfg
         /\ op'.todo = op.todo /\ op'.cfgAdded = op.cfgAdded
         /\ op.game \in Games
         /\ cfg' = [cfg EXCEPT ![op.game] = op.kept] /\ op.kept \in SUBSET Plugins
<1>1. op \in Deleting
  BY DEF RewriteEnds, TypeOK, Ops, Copying, Deleting
<1> QED BY <1>1 DEF RewriteEnds, Deleting

LEMMA RemoveManifestOp ==
  ASSUME TypeOK, RemoveManifest
  PROVE  /\ op \in Deleting /\ op.at = "remove" /\ op' = Idle
         /\ manifest'[op.mod] = NoManifest
         /\ \A m \in Mods : m # op.mod => manifest'[m] = manifest[m]
<1>1. op \in Deleting /\ op.mod \in Mods
  BY DEF RemoveManifest, TypeOK, Ops, Copying, Deleting
<1> QED BY <1>1 DEF RemoveManifest, TypeOK

-----------------------------------------------------------------------------
(* Type correctness.                                                       *)

LEMMA InitTypeOK == Init => TypeOK
<1> SUFFICES ASSUME Init PROVE TypeOK
  OBVIOUS
<1>1. data \in [Games -> [Files -> Mods \cup {User, Absent}]]
  <2>1. \A g \in Games : data[g] \in [Files -> {User, Absent}]
    BY DEF Init
  <2>2. \A g \in Games : data[g] \in [Files -> Mods \cup {User, Absent}]
    BY <2>1
  <2> QED BY <2>2 DEF Init
<1>2. cfg \in [Games -> Configs] /\ cfgBak \in [Games -> Configs]
  BY DEF Init, Configs
<1>3. theirs \in [Games -> SUBSET Files]
  BY DEF Init
<1>4. theirLines \in [Games -> SUBSET Plugins]
  BY <1>2 DEF Init, Registered, Configs
<1> QED BY <1>1, <1>2, <1>3, <1>4 DEF Init, TypeOK

\* Writing, or deleting, one file.
LEMMA OneFile ==
  ASSUME TypeOK, NEW g \in Games, NEW f \in Files, NEW w \in Mods \cup {User, Absent}
  PROVE  /\ [data EXCEPT ![g] = [@ EXCEPT ![f] = w]]
              \in [Games -> [Files -> Mods \cup {User, Absent}]]
         /\ \A h \in Games, e \in Files :
              [data EXCEPT ![g] = [@ EXCEPT ![f] = w]][h][e]
                = IF h = g /\ e = f THEN w ELSE data[h][e]
BY DEF TypeOK

LEMMA CallTypeOK ==
  ASSUME TypeOK, Install \/ Extract \/ Uninstall
  PROVE  TypeOK'
<1> USE DEF TypeOK, Ops, history
<1>1. ASSUME NEW m \in Mods, NEW g \in Games, NEW plan \in SUBSET Files,
             NEW same \in SUBSET Files, InstallBegins(m, g, plan, same)
      PROVE  TypeOK'
  <2>1. cfgBak' \in [Games -> Configs]
    BY <1>1 DEF InstallBegins, BackUp
  <2> QED BY <1>1, <2>1, InstallBeginsOp DEF InstallBegins
<1>2. ASSUME NEW f \in Files, CopyFile(f) PROVE TypeOK'
  <2>1. op.mod \in Mods /\ op.game \in Games
    BY <1>2, CopyFileOp DEF Copying
  <2>2. data' \in [Games -> [Files -> Mods \cup {User, Absent}]]
    BY <1>2, <2>1, OneFile DEF CopyFile
  <2> QED BY <1>2, <2>2, CopyFileOp DEF CopyFile
<1>3. CASE Register
  BY <1>3, RegisterOp, RegisterCfg DEF Register
<1>4. CASE RegisterRaises
  BY <1>4 DEF RegisterRaises
<1>5. CASE RecordBegins
  BY <1>5, RecordBeginsOp DEF RecordBegins
<1>6. CASE RecordEnds
  <2>1. manifest' \in [Mods -> Manifest \cup {NoManifest, Garbled}]
    BY <1>6, RecordEndsOp DEF RecordEnds, Copying
  <2> QED BY <1>6, <2>1 DEF RecordEnds
<1>7. ASSUME NEW m \in Mods, NEW plan \in SUBSET Files,
             NEW kind \in {"extract", "meshes"}, ExtractBegins(m, plan, kind)
      PROVE  TypeOK'
  BY <1>7, ExtractBeginsOp DEF ExtractBegins
<1>8. ASSUME NEW f \in Files, PullTexture(f) PROVE TypeOK'
  <2>1. op.mod \in Mods /\ op.game \in Games
    BY <1>8, PullTextureOp DEF Copying
  <2>2. data' \in [Games -> [Files -> Mods \cup {User, Absent}]]
    <3>1. [data EXCEPT ![op.game] = [@ EXCEPT ![f] = op.mod]]
            \in [Games -> [Files -> Mods \cup {User, Absent}]]
      BY <2>1, OneFile
    <3> QED BY <1>8, <3>1 DEF PullTexture
  <2> QED BY <1>8, <2>2, PullTextureOp DEF PullTexture
<1>9. ASSUME NEW m \in Mods, UninstallBegins(m) PROVE TypeOK'
  <2>1. manifest[m].game \in Games
    BY <1>9, ManifestFacts DEF UninstallBegins
  <2>2. cfgBak' \in [Games -> Configs]
    BY <1>9, <2>1 DEF UninstallBegins, BackUp
  <2> QED BY <1>9, <2>2, UninstallBeginsOp DEF UninstallBegins
<1>10. ASSUME NEW f \in Files, DeleteFile(f) PROVE TypeOK'
  <2>1. op.game \in Games
    BY <1>10, DeleteFileOp DEF Deleting
  <2>2. data' \in [Games -> [Files -> Mods \cup {User, Absent}]]
    <3>1. [data EXCEPT ![op.game] = [@ EXCEPT ![f] = Absent]]
            \in [Games -> [Files -> Mods \cup {User, Absent}]]
      BY <2>1, OneFile
    <3> QED BY <1>10, <3>1 DEF DeleteFile
  <2> QED BY <1>10, <2>2, DeleteFileOp DEF DeleteFile
<1>11. CASE Unregister
  <2>1. cfg' \in [Games -> Configs]
    BY <1>11, UnregisterOp DEF Deleting, Configs
  <2> QED BY <1>11, <2>1, UnregisterOp DEF Unregister
<1>12. CASE RemoveManifest
  BY <1>12 DEF RemoveManifest
<1>13. CASE RewriteEnds
  <2>1. cfg' \in [Games -> Configs]
    BY <1>13, RewriteEndsOp DEF Configs
  <2> QED BY <1>13, <2>1, RewriteEndsOp DEF RewriteEnds
<1> QED
  BY <1>1, <1>2, <1>3, <1>4, <1>5, <1>6, <1>7, <1>8, <1>9, <1>10, <1>11, <1>12,
     <1>13 DEF Install, Extract, Uninstall

LEMMA OtherTypeOK ==
  ASSUME TypeOK, UserActs \/ BreaksOff \/ UNCHANGED vars
  PROVE  TypeOK'
<1>1. ASSUME NEW g \in Games, NEW f \in Files, UserAdds(g, f) \/ UserDeletes(g, f)
      PROVE  TypeOK'
  <2>1. data' \in [Games -> [Files -> Mods \cup {User, Absent}]]
    <3>1. \A w \in {User, Absent} :
            [data EXCEPT ![g] = [@ EXCEPT ![f] = w]]
              \in [Games -> [Files -> Mods \cup {User, Absent}]]
      BY OneFile
    <3> QED BY <1>1, <3>1 DEF UserAdds, UserDeletes
  <2>2. theirs' \in [Games -> SUBSET Files]
    BY <1>1 DEF UserAdds, UserDeletes, TypeOK
  <2> QED BY <1>1, <2>1, <2>2 DEF UserAdds, UserDeletes, TypeOK
<1>2. ASSUME NEW g \in Games, NEW p \in Plugins,
             UserRegisters(g, p) \/ UserUnregisters(g, p)
      PROVE  TypeOK'
  <2>1. cfg[g] \in SUBSET Plugins
    BY <1>2 DEF UserRegisters, UserUnregisters, TypeOK, Configs
  <2>2. \A S \in SUBSET Plugins : [cfg EXCEPT ![g] = S] \in [Games -> Configs]
    BY DEF TypeOK, Configs
  <2>3. \/ cfg' = [cfg EXCEPT ![g] = cfg[g] \cup {p}]
        \/ cfg' = [cfg EXCEPT ![g] = cfg[g] \ {p}]
    BY <1>2 DEF UserRegisters, UserUnregisters
  <2>4. cfg' \in [Games -> Configs]
    BY <2>1, <2>2, <2>3
  <2>5. theirLines' \in [Games -> SUBSET Plugins]
    BY <1>2 DEF UserRegisters, UserUnregisters, TypeOK
  <2> QED BY <1>2, <2>4, <2>5 DEF UserRegisters, UserUnregisters, TypeOK
<1>3. CASE BreaksOff
  BY <1>3 DEF BreaksOff, TypeOK, history
<1>4. CASE UNCHANGED vars
  BY <1>4 DEF vars, TypeOK
<1> QED BY <1>1, <1>2, <1>3, <1>4 DEF UserActs

(***************************************************************************)
(* Type correctness: every call keeps the shape of the manifests, so that  *)
(* a later call can read what an earlier one wrote.                        *)
(***************************************************************************)
THEOREM AlwaysTypeOK == Spec => []TypeOK
<1>1. TypeOK /\ [Next]_vars => TypeOK'
  BY CallTypeOK, OtherTypeOK DEF Next
<1> QED BY <1>1, InitTypeOK, PTL DEF Spec

-----------------------------------------------------------------------------
(* The user's files.                                                       *)

\* No name is installed for one game while its manifest is about another.
OneGamePerName == "crossgame" \notin Faults

\* A step that neither changes the user's files nor marks one of them.
LEMMA FilesUndisturbed ==
  ASSUME FilesInv,
         theirs' = theirs,
         \A g \in Games : \A f \in theirs[g] :
           data[g][f] # Absent => data'[g][f] # Absent,
         \A g \in Games : Marked(op', g) \cap theirs[g] \subseteq Marked(op, g),
         \A m \in Mods, g \in Games :
           OwnedFor(manifest'[m], g)
             \subseteq OwnedFor(manifest[m], g) \cup Marked(op, g)
  PROVE  FilesInv'
BY DEF FilesInv, UserFilesKept, Listed

\* A manifest that is truncated, or removed, claims nothing.
LEMMA ManifestGone ==
  ASSUME TypeOK, NEW k \in Mods, NEW x \in {NoManifest, Garbled},
         manifest' = [manifest EXCEPT ![k] = x],
         NEW m \in Mods, NEW g \in Games
  PROVE  /\ OwnedFor(manifest'[m], g) \subseteq OwnedFor(manifest[m], g)
         /\ AddedFor(manifest'[m], g) \subseteq AddedFor(manifest[m], g)
<1>1. CASE m = k
  BY <1>1, ForFacts DEF TypeOK, IsManifest
<1>2. CASE m # k
  BY <1>2 DEF TypeOK
<1> QED BY <1>1, <1>2

\* The manifest that an install leaves claims what the call had marked.
LEMMA ManifestLeft ==
  ASSUME TypeOK, RecordEnds, NEW m \in Mods, NEW g \in Games
  PROVE  /\ OwnedFor(manifest'[m], g)
              \subseteq OwnedFor(manifest[m], g) \cup Marked(op, g)
         /\ AddedFor(manifest'[m], g)
              \subseteq AddedFor(manifest[m], g) \cup MarkedLines(op, g)
<1>1. /\ op \in Copying /\ op \in Ops /\ op # Idle
      /\ IsManifest(manifest'[op.mod]) /\ manifest'[op.mod].game = op.game
      /\ OwnedIn(manifest'[op.mod]) = Unmarked(op.copied)
      /\ manifest'[op.mod].cfgAdded = op.cfgAdded
      /\ \A k \in Mods : k # op.mod => manifest'[k] = manifest[k]
  BY RecordEndsOp, IdleAssumption DEF Ops
<1>2. CASE m = op.mod /\ g = op.game
  <2>1. /\ OwnedFor(manifest'[m], g) = OwnedIn(manifest'[m])
        /\ AddedFor(manifest'[m], g) = manifest'[m].cfgAdded[g]
    BY <1>1, <1>2, ForFacts
  <2>2. /\ Marked(op, g) = op.owned \cup Unmarked(op.copied)
        /\ MarkedLines(op, g) = op.cfgAdded[g]
    BY <1>1, <1>2, MarkedFacts
  <2> QED BY <1>1, <1>2, <2>1, <2>2
<1>3. CASE m = op.mod /\ g # op.game
  BY <1>1, <1>3, ForFacts
<1>4. CASE m # op.mod
  BY <1>1, <1>4
<1> QED BY <1>2, <1>3, <1>4

\* What a manifest of the game claims, and a call on it marks, is not theirs.
LEMMA ClaimedNotTheirs ==
  ASSUME FilesInv, NEW m \in Mods, NEW g \in Games
  PROVE  OwnedFor(manifest[m], g) \cap theirs[g] = {}
BY DEF FilesInv, Listed

LEMMA CallFiles ==
  ASSUME OneGamePerName, TypeOK, FilesInv, Install \/ Extract \/ Uninstall
  PROVE  FilesInv'
<1> USE DEF history, Ops
<1>1. ASSUME NEW m \in Mods, NEW g \in Games, NEW plan \in SUBSET Files,
             NEW same \in SUBSET Files, InstallBegins(m, g, plan, same)
      PROVE  FilesInv'
  <2>1. op' \in Copying /\ op'.owned = OwnedIn(manifest[m]) \cap same
          /\ op'.game = g /\ Unmarked(op'.copied) = {}
    BY <1>1, InstallBeginsOp
  <2>2. Marked(op', g) \subseteq OwnedFor(manifest[m], g)
    <3>1. Marked(op', g) = op'.owned \cup Unmarked(op'.copied)
      BY <2>1, MarkedFacts
    <3>2. CASE IsManifest(manifest[m])
      <4>1. manifest[m].game = g
        BY <1>1, <3>2 DEF InstallBegins, Crosses, OneGamePerName
      <4> QED BY <2>1, <3>1, <3>2, <4>1, ForFacts
    <3>3. CASE ~IsManifest(manifest[m])
      BY <2>1, <3>1, <3>3 DEF OwnedIn
    <3> QED BY <3>2, <3>3
  <2>3. \A h \in Games : Marked(op', h) \cap theirs[h] = {}
    <3> SUFFICES ASSUME NEW h \in Games PROVE Marked(op', h) \cap theirs[h] = {}
      OBVIOUS
    <3>1. CASE h = g
      BY <2>2, <3>1, ClaimedNotTheirs
    <3>2. CASE h # g
      <4>1. op' \in Ops /\ op' # Idle /\ op'.game # h
        BY <2>1, <3>2, IdleAssumption
      <4> QED BY <4>1, MarkedFacts
    <3> QED BY <3>1, <3>2
  <2> QED BY <1>1, <2>3, FilesUndisturbed DEF InstallBegins
<1>2. ASSUME NEW f \in Files, CopyFile(f) PROVE FilesInv'
  <2>1. op \in Copying /\ op' \in Copying /\ op'.game = op.game
          /\ op.mod \in Mods /\ op.game \in Games
    BY <1>2, CopyFileOp DEF Copying
  <2>2. f \in theirs[op.game] =>
          data[op.game][f] # Absent /\ f \notin op.owned
    <3>1. Marked(op, op.game) = op.owned \cup Unmarked(op.copied)
      BY <2>1, MarkedFacts
    <3> QED BY <2>1, <3>1 DEF FilesInv, UserFilesKept
  <2>3. \A g \in Games : Marked(op', g) \cap theirs[g] \subseteq Marked(op, g)
    <3> SUFFICES ASSUME NEW g \in Games
                 PROVE  Marked(op', g) \cap theirs[g] \subseteq Marked(op, g)
      OBVIOUS
    <3>1. CASE g = op.game
      <4>1. /\ Marked(op, g) = op.owned \cup Unmarked(op.copied)
            /\ Marked(op', g) = op'.owned \cup Unmarked(op'.copied)
        BY <2>1, <3>1, MarkedFacts
      <4> QED BY <1>2, <2>2, <3>1, <4>1, CopyFileOp
    <3>2. CASE g # op.game
      <4>1. op' \in Ops /\ op' # Idle /\ op'.game # g
        BY <2>1, <3>2, IdleAssumption
      <4> QED BY <4>1, MarkedFacts
    <3> QED BY <3>1, <3>2
  <2>4. \A g \in Games : \A e \in theirs[g] :
          data[g][e] # Absent => data'[g][e] # Absent
    <3>1. \A g \in Games, e \in Files :
            data'[g][e] = IF g = op.game /\ e = f THEN op.mod ELSE data[g][e]
      BY <1>2, <2>1, OneFile DEF CopyFile
    <3> QED BY <2>1, <3>1, WritersAssumption DEF TypeOK
  <2> QED BY <1>2, <2>3, <2>4, FilesUndisturbed DEF CopyFile
<1>3. CASE Register
  <2>1. \A g \in Games : Marked(op', g) = Marked(op, g)
    <3> SUFFICES ASSUME NEW g \in Games PROVE Marked(op', g) = Marked(op, g)
      OBVIOUS
    <3>1. CASE g = op.game
      <4>1. /\ op \in Copying /\ op' \in Copying /\ op'.game = g
            /\ op'.owned = op.owned /\ op'.copied = op.copied
        BY <1>3, <3>1, RegisterOp
      <4>2. Marked(op, g) = op.owned \cup Unmarked(op.copied)
        BY <3>1, <4>1, MarkedFacts DEF Ops
      <4>3. Marked(op', g) = op'.owned \cup Unmarked(op'.copied)
        BY <4>1, MarkedFacts DEF Ops
      <4> QED BY <4>1, <4>2, <4>3
    <3>2. CASE g # op.game
      <4>1. /\ op' \in Ops /\ op' # Idle /\ op'.game # g
            /\ op \in Ops /\ op # Idle
        BY <1>3, <3>2, RegisterOp, IdleAssumption
      <4> QED BY <3>2, <4>1, MarkedFacts
    <3> QED BY <3>1, <3>2
  <2> QED BY <1>3, <2>1, FilesUndisturbed DEF Register
<1>4. CASE RegisterRaises
  BY <1>4, FilesUndisturbed, MarkedFacts DEF RegisterRaises
<1>5. CASE RecordBegins
  <2>1. \A g \in Games : Marked(op', g) = Marked(op, g)
    BY <1>5, RecordBeginsOp, MarkedFacts
  <2>2. \A m \in Mods, g \in Games :
          OwnedFor(manifest'[m], g) \subseteq OwnedFor(manifest[m], g)
    BY <1>5, RecordBeginsOp, ManifestGone DEF RecordBegins, Copying
  <2> QED BY <1>5, <2>1, <2>2, FilesUndisturbed DEF RecordBegins
<1>6. CASE RecordEnds
  BY <1>6, ManifestLeft, MarkedFacts, FilesUndisturbed DEF RecordEnds
<1>7. ASSUME NEW m \in Mods, NEW plan \in SUBSET Files,
             NEW kind \in {"extract", "meshes"}, ExtractBegins(m, plan, kind)
      PROVE  FilesInv'
  <2>1. \A g \in Games : Marked(op', g) = {}
    BY <1>7, ExtractBeginsOp, MarkedFacts
  <2> QED BY <1>7, <2>1, FilesUndisturbed DEF ExtractBegins
<1>8. ASSUME NEW f \in Files, PullTexture(f) PROVE FilesInv'
  <2>1. op \in Copying /\ op' \in Copying /\ op'.game = op.game
          /\ op.mod \in Mods /\ op.game \in Games
    BY <1>8, PullTextureOp DEF Copying
  <2>2. \A g \in Games : Marked(op', g) \cap theirs[g] \subseteq Marked(op, g)
    <3> SUFFICES ASSUME NEW g \in Games
                 PROVE  Marked(op', g) \cap theirs[g] \subseteq Marked(op, g)
      OBVIOUS
    <3>1. CASE g = op.game
      <4>1. /\ Marked(op, g) = op.owned \cup Unmarked(op.copied)
            /\ Marked(op', g) = op'.owned \cup Unmarked(op'.copied)
        BY <2>1, <3>1, MarkedFacts
      <4>2. f \in theirs[g] => data[g][f] # Absent
        BY DEF FilesInv, UserFilesKept
      <4> QED BY <1>8, <3>1, <4>1, <4>2, PullTextureOp
    <3>2. CASE g # op.game
      <4>1. op' \in Ops /\ op' # Idle /\ op'.game # g
        BY <2>1, <3>2, IdleAssumption
      <4> QED BY <4>1, MarkedFacts
    <3> QED BY <3>1, <3>2
  <2>3. \A g \in Games : \A e \in theirs[g] :
          data[g][e] # Absent => data'[g][e] # Absent
    <3>1. data' = data \/ \A g \in Games, e \in Files :
            data'[g][e] = IF g = op.game /\ e = f THEN op.mod ELSE data[g][e]
      BY <1>8, <2>1, OneFile DEF PullTexture
    <3> QED BY <2>1, <3>1, WritersAssumption DEF TypeOK
  <2> QED BY <1>8, <2>2, <2>3, FilesUndisturbed DEF PullTexture
<1>9. ASSUME NEW m \in Mods, UninstallBegins(m) PROVE FilesInv'
  <2>1. /\ op' \in Deleting /\ op'.game = manifest[m].game
        /\ op'.todo = OwnedIn(manifest[m]) /\ IsManifest(manifest[m])
    BY <1>9, UninstallBeginsOp DEF UninstallBegins
  <2>2. \A g \in Games : Marked(op', g) \cap theirs[g] = {}
    <3> SUFFICES ASSUME NEW g \in Games PROVE Marked(op', g) \cap theirs[g] = {}
      OBVIOUS
    <3>1. CASE g = manifest[m].game
      <4>1. Marked(op', g) = OwnedFor(manifest[m], g)
        BY <2>1, <3>1, MarkedFacts, ForFacts
      <4> QED BY <4>1, ClaimedNotTheirs
    <3>2. CASE g # manifest[m].game
      <4>1. op' \in Ops /\ op' # Idle /\ op'.game # g
        BY <2>1, <3>2, IdleAssumption
      <4> QED BY <4>1, MarkedFacts
    <3> QED BY <3>1, <3>2
  <2> QED BY <1>9, <2>2, FilesUndisturbed DEF UninstallBegins
<1>10. ASSUME NEW f \in Files, DeleteFile(f) PROVE FilesInv'
  <2>1. /\ op \in Deleting /\ op' \in Deleting /\ op'.game = op.game
        /\ op.game \in Games /\ f \in op.todo /\ op'.todo = op.todo \ {f}
    BY <1>10, DeleteFileOp DEF Deleting
  <2>2. \A g \in Games : Marked(op', g) \subseteq Marked(op, g)
    <3> SUFFICES ASSUME NEW g \in Games PROVE Marked(op', g) \subseteq Marked(op, g)
      OBVIOUS
    <3>1. CASE g = op.game
      BY <2>1, <3>1, MarkedFacts
    <3>2. CASE g # op.game
      <4>1. op' \in Ops /\ op' # Idle /\ op'.game # g
        BY <2>1, <3>2, IdleAssumption
      <4> QED BY <4>1, MarkedFacts
    <3> QED BY <3>1, <3>2
  <2>3. f \notin theirs[op.game]
    <3>1. f \in Marked(op, op.game)
      BY <2>1, MarkedFacts
    <3> QED BY <2>1, <3>1 DEF FilesInv
  <2>4. \A g \in Games : \A e \in theirs[g] :
          data[g][e] # Absent => data'[g][e] # Absent
    <3>1. data' = data \/ \A g \in Games, e \in Files :
            data'[g][e] = IF g = op.game /\ e = f THEN Absent ELSE data[g][e]
      BY <1>10, <2>1, OneFile DEF DeleteFile
    <3> QED BY <2>1, <2>3, <3>1 DEF TypeOK
  <2> QED BY <1>10, <2>2, <2>4, FilesUndisturbed DEF DeleteFile
<1>11. CASE Unregister
  <2>1. \A g \in Games : Marked(op', g) = Marked(op, g)
    BY <1>11, UnregisterOp, MarkedFacts, IdleAssumption
  <2> QED BY <1>11, <2>1, FilesUndisturbed DEF Unregister
<1>12. CASE RemoveManifest
  <2>1. \A m \in Mods, g \in Games :
          OwnedFor(manifest'[m], g) \subseteq OwnedFor(manifest[m], g)
    BY <1>12, RemoveManifestOp, ManifestGone DEF RemoveManifest, Deleting
  <2> QED BY <1>12, <2>1, MarkedFacts, FilesUndisturbed DEF RemoveManifest
<1>13. CASE RewriteEnds
  <2>1. \A g \in Games : Marked(op', g) = Marked(op, g)
    BY <1>13, RewriteEndsOp, MarkedFacts, IdleAssumption
  <2> QED BY <1>13, <2>1, FilesUndisturbed DEF RewriteEnds
<1> QED
  BY <1>1, <1>2, <1>3, <1>4, <1>5, <1>6, <1>7, <1>8, <1>9, <1>10, <1>11, <1>12,
     <1>13 DEF Install, Extract, Uninstall

LEMMA OtherFiles ==
  ASSUME TypeOK, FilesInv, UserActs \/ BreaksOff \/ UNCHANGED vars
  PROVE  FilesInv'
<1>1. ASSUME NEW g \in Games, NEW f \in Files, UserAdds(g, f) PROVE FilesInv'
  <2>1. /\ op = Idle /\ UNCHANGED <<op, manifest>>
        /\ \A h \in Games, e \in Files :
             data'[h][e] = IF h = g /\ e = f THEN User ELSE data[h][e]
    BY <1>1, OneFile DEF UserAdds
  <2>2. \A h \in Games :
          \/ theirs'[h] = theirs[h]
          \/ h = g /\ ~Listed(g, f) /\ theirs'[h] = theirs[h] \cup {f}
    <3>1. \/ theirs' = theirs
          \/ ~Listed(g, f) /\ theirs' = [theirs EXCEPT ![g] = theirs[g] \cup {f}]
      BY <1>1 DEF UserAdds
    <3>2. theirs \in [Games -> SUBSET Files]
      BY DEF TypeOK
    <3> QED BY <3>1, <3>2
  <2>3. \A h \in Games : Marked(op', h) = {}
    BY <2>1 DEF Marked
  <2>4. \A h \in Games, e \in Files : Listed(h, e)' = Listed(h, e)
    BY <2>1 DEF Listed
  <2>5. \A h \in Games : theirs'[h] \subseteq Files /\ theirs[h] \subseteq Files
    BY <2>2 DEF TypeOK
  <2>6. \A h \in Games : \A e \in theirs'[h] :
          e \in theirs[h] \/ (h = g /\ e = f /\ ~Listed(g, f))
    BY <2>2
  <2>7. \A h \in Games : \A e \in theirs'[h] : data'[h][e] # Absent
    BY <2>1, <2>5, <2>6, WritersAssumption DEF FilesInv, UserFilesKept
  <2>8. \A h \in Games : \A e \in theirs'[h] : ~Listed(h, e)'
    BY <2>4, <2>5, <2>6 DEF FilesInv
  <2> QED BY <2>3, <2>7, <2>8 DEF FilesInv, UserFilesKept
<1>2. ASSUME NEW g \in Games, NEW f \in Files, UserDeletes(g, f) PROVE FilesInv'
  <2>1. /\ op = Idle /\ UNCHANGED <<op, manifest>>
        /\ \A h \in Games, e \in Files :
             data'[h][e] = IF h = g /\ e = f THEN Absent ELSE data[h][e]
    BY <1>2, OneFile DEF UserDeletes
  <2>2. \A h \in Games : theirs'[h] = IF h = g THEN theirs[h] \ {f} ELSE theirs[h]
    BY <1>2 DEF UserDeletes, TypeOK
  <2>3. \A h \in Games : Marked(op', h) = {}
    BY <2>1 DEF Marked
  <2>4. \A h \in Games, e \in Files : Listed(h, e)' = Listed(h, e)
    BY <2>1 DEF Listed
  <2>5. \A h \in Games : \A e \in theirs'[h] :
          e \in theirs[h] /\ e \in Files /\ ~(h = g /\ e = f)
    BY <2>2 DEF TypeOK
  <2>6. \A h \in Games : \A e \in theirs'[h] : data'[h][e] # Absent
    BY <2>1, <2>5 DEF FilesInv, UserFilesKept
  <2>7. \A h \in Games : \A e \in theirs'[h] : ~Listed(h, e)'
    BY <2>4, <2>5 DEF FilesInv
  <2> QED BY <2>3, <2>6, <2>7 DEF FilesInv, UserFilesKept
<1>3. ASSUME NEW g \in Games, NEW p \in Plugins,
             UserRegisters(g, p) \/ UserUnregisters(g, p)
      PROVE  FilesInv'
  BY <1>3, FilesUndisturbed DEF UserRegisters, UserUnregisters
<1>4. CASE BreaksOff
  <2>1. \A g \in Games : Marked(op', g) = {}
    BY <1>4 DEF BreaksOff, Marked
  <2> QED BY <1>4, <2>1, FilesUndisturbed DEF BreaksOff, history
<1>5. CASE UNCHANGED vars
  BY <1>5, FilesUndisturbed DEF vars
<1> QED BY <1>1, <1>2, <1>3, <1>4, <1>5 DEF UserActs

LEMMA InitFiles == Init => FilesInv
<1> SUFFICES ASSUME Init PROVE FilesInv
  OBVIOUS
<1>1. \A g \in Games : Marked(op, g) = {}
  BY DEF Init, Marked
<1>2. \A g \in Games, f \in Files : ~Listed(g, f)
  BY DEF Init, Listed, OwnedFor, IsManifest
<1> QED
  BY <1>1, <1>2, WritersAssumption DEF Init, FilesInv, UserFilesKept

LEMMA AlwaysFilesInv == ASSUME OneGamePerName PROVE Spec => []FilesInv
<1>1. TypeOK /\ FilesInv /\ [Next]_vars => FilesInv'
  BY CallFiles, OtherFiles DEF Next
<1> QED BY <1>1, InitFiles, AlwaysTypeOK, PTL DEF Spec

(***************************************************************************)
(* As long as no name goes from one game to another, no path where the     *)
(* user has a file is ever emptied: not by an install over it, by any      *)
(* uninstall after that, nor by a call that breaks off.                    *)
(***************************************************************************)
THEOREM UserFilesNeverDeleted ==
  ASSUME OneGamePerName PROVE Spec => []UserFilesKept
<1>1. FilesInv => UserFilesKept
  BY DEF FilesInv
<1> QED BY <1>1, AlwaysFilesInv, PTL

-----------------------------------------------------------------------------
(* The backup of the configuration.                                        *)

\* Where a call stands, by the kind of its record.
LEMMA StageFacts ==
  ASSUME NEW o \in Ops \cup {Idle}
  PROVE  /\ o = Idle \/ o \in Copying => ~Rewriting(o)
         /\ o \in Copying => (Changing(o) <=> o.kind = "install" /\ o.at = "copy")
         /\ o \in Deleting => /\ Rewriting(o) <=> o.at = "rewrite"
                              /\ Changing(o) <=> o.at = "delete" /\ o.hasCfg
         /\ o = Idle => ~Changing(o)
BY IdleAssumption DEF Rewriting, Changing, Ops, Copying, Deleting

\* A configuration that is there is the same as its copy.
LEMMA BackUpCopies ==
  ASSUME TypeOK, NEW g \in Games, BackUp(g), cfg' = cfg, cfg'[g] # NoCfg
  PROVE  cfgBak'[g] = cfg'[g]
BY DEF BackUp, TypeOK

LEMMA CallBackup ==
  ASSUME TypeOK, BackupInv, Install \/ Extract \/ Uninstall
  PROVE  BackupInv'
<1> USE StageFacts DEF BackupInv, history, Ops
<1>1. ASSUME NEW m \in Mods, NEW g \in Games, NEW plan \in SUBSET Files,
             NEW same \in SUBSET Files, InstallBegins(m, g, plan, same)
      PROVE  BackupInv'
  <2>1. BackUp(g) /\ cfg' = cfg
    BY <1>1 DEF InstallBegins
  <2>2. op' \in Copying /\ op'.game = g
    BY <1>1, InstallBeginsOp
  <2>3. ~Rewriting(op')
    BY <2>2
  <2>4. cfg'[g] # NoCfg => cfgBak'[g] = cfg'[g]
    BY <2>1, BackUpCopies
  <2> QED BY <2>2, <2>3, <2>4
<1>2. ASSUME NEW f \in Files, CopyFile(f) PROVE BackupInv'
  <2>1. op'.kind = op.kind /\ op.at = "copy"
    BY <1>2, CopyFileOp DEF CopyFile, Copying
  <2> QED BY <1>2, <2>1, CopyFileOp DEF CopyFile
<1>3. CASE Register
  BY <1>3, RegisterOp
<1>4. CASE RegisterRaises
  BY <1>4 DEF RegisterRaises
<1>5. CASE RecordBegins
  <2>1. op'.at = "recording"
    BY <1>5, RecordBeginsOp DEF RecordBegins, Copying
  <2> QED BY <1>5, <2>1, RecordBeginsOp DEF RecordBegins
<1>6. CASE RecordEnds
  BY <1>6 DEF RecordEnds
<1>7. ASSUME NEW m \in Mods, NEW plan \in SUBSET Files,
             NEW kind \in {"extract", "meshes"}, ExtractBegins(m, plan, kind)
      PROVE  BackupInv'
  <2>1. op'.kind # "install"
    BY <1>7 DEF ExtractBegins
  <2>2. op' \in Copying
    BY <1>7, ExtractBeginsOp
  <2>3. ~Rewriting(op') /\ ~Changing(op')
    BY <2>1, <2>2
  <2> QED BY <2>3
<1>8. ASSUME NEW f \in Files, PullTexture(f) PROVE BackupInv'
  <2>1. op'.kind # "install"
    BY <1>8, PullTextureOp DEF PullTexture, Copying
  <2> QED BY <1>8, <2>1, PullTextureOp DEF PullTexture
<1>9. ASSUME NEW m \in Mods, UninstallBegins(m) PROVE BackupInv'
  <2>1. /\ manifest[m].hasCfg => BackUp(manifest[m].game)
        /\ cfg' = cfg /\ IsManifest(manifest[m])
    BY <1>9 DEF UninstallBegins
  <2>2. manifest[m].game \in Games
    BY <2>1, ManifestFacts DEF TypeOK
  <2> QED BY <1>9, <2>1, <2>2, BackUpCopies, UninstallBeginsOp
<1>10. ASSUME NEW f \in Files, DeleteFile(f) PROVE BackupInv'
  BY <1>10, DeleteFileOp DEF DeleteFile
<1>11. CASE Unregister
  <2>1. op.game \in Games
    BY <1>11, UnregisterOp DEF Deleting
  <2>2. cfgBak' = cfgBak
    BY <1>11 DEF Unregister
  <2>3. CASE op'.at = "remove"
    BY <1>11, <2>3, UnregisterOp
  <2>4. CASE op'.at # "remove"
    <3>1. /\ op'.at = "rewrite" /\ op.hasCfg /\ cfg[op.game] # NoCfg
          /\ op'.kept = cfg[op.game] \ op.cfgAdded[op.game]
      BY <1>11, <2>4, UnregisterOp
    <3>2. cfgBak[op.game] = cfg[op.game]
      BY <1>11, <3>1, UnregisterOp
    <3> QED BY <1>11, <2>2, <3>1, <3>2, UnregisterOp
  <2> QED BY <2>3, <2>4
<1>12. CASE RemoveManifest
  BY <1>12 DEF RemoveManifest
<1>13. CASE RewriteEnds
  BY <1>13, RewriteEndsOp DEF RewriteEnds
<1> QED
  BY <1>1, <1>2, <1>3, <1>4, <1>5, <1>6, <1>7, <1>8, <1>9, <1>10, <1>11, <1>12,
     <1>13 DEF Install, Extract, Uninstall

LEMMA OtherBackup ==
  ASSUME TypeOK, BackupInv, UserActs \/ BreaksOff \/ UNCHANGED vars
  PROVE  BackupInv'
<1> USE StageFacts DEF BackupInv
<1>1. CASE op' = Idle
  BY <1>1
<1>2. CASE UNCHANGED vars
  BY <1>2 DEF vars
<1> QED
  BY <1>1, <1>2 DEF UserActs, BreaksOff, UserAdds, UserDeletes, UserRegisters,
     UserUnregisters

LEMMA AlwaysBackupInv == Spec => []BackupInv
<1>1. Init => BackupInv
  BY DEF Init, BackupInv, Changing, Rewriting
<1>2. TypeOK /\ BackupInv /\ [Next]_vars => BackupInv'
  BY CallBackup, OtherBackup DEF Next
<1> QED BY <1>1, <1>2, AlwaysTypeOK, PTL DEF Spec

\* Where a configuration that is there may change.
SavedChange == op # Idle => \A g \in Games : cfg[g] # NoCfg /\ cfg'[g] # cfg[g] =>
  \/ cfg[g] = cfgBak[g]
  \/ Rewriting(op) /\ cfg'[g] = cfgBak[g] \ op.cfgAdded[g]

\* Only three steps of a call change a configuration.
LEMMA ConfigStep ==
  ASSUME TypeOK, BackupInv, [Next]_vars
  PROVE  SavedChange
<1> SUFFICES ASSUME op # Idle, NEW g \in Games, cfg[g] # NoCfg, cfg'[g] # cfg[g]
             PROVE  \/ cfg[g] = cfgBak[g]
                    \/ Rewriting(op) /\ cfg'[g] = cfgBak[g] \ op.cfgAdded[g]
  BY DEF SavedChange
<1> USE StageFacts DEF BackupInv, TypeOK
<1>1. CASE Register
  <2>1. g = op.game /\ op \in Copying /\ op.kind = "install" /\ op.at = "copy"
    BY <1>1, RegisterOp, RegisterCfg DEF Register
  <2> QED BY <2>1
<1>2. CASE Unregister
  BY <1>2, UnregisterOp
<1>3. CASE RewriteEnds
  BY <1>3, RewriteEndsOp
<1>4. Register \/ Unregister \/ RewriteEnds
  BY DEF Next, Install, Extract, Uninstall, UserActs, InstallBegins, CopyFile,
     RegisterRaises, RecordBegins, RecordEnds, ExtractBegins, PullTexture,
     UninstallBegins, DeleteFile, RemoveManifest, BreaksOff, UserAdds,
     UserDeletes, UserRegisters, UserUnregisters, vars
<1> QED BY <1>1, <1>2, <1>3, <1>4

(***************************************************************************)
(* Whatever a call takes from a configuration or adds to it, the bytes it  *)
(* started from are in the backup that the same call made.                 *)
(***************************************************************************)
THEOREM ConfigAlwaysBackedUp == Spec => ConfigBackedUp
<1>1. TypeOK /\ BackupInv /\ [Next]_vars => [SavedChange]_vars
  BY ConfigStep
<1> QED
  BY <1>1, AlwaysTypeOK, AlwaysBackupInv, PTL DEF Spec, ConfigBackedUp, SavedChange

-----------------------------------------------------------------------------
(* The lines that the user registered.                                     *)

\* A step that takes away none of the user's lines and marks none of them.
LEMMA LinesUndisturbed ==
  ASSUME LinesInv,
         theirLines' = theirLines,
         ~Rewriting(op), ~Rewriting(op'),
         \A g \in Games :
           \/ cfg'[g] = cfg[g]
           \/ cfg'[g] # NoCfg /\ cfg[g] \cap theirLines[g] \subseteq cfg'[g],
         \A g \in Games :
           MarkedLines(op', g) \cap theirLines[g] \subseteq MarkedLines(op, g),
         \A m \in Mods, g \in Games :
           AddedFor(manifest'[m], g)
             \subseteq AddedFor(manifest[m], g) \cup MarkedLines(op, g)
  PROVE  LinesInv'
<1>1. UserLinesKept'
  BY DEF LinesInv, UserLinesKept
<1>2. ASSUME NEW g \in Games, NEW p \in theirLines[g]
      PROVE  cfg'[g] # NoCfg /\ ~ListedLine(g, p)' /\ p \notin MarkedLines(op', g)
  BY <1>2 DEF LinesInv, ListedLine
<1> QED BY <1>1, <1>2 DEF LinesInv

LEMMA ClaimedLineNotTheirs ==
  ASSUME LinesInv, NEW m \in Mods, NEW g \in Games
  PROVE  AddedFor(manifest[m], g) \cap theirLines[g] = {}
BY DEF LinesInv, ListedLine

\* A call that marks the lines of a manifest marks none of the user's.
LEMMA MarksOfManifest ==
  ASSUME LinesInv, NEW m \in Mods, NEW o \in Ops,
         o.game \in Games, o.cfgAdded = AddedIn(manifest[m]),
         IsManifest(manifest[m]) => manifest[m].game = o.game,
         NEW g \in Games
  PROVE  MarkedLines(o, g) \cap theirLines[g] = {}
<1>1. CASE g # o.game
  BY <1>1, IdleAssumption, MarkedFacts
<1>2. CASE g = o.game /\ IsManifest(manifest[m])
  <2>1. MarkedLines(o, g) = AddedFor(manifest[m], g)
    BY <1>2, IdleAssumption, ForFacts DEF MarkedLines, AddedIn
  <2> QED BY <2>1, ClaimedLineNotTheirs
<1>3. CASE g = o.game /\ ~IsManifest(manifest[m])
  <2>1. MarkedLines(o, g) = {}
    BY <1>3, IdleAssumption, LinesFacts DEF MarkedLines, AddedIn
  <2> QED BY <2>1
<1> QED BY <1>1, <1>2, <1>3

\* A step that leaves the call's game and lines as they are.
LEMMA SameMarkedLines ==
  ASSUME op \in Ops, op' \in Ops, op'.game = op.game, op'.cfgAdded = op.cfgAdded
  PROVE  \A g \in Games : MarkedLines(op', g) = MarkedLines(op, g)
BY IdleAssumption DEF MarkedLines

LEMMA CallLines ==
  ASSUME OneGamePerName, TypeOK, LinesInv, BackupInv,
         Install \/ Extract \/ Uninstall
  PROVE  LinesInv'
<1> USE DEF history, Ops
<1>1. ASSUME NEW m \in Mods, NEW g \in Games, NEW plan \in SUBSET Files,
             NEW same \in SUBSET Files, InstallBegins(m, g, plan, same)
      PROVE  LinesInv'
  <2>1. IsManifest(manifest[m]) => manifest[m].game = g
    BY <1>1 DEF InstallBegins, Crosses, OneGamePerName
  <2>2. \A h \in Games : MarkedLines(op', h) \cap theirLines[h] = {}
    <3>1. /\ op' \in Ops /\ op'.game = g
          /\ op'.cfgAdded = AddedIn(manifest[m])
      BY <1>1, InstallBeginsOp
    <3> QED BY <2>1, <3>1, MarksOfManifest
  <2>3. ~Rewriting(op) /\ ~Rewriting(op')
    BY <1>1, InstallBeginsOp, StageFacts DEF InstallBegins
  <2> QED BY <1>1, <2>2, <2>3, LinesUndisturbed DEF InstallBegins
<1>2. ASSUME NEW f \in Files, CopyFile(f) PROVE LinesInv'
  <2>1. \A g \in Games : MarkedLines(op', g) = MarkedLines(op, g)
    BY <1>2, CopyFileOp, SameMarkedLines
  <2>2. ~Rewriting(op) /\ ~Rewriting(op')
    BY <1>2, CopyFileOp, StageFacts
  <2> QED BY <1>2, <2>1, <2>2, LinesUndisturbed DEF CopyFile
<1>3. CASE Register
  <2>1. op \in Copying /\ op' \in Copying /\ op.game \in Games /\ op'.game = op.game
    BY <1>3, RegisterOp DEF Copying
  <2>2. ~Rewriting(op) /\ ~Rewriting(op')
    BY <2>1, StageFacts
  <2>3. \A g \in Games : theirLines[g] \subseteq Registered(g)
    BY <2>2 DEF LinesInv, UserLinesKept, Registered
  <2>4. \A g \in Games :
          MarkedLines(op', g) \cap theirLines[g] \subseteq MarkedLines(op, g)
    <3> SUFFICES ASSUME NEW g \in Games
                 PROVE  MarkedLines(op', g) \cap theirLines[g]
                          \subseteq MarkedLines(op, g)
      OBVIOUS
    <3>1. CASE g = op.game
      <4>1. /\ MarkedLines(op', g) = op'.cfgAdded[g]
            /\ MarkedLines(op, g) = op.cfgAdded[g]
        BY <2>1, <3>1, MarkedFacts
      <4>2. op'.cfgAdded[g] = op.cfgAdded[g] \cup Newly
        BY <1>3, <3>1, RegisterOp
      <4>3. Newly \cap theirLines[g] = {}
        BY <2>3, <3>1 DEF Newly
      <4> QED BY <4>1, <4>2, <4>3
    <3>2. CASE g # op.game
      <4>1. op' \in Ops /\ op' # Idle /\ op'.game # g
        BY <2>1, <3>2, IdleAssumption
      <4> QED BY <4>1, MarkedFacts
    <3> QED BY <3>1, <3>2
  <2>5. \A g \in Games :
          \/ cfg'[g] = cfg[g]
          \/ cfg'[g] # NoCfg /\ cfg[g] \cap theirLines[g] \subseteq cfg'[g]
    <3> SUFFICES ASSUME NEW g \in Games, cfg'[g] # cfg[g]
                 PROVE  cfg'[g] # NoCfg /\ cfg[g] \cap theirLines[g] \subseteq cfg'[g]
      OBVIOUS
    <3>1. cfg'[g] # NoCfg /\ cfg'[g] = Registered(g) \cup Newly
      BY <1>3, RegisterCfg
    <3> QED BY <2>3, <3>1
  <2> QED BY <1>3, <2>2, <2>4, <2>5, LinesUndisturbed DEF Register
<1>4. CASE RegisterRaises
  <2>1. \A g \in Games : MarkedLines(op', g) = {}
    BY <1>4 DEF RegisterRaises, MarkedLines
  <2> QED BY <1>4, <2>1, LinesUndisturbed DEF RegisterRaises, Rewriting
<1>5. CASE RecordBegins
  <2>1. \A g \in Games : MarkedLines(op', g) = MarkedLines(op, g)
    BY <1>5, RecordBeginsOp, SameMarkedLines
  <2>2. \A m \in Mods, g \in Games :
          AddedFor(manifest'[m], g) \subseteq AddedFor(manifest[m], g)
    BY <1>5, RecordBeginsOp, ManifestGone DEF RecordBegins, Copying
  <2>3. ~Rewriting(op) /\ ~Rewriting(op')
    BY <1>5, RecordBeginsOp, StageFacts
  <2> QED BY <1>5, <2>1, <2>2, <2>3, LinesUndisturbed DEF RecordBegins
<1>6. CASE RecordEnds
  <2>1. \A g \in Games : MarkedLines(op', g) = {}
    BY <1>6 DEF RecordEnds, MarkedLines
  <2>2. ~Rewriting(op) /\ ~Rewriting(op')
    BY <1>6, RecordEndsOp, StageFacts DEF RecordEnds
  <2> QED BY <1>6, <2>1, <2>2, ManifestLeft, LinesUndisturbed DEF RecordEnds
<1>7. ASSUME NEW m \in Mods, NEW plan \in SUBSET Files,
             NEW kind \in {"extract", "meshes"}, ExtractBegins(m, plan, kind)
      PROVE  LinesInv'
  <2>1. \A g \in Games : MarkedLines(op', g) = {}
    BY <1>7, ExtractBeginsOp, LinesFacts DEF MarkedLines
  <2>2. ~Rewriting(op) /\ ~Rewriting(op')
    BY <1>7, ExtractBeginsOp, StageFacts DEF ExtractBegins
  <2> QED BY <1>7, <2>1, <2>2, LinesUndisturbed DEF ExtractBegins
<1>8. ASSUME NEW f \in Files, PullTexture(f) PROVE LinesInv'
  <2>1. \A g \in Games : MarkedLines(op', g) = MarkedLines(op, g)
    BY <1>8, PullTextureOp, SameMarkedLines
  <2>2. ~Rewriting(op) /\ ~Rewriting(op')
    BY <1>8, PullTextureOp, StageFacts
  <2> QED BY <1>8, <2>1, <2>2, LinesUndisturbed DEF PullTexture
<1>9. ASSUME NEW m \in Mods, UninstallBegins(m) PROVE LinesInv'
  <2>1. manifest[m].game \in Games
    BY <1>9, ManifestFacts DEF UninstallBegins, TypeOK
  <2>2. \A g \in Games : MarkedLines(op', g) \cap theirLines[g] = {}
    BY <1>9, <2>1, UninstallBeginsOp, MarksOfManifest
  <2>3. ~Rewriting(op) /\ ~Rewriting(op')
    BY <1>9, UninstallBeginsOp, StageFacts DEF UninstallBegins
  <2> QED BY <1>9, <2>2, <2>3, LinesUndisturbed DEF UninstallBegins
<1>10. ASSUME NEW f \in Files, DeleteFile(f) PROVE LinesInv'
  <2>1. \A g \in Games : MarkedLines(op', g) = MarkedLines(op, g)
    BY <1>10, DeleteFileOp, SameMarkedLines
  <2>2. ~Rewriting(op) /\ ~Rewriting(op')
    BY <1>10, DeleteFileOp, StageFacts
  <2> QED BY <1>10, <2>1, <2>2, LinesUndisturbed DEF DeleteFile
<1>11. CASE Unregister
  <2>1. op \in Deleting /\ op' \in Deleting /\ op'.game = op.game /\ op.game \in Games
    BY <1>11, UnregisterOp DEF Deleting
  <2>2. \A g \in Games : MarkedLines(op', g) = MarkedLines(op, g)
    BY <1>11, UnregisterOp, SameMarkedLines
  <2>3. theirLines[op.game] \cap op.cfgAdded[op.game] = {}
    <3>1. MarkedLines(op, op.game) = op.cfgAdded[op.game]
      BY <2>1, MarkedFacts
    <3> QED BY <2>1, <3>1 DEF LinesInv
  <2>4. ~Rewriting(op)
    BY <1>11, UnregisterOp, StageFacts
  <2>5. CASE op'.at = "remove"
    <3>1. ~Rewriting(op') /\ cfg' = cfg
      BY <1>11, <2>5, UnregisterOp, StageFacts
    <3> QED BY <1>11, <2>2, <2>4, <3>1, LinesUndisturbed DEF Unregister
  <2>6. CASE op'.at # "remove"
    <3>1. /\ op'.at = "rewrite" /\ op.hasCfg /\ cfg[op.game] # NoCfg
          /\ op'.kept = cfg[op.game] \ op.cfgAdded[op.game]
          /\ cfg' = [cfg EXCEPT ![op.game] = {}]
      BY <1>11, <2>6, UnregisterOp
    <3>2. Rewriting(op')
      BY <2>1, <3>1, StageFacts
    <3>3. cfgBak[op.game] = cfg[op.game]
      BY <1>11, <3>1, UnregisterOp, StageFacts DEF BackupInv
    <3>4. theirLines[op.game] \subseteq cfg[op.game]
      BY <2>1, <2>4, <3>1 DEF LinesInv, UserLinesKept
    <3>5. UNCHANGED <<theirLines, manifest, cfgBak>>
      BY <1>11 DEF Unregister
    <3>6. \A g \in Games : g # op.game => cfg'[g] = cfg[g]
      BY <3>1 DEF TypeOK
    <3>7. UserLinesKept'
      <4> SUFFICES ASSUME NEW g \in Games, cfg'[g] # NoCfg
                   PROVE  IF Rewriting(op') /\ op'.game = g
                          THEN /\ theirLines'[g] \subseteq op'.kept
                               /\ theirLines'[g] \subseteq cfgBak'[g]
                          ELSE theirLines'[g] \subseteq cfg'[g]
        BY DEF UserLinesKept
      <4>1. CASE g = op.game
        BY <2>1, <2>3, <3>1, <3>2, <3>3, <3>4, <3>5, <4>1
      <4>2. CASE g # op.game
        BY <2>1, <2>4, <3>5, <3>6, <4>2 DEF LinesInv, UserLinesKept
      <4> QED BY <4>1, <4>2
    <3>8. \A g \in Games : cfg[g] # NoCfg => cfg'[g] # NoCfg
      <4>1. cfg'[op.game] = {} /\ {} # NoCfg
        BY <2>1, <3>1, CfgAssumption DEF TypeOK
      <4> QED BY <3>6, <4>1
    <3> QED BY <2>2, <3>5, <3>7, <3>8 DEF LinesInv, ListedLine
  <2> QED BY <2>5, <2>6
<1>12. CASE RemoveManifest
  <2>1. \A m \in Mods, g \in Games :
          AddedFor(manifest'[m], g) \subseteq AddedFor(manifest[m], g)
    BY <1>12, RemoveManifestOp, ManifestGone DEF RemoveManifest, Deleting
  <2>2. ~Rewriting(op) /\ ~Rewriting(op')
    BY <1>12 DEF RemoveManifest, Rewriting
  <2>3. \A g \in Games : MarkedLines(op', g) = {}
    BY <1>12 DEF RemoveManifest, MarkedLines
  <2> QED BY <1>12, <2>1, <2>2, <2>3, LinesUndisturbed DEF RemoveManifest
<1>13. CASE RewriteEnds
  <2>1. /\ op \in Deleting /\ op' \in Deleting /\ op'.game = op.game
        /\ op.game \in Games /\ Rewriting(op) /\ ~Rewriting(op')
    BY <1>13, RewriteEndsOp, StageFacts
  <2>2. \A g \in Games : MarkedLines(op', g) = MarkedLines(op, g)
    BY <1>13, RewriteEndsOp, SameMarkedLines
  <2>3. \A g \in Games : cfg'[g] = IF g = op.game THEN op.kept ELSE cfg[g]
    BY <1>13, RewriteEndsOp DEF TypeOK
  <2>4. op.kept # NoCfg
    BY <1>13, RewriteEndsOp, CfgAssumption
  <2>5. UNCHANGED <<theirLines, manifest>>
    BY <1>13 DEF RewriteEnds
  <2>6. theirLines[op.game] \subseteq op.kept
    <3>1. CASE cfg[op.game] = NoCfg
      BY <2>1, <3>1 DEF LinesInv
    <3>2. CASE cfg[op.game] # NoCfg
      BY <2>1, <3>2 DEF LinesInv, UserLinesKept
    <3> QED BY <3>1, <3>2
  <2>7. UserLinesKept'
    BY <2>1, <2>3, <2>5, <2>6 DEF LinesInv, UserLinesKept
  <2>8. \A g \in Games : cfg[g] # NoCfg => cfg'[g] # NoCfg
    BY <2>3, <2>4
  <2> QED BY <2>2, <2>5, <2>7, <2>8 DEF LinesInv, ListedLine
<1> QED
  BY <1>1, <1>2, <1>3, <1>4, <1>5, <1>6, <1>7, <1>8, <1>9, <1>10, <1>11, <1>12,
     <1>13 DEF Install, Extract, Uninstall

LEMMA OtherLines ==
  ASSUME TypeOK, LinesInv, UserActs \/ BreaksOff \/ UNCHANGED vars
  PROVE  LinesInv'
<1>1. ASSUME NEW g \in Games, NEW f \in Files, UserAdds(g, f) \/ UserDeletes(g, f)
      PROVE  LinesInv'
  <2>1. \A h \in Games : MarkedLines(op', h) = MarkedLines(op, h)
    BY <1>1 DEF UserAdds, UserDeletes
  <2> QED
    BY <1>1, <2>1, LinesUndisturbed DEF UserAdds, UserDeletes, Rewriting
<1>2. ASSUME NEW g \in Games, NEW p \in Plugins,
             UserRegisters(g, p) \/ UserUnregisters(g, p)
      PROVE  LinesInv'
  <2>1. /\ op = Idle /\ op' = Idle /\ manifest' = manifest
        /\ cfg[g] # NoCfg /\ cfg[g] \in SUBSET Plugins
    BY <1>2 DEF UserRegisters, UserUnregisters, TypeOK, Configs
  <2>2. /\ ~Rewriting(op) /\ ~Rewriting(op')
        /\ \A h \in Games : MarkedLines(op', h) = {}
        /\ \A h \in Games : \A q : ListedLine(h, q)' = ListedLine(h, q)
    BY <2>1 DEF Rewriting, MarkedLines, ListedLine
  <2>3. \A h \in Games : h # g => /\ cfg'[h] = cfg[h]
                                  /\ theirLines'[h] = theirLines[h]
    BY <1>2 DEF UserRegisters, UserUnregisters, TypeOK
  <2>4. \A q \in theirLines'[g] : ~ListedLine(g, q) /\ q \in cfg'[g]
    <3>1. theirLines[g] \subseteq cfg[g] /\ \A q \in theirLines[g] : ~ListedLine(g, q)
      BY <2>1, <2>2 DEF LinesInv, UserLinesKept
    <3>2. CASE UserRegisters(g, p)
      <4>1. cfg'[g] = cfg[g] \cup {p}
        BY <3>2 DEF UserRegisters, TypeOK
      <4>2. \/ theirLines'[g] = theirLines[g]
            \/ ~ListedLine(g, p) /\ theirLines'[g] = theirLines[g] \cup {p}
        BY <3>2 DEF UserRegisters, TypeOK
      <4> QED BY <3>1, <4>1, <4>2
    <3>3. CASE UserUnregisters(g, p)
      <4>1. cfg'[g] = cfg[g] \ {p} /\ theirLines'[g] = theirLines[g] \ {p}
        BY <3>3 DEF UserUnregisters, TypeOK
      <4> QED BY <3>1, <4>1
    <3> QED BY <1>2, <3>2, <3>3
  <2>5. cfg'[g] # NoCfg
    <3>1. cfg'[g] = cfg[g] \cup {p} \/ cfg'[g] = cfg[g] \ {p}
      BY <1>2 DEF UserRegisters, UserUnregisters, TypeOK
    <3> QED BY <2>1, <3>1, CfgAssumption
  <2>6. UserLinesKept'
    BY <2>2, <2>3, <2>4 DEF LinesInv, UserLinesKept
  <2>7. \A h \in Games : \A q \in theirLines'[h] :
          cfg'[h] # NoCfg /\ ~ListedLine(h, q)
    BY <2>3, <2>4, <2>5 DEF LinesInv
  <2> QED BY <2>2, <2>6, <2>7 DEF LinesInv
<1>3. CASE BreaksOff
  <2>1. ~Rewriting(op') /\ (\A g \in Games : MarkedLines(op', g) = {})
    BY <1>3 DEF BreaksOff, Rewriting, MarkedLines
  <2>2. \A g \in Games : theirLines'[g] \subseteq theirLines[g]
    BY <1>3 DEF BreaksOff, TypeOK
  <2>3. \A g \in Games : Rewriting(op) /\ op.game = g => theirLines'[g] = {}
    BY <1>3 DEF BreaksOff, Rewriting, TypeOK
  <2>4. UNCHANGED <<cfg, manifest>>
    BY <1>3 DEF BreaksOff
  <2>5. UserLinesKept'
    BY <2>1, <2>2, <2>3, <2>4 DEF LinesInv, UserLinesKept
  <2> QED BY <2>1, <2>2, <2>4, <2>5 DEF LinesInv, ListedLine
<1>4. CASE UNCHANGED vars
  BY <1>4 DEF vars, LinesInv, UserLinesKept, ListedLine
<1> QED BY <1>1, <1>2, <1>3, <1>4 DEF UserActs

LEMMA InitLines == Init => LinesInv
<1> SUFFICES ASSUME Init PROVE LinesInv
  OBVIOUS
<1>1. ~Rewriting(op) /\ \A g \in Games : MarkedLines(op, g) = {}
  BY DEF Init, Rewriting, MarkedLines
<1>2. \A g \in Games : \A p \in theirLines[g] : cfg[g] # NoCfg /\ ~ListedLine(g, p)
  BY DEF Init, ListedLine, AddedFor, IsManifest, Registered
<1>3. UserLinesKept
  BY <1>1 DEF Init, UserLinesKept, Registered
<1> QED BY <1>1, <1>2, <1>3 DEF LinesInv

LEMMA AlwaysLinesInv == ASSUME OneGamePerName PROVE Spec => []LinesInv
<1>1. TypeOK /\ BackupInv /\ LinesInv /\ [Next]_vars => LinesInv'
  BY CallLines, OtherLines DEF Next
<1> QED BY <1>1, InitLines, AlwaysTypeOK, AlwaysBackupInv, PTL DEF Spec

(***************************************************************************)
(* As long as no name goes from one game to another, no call, finished or  *)
(* broken off, takes away a line of a configuration that the user          *)
(* registered, also when a mod brought the same plugin.                    *)
(***************************************************************************)
THEOREM UserLinesNeverRemoved ==
  ASSUME OneGamePerName PROVE Spec => []UserLinesKept
<1>1. LinesInv => UserLinesKept
  BY DEF LinesInv
<1> QED BY <1>1, AlwaysLinesInv, PTL

(***************************************************************************)
(* The inductive invariant holds as long as no name goes from one game to  *)
(* another: no manifest, and no call in progress, marks for deletion what  *)
(* is the user's.                                                          *)
(***************************************************************************)
THEOREM OwnershipNeverWrong ==
  ASSUME OneGamePerName PROVE Spec => []OwnershipInv
BY AlwaysTypeOK, AlwaysFilesInv, AlwaysLinesInv, AlwaysBackupInv, PTL DEF OwnershipInv

-----------------------------------------------------------------------------
(* The files and lines that chim added, while nothing broke off.           *)

\* What the manifest of a running install or extraction will claim.
Credit(o, g) == IF o \in Copying /\ o.game = g THEN Unmarked(o.copied) ELSE {}
CreditLines(o, g) == IF o \in Copying /\ o.game = g THEN o.cfgAdded[g] ELSE {}

FilesAccounted ==
  \A g \in Games, f \in Files :
    data[g][f] # Absent => f \in theirs[g] \/ Listed(g, f) \/ f \in Credit(op, g)

\* The lines of a configuration, also while it is being rewritten.
Live(g) == IF Rewriting(op) /\ op.game = g THEN op.kept ELSE Registered(g)

LinesAccounted ==
  \A g \in Games : \A p \in Live(g) :
    p \in theirLines[g] \/ ListedLine(g, p) \/ p \in CreditLines(op, g)

\* An install takes over what the manifest it replaces claims, ...
TakesOver(o) ==
  o \in Copying =>
    /\ DOMAIN o.copied \cap o.todo = {}
    /\ o.owned \subseteq o.todo \cup Unmarked(o.copied)
    /\ o.at # "copy" => o.todo = {}
    /\ \A g \in Games : OwnedFor(manifest[o.mod], g)
                          \subseteq (IF o.game = g THEN o.owned ELSE {})
    /\ \A g \in Games : AddedFor(manifest[o.mod], g)
                          \subseteq (IF o.game = g THEN o.cfgAdded[g] ELSE {})
    /\ o.kind # "install" => o.owned = {} /\ o.cfgAdded = NoLines

\* ... and an uninstall takes away what its manifest claims.
TakesAway(o) ==
  o \in Deleting =>
    /\ IsManifest(manifest[o.mod]) /\ manifest[o.mod].game = o.game
    /\ \A f \in OwnedIn(manifest[o.mod]) :
         f \in o.todo \/ data[o.game][f] = Absent
    /\ o.cfgAdded = AddedIn(manifest[o.mod])
    /\ o.at # "delete" => o.todo = {}
    /\ ~o.hasCfg => o.cfgAdded[o.game] = {}
    /\ o.at # "delete" => Live(o.game) \cap o.cfgAdded[o.game] = {}
    /\ o.at = "rewrite" => cfg[o.game] = {}

\* A manifest that names no configuration claims no line of one.
NoStrayLines ==
  \A m \in Mods :
    IsManifest(manifest[m]) /\ ~manifest[m].hasCfg => AddedIn(manifest[m]) = NoLines

Accounts ==
  /\ FilesAccounted /\ LinesAccounted
  /\ TakesOver(op) /\ TakesAway(op) /\ NoStrayLines

AccountInv == ~disturbed => Accounts

LEMMA OpKinds ==
  ASSUME NEW o \in Ops \cup {Idle}
  PROVE  /\ o \in Copying => o # Idle /\ o \notin Deleting /\ ~Rewriting(o)
         /\ o \in Deleting => o # Idle /\ o \notin Copying
         /\ o = Idle => o \notin Copying /\ o \notin Deleting /\ ~Rewriting(o)
BY IdleAssumption DEF Ops, Copying, Deleting, Rewriting

LEMMA MarkKeeps ==
  ASSUME NEW c, NEW f, NEW b \in BOOLEAN
  PROVE  /\ DOMAIN Mark(c, f, b) = DOMAIN c \cup {f}
         /\ f \notin DOMAIN c => Unmarked(c) \subseteq Unmarked(Mark(c, f, b))
         /\ ~b => f \in Unmarked(Mark(c, f, b))
BY DEF Mark, Unmarked

\* A call that starts changes nothing that is accounted for.
LEMMA StartAccounts ==
  ASSUME Accounts, op = Idle, op' \in Ops, ~Rewriting(op'),
         UNCHANGED <<data, cfg, manifest, theirs, theirLines>>
  PROVE  FilesAccounted' /\ LinesAccounted' /\ NoStrayLines'
<1>1. op \notin Copying /\ ~Rewriting(op)
  BY OpKinds
<1>2. \A g \in Games : Credit(op, g) = {} /\ CreditLines(op, g) = {}
  BY <1>1 DEF Credit, CreditLines
<1>3. \A g \in Games : Live(g)' = Live(g)
  BY <1>1 DEF Live, Registered
<1>4. FilesAccounted'
  BY <1>2 DEF Accounts, FilesAccounted, Listed
<1>5. LinesAccounted'
  BY <1>2, <1>3 DEF Accounts, LinesAccounted, ListedLine
<1> QED BY <1>4, <1>5 DEF Accounts, NoStrayLines

LEMMA InstallBeginsAccounts ==
  ASSUME TypeOK, Accounts, NEW m \in Mods, NEW g \in Games,
         NEW plan \in SUBSET Files, NEW same \in SUBSET Files,
         InstallBegins(m, g, plan, same), ~disturbed'
  PROVE  Accounts'
<1>1. /\ op' \in Copying /\ op'.mod = m /\ op'.game = g /\ op'.todo = plan
      /\ op'.owned = OwnedIn(manifest[m]) \cap same
      /\ op'.cfgAdded = AddedIn(manifest[m])
      /\ op'.kind = "install" /\ op'.at = "copy" /\ op'.copied = <<>>
      /\ Unmarked(op'.copied) = {}
  BY InstallBeginsOp DEF InstallBegins
<1>2. /\ OwnedIn(manifest[m]) \subseteq plan \cap same
      /\ IsManifest(manifest[m]) => manifest[m].game = g
  BY DEF InstallBegins, Drops, Crosses
<1>3. /\ op = Idle /\ ~Rewriting(op') /\ op' \notin Deleting /\ op' \in Ops
      /\ UNCHANGED <<data, cfg, manifest, theirs, theirLines>>
  BY <1>1, OpKinds DEF InstallBegins, Ops, history
<1>4. TakesOver(op)'
  <2>1. \A h \in Games :
          /\ OwnedFor(manifest[m], h)
               \subseteq (IF op'.game = h THEN op'.owned ELSE {})
          /\ AddedFor(manifest[m], h)
               \subseteq (IF op'.game = h THEN op'.cfgAdded[h] ELSE {})
    BY <1>1, <1>2, ForFacts
  <2> QED BY <1>1, <1>2, <1>3, <2>1 DEF TakesOver
<1> QED BY <1>3, <1>4, StartAccounts DEF Accounts, TakesAway

LEMMA ExtractBeginsAccounts ==
  ASSUME TypeOK, Accounts, NEW m \in Mods, NEW plan \in SUBSET Files,
         NEW kind \in {"extract", "meshes"}, ExtractBegins(m, plan, kind),
         ~disturbed'
  PROVE  Accounts'
<1>1. /\ op' \in Copying /\ op'.mod = m /\ op'.todo = plan /\ op'.kind = kind
      /\ op'.owned = {} /\ op'.cfgAdded = NoLines /\ op'.at = "copy"
      /\ op'.copied = <<>> /\ Unmarked(op'.copied) = {}
      /\ manifest[m] = NoManifest
  BY ExtractBeginsOp DEF ExtractBegins
<1>2. /\ op = Idle /\ ~Rewriting(op') /\ op' \notin Deleting /\ op' \in Ops
      /\ UNCHANGED <<data, cfg, manifest, theirs, theirLines>>
  BY <1>1, OpKinds DEF ExtractBegins, Ops, history
<1>3. TakesOver(op)'
  <2>1. \A h \in Games : OwnedFor(manifest[m], h) = {} /\ AddedFor(manifest[m], h) = {}
    BY <1>1, ForFacts DEF IsManifest
  <2> QED BY <1>1, <1>2, <2>1 DEF TakesOver
<1> QED BY <1>2, <1>3, StartAccounts DEF Accounts, TakesAway

\* A file of the plan is copied, or found there and left.
LEMMA TakingOneAccounts ==
  ASSUME TypeOK, Accounts, op \in Copying, op' \in Copying,
         NEW f \in Files, f \in op.todo, op.at = "copy", op'.at = op.at,
         op'.mod = op.mod, op'.game = op.game, op'.kind = op.kind,
         op'.todo = op.todo \ {f},
         op'.owned = op.owned, op'.cfgAdded = op.cfgAdded,
         DOMAIN op'.copied \subseteq DOMAIN op.copied \cup {f},
         Unmarked(op.copied) \subseteq Unmarked(op'.copied),
         f \in op.owned => f \in Unmarked(op'.copied),
         \/ data[op.game][f] # Absent
         \/ f \in Unmarked(op'.copied),
         \A g \in Games, e \in Files :
           ~(g = op.game /\ e = f) => data'[g][e] = data[g][e],
         UNCHANGED <<cfg, manifest, theirs, theirLines>>
  PROVE  Accounts'
<1>1. ~Rewriting(op) /\ ~Rewriting(op') /\ op' \notin Deleting
  BY OpKinds DEF Ops
<1>2. \A g \in Games : Credit(op, g) \subseteq Credit(op', g)
  BY DEF Credit
<1>3. f \in Unmarked(op'.copied) => f \in Credit(op', op.game)
  BY DEF Credit
<1>4. \A g \in Games, e \in Files : Listed(g, e)' = Listed(g, e)
  BY DEF Listed
<1>5. FilesAccounted'
  BY <1>2, <1>3, <1>4 DEF Accounts, FilesAccounted
<1>6. LinesAccounted'
  <2>1. \A g \in Games : Live(g)' = Live(g) /\ CreditLines(op', g) = CreditLines(op, g)
    BY <1>1 DEF Live, Registered, CreditLines
  <2> QED BY <2>1 DEF Accounts, LinesAccounted, ListedLine
<1>7. TakesOver(op)'
  BY DEF Accounts, TakesOver
<1> QED
  BY <1>1, <1>5, <1>6, <1>7 DEF Accounts, TakesAway, NoStrayLines

LEMMA CopyFileAccounts ==
  ASSUME TypeOK, Accounts, NEW f \in Files, CopyFile(f)
  PROVE  Accounts'
<1> DEFINE pre == data[op.game][f] # Absent /\ f \notin op.owned
<1>1. op \in Copying /\ op' \in Copying /\ op.game \in Games /\ op.mod \in Mods
  BY CopyFileOp DEF Copying
<1>2. op' = [op EXCEPT !.todo = @ \ {f}, !.copied = Mark(@, f, pre)]
  BY DEF CopyFile, Mark
<1>3. pre \in BOOLEAN
  OBVIOUS
<1>4. f \in op.owned => ~pre
  OBVIOUS
<1>5. ~pre \/ data[op.game][f] # Absent
  OBVIOUS
<1> HIDE DEF pre
<1>6. /\ op'.at = op.at /\ op'.mod = op.mod /\ op'.kind = op.kind
      /\ op'.game = op.game
      /\ op'.todo = op.todo \ {f} /\ op'.owned = op.owned
      /\ op'.cfgAdded = op.cfgAdded /\ op'.copied = Mark(op.copied, f, pre)
  <2>1. Mark(op.copied, f, pre) \in Marks
    BY <1>1, <1>3, MarksFacts DEF Copying
  <2> QED BY <1>1, <1>2, <2>1 DEF Copying
<1>7. f \in op.todo /\ op.at = "copy"
      /\ UNCHANGED <<cfg, manifest, theirs, theirLines>>
  BY DEF CopyFile, history
<1>8. \A g \in Games, e \in Files :
        ~(g = op.game /\ e = f) => data'[g][e] = data[g][e]
  BY <1>1, OneFile DEF CopyFile
<1>9. f \notin DOMAIN op.copied
  BY <1>1, <1>7 DEF Accounts, TakesOver
<1>10. /\ DOMAIN op'.copied \subseteq DOMAIN op.copied \cup {f}
       /\ Unmarked(op.copied) \subseteq Unmarked(op'.copied)
       /\ ~pre => f \in Unmarked(op'.copied)
  <2> DEFINE new == Mark(op.copied, f, pre)
  <2>1. /\ DOMAIN new = DOMAIN op.copied \cup {f}
        /\ f \notin DOMAIN op.copied => Unmarked(op.copied) \subseteq Unmarked(new)
        /\ ~pre => f \in Unmarked(new)
    BY <1>3, MarkKeeps
  <2>2. op'.copied = new
    BY <1>6
  <2> HIDE DEF new
  <2> QED BY <1>9, <2>1, <2>2
<1> QED
  BY <1>1, <1>4, <1>5, <1>6, <1>7, <1>8, <1>10, TakingOneAccounts

LEMMA PullTextureAccounts ==
  ASSUME TypeOK, Accounts, NEW f \in Files, PullTexture(f)
  PROVE  Accounts'
<1>1. op \in Copying /\ op' \in Copying /\ op.game \in Games /\ op.mod \in Mods
  BY PullTextureOp DEF Copying
<1>2. /\ f \in op.todo /\ op.at = "copy" /\ op.kind = "meshes"
      /\ UNCHANGED <<cfg, manifest, theirs, theirLines>>
  BY DEF PullTexture, history
<1>3. op.owned = {} /\ f \notin DOMAIN op.copied
  BY <1>1, <1>2 DEF Accounts, TakesOver
<1>4. \A g \in Games, e \in Files :
        ~(g = op.game /\ e = f) => data'[g][e] = data[g][e]
  BY <1>1, OneFile DEF PullTexture
<1>5. CASE data[op.game][f] = Absent
  <2>1. op' = [op EXCEPT !.todo = @ \ {f}, !.copied = Mark(@, f, FALSE)]
    BY <1>5 DEF PullTexture, Mark
  <2>2. /\ op'.at = op.at /\ op'.mod = op.mod /\ op'.kind = op.kind
        /\ op'.game = op.game
        /\ op'.todo = op.todo \ {f} /\ op'.owned = op.owned
        /\ op'.cfgAdded = op.cfgAdded /\ op'.copied = Mark(op.copied, f, FALSE)
    <3>1. Mark(op.copied, f, FALSE) \in Marks
      BY <1>1, MarksFacts DEF Copying
    <3> QED BY <1>1, <2>1, <3>1 DEF Copying
  <2>3. /\ DOMAIN op'.copied \subseteq DOMAIN op.copied \cup {f}
        /\ Unmarked(op.copied) \subseteq Unmarked(op'.copied)
        /\ f \in Unmarked(op'.copied)
    <3> DEFINE new == Mark(op.copied, f, FALSE)
    <3>1. /\ DOMAIN new = DOMAIN op.copied \cup {f}
          /\ f \notin DOMAIN op.copied => Unmarked(op.copied) \subseteq Unmarked(new)
          /\ f \in Unmarked(new)
      BY MarkKeeps
    <3>2. op'.copied = new
      BY <2>2
    <3> HIDE DEF new
    <3> QED BY <1>3, <3>1, <3>2
  <2> QED BY <1>1, <1>2, <1>4, <2>2, <2>3, TakingOneAccounts
<1>6. CASE data[op.game][f] # Absent
  <2>1. /\ op'.at = op.at /\ op'.mod = op.mod /\ op'.kind = op.kind
        /\ op'.game = op.game
        /\ op'.todo = op.todo \ {f} /\ op'.owned = op.owned
        /\ op'.cfgAdded = op.cfgAdded /\ op'.copied = op.copied
    BY <1>1, <1>6 DEF PullTexture, Copying
  <2> QED BY <1>1, <1>2, <1>3, <1>4, <1>6, <2>1, TakingOneAccounts
<1> QED BY <1>5, <1>6

LEMMA RegisterAccounts ==
  ASSUME TypeOK, Accounts, Register
  PROVE  Accounts'
<1>1. /\ op \in Copying /\ op' \in Copying /\ op.game \in Games
      /\ op'.game = op.game /\ op'.owned = op.owned /\ op'.copied = op.copied
      /\ op'.cfgAdded[op.game] = op.cfgAdded[op.game] \cup Newly
      /\ op'.mod = op.mod /\ op'.kind = op.kind /\ op'.todo = op.todo
      /\ op'.at = "record"
  BY RegisterOp DEF Copying
<1>2. /\ op.at = "copy" /\ op.todo = {} /\ op.kind = "install"
      /\ UNCHANGED <<data, manifest, theirs, theirLines>>
  BY DEF Register, history
<1>3. ~Rewriting(op) /\ ~Rewriting(op') /\ op' \notin Deleting
  BY <1>1, OpKinds DEF Ops
<1>4. FilesAccounted'
  BY <1>1, <1>2 DEF Accounts, FilesAccounted, Credit, Listed
<1>5. LinesAccounted'
  <2> SUFFICES ASSUME NEW g \in Games, NEW p \in Live(g)'
               PROVE  p \in theirLines'[g] \/ ListedLine(g, p)'
                        \/ p \in CreditLines(op', g)
    BY DEF LinesAccounted
  <2>1. ListedLine(g, p)' = ListedLine(g, p) /\ theirLines' = theirLines
    BY <1>2 DEF ListedLine
  <2>2. CASE g = op.game
    <3>0. Registered(g)' = Registered(g) \cup Newly
      BY <1>1, <2>2, RegisterCfg DEF Registered
    <3>1. Live(g)' = Registered(g) \cup Newly /\ Live(g) = Registered(g)
      BY <1>3, <3>0 DEF Live
    <3>2. CreditLines(op', g) = CreditLines(op, g) \cup Newly
      BY <1>1, <2>2 DEF CreditLines
    <3> QED BY <2>1, <3>1, <3>2 DEF Accounts, LinesAccounted
  <2>3. CASE g # op.game
    <3>1. cfg'[g] = cfg[g]
      BY <2>3, RegisterCfg
    <3>2. Live(g)' = Live(g)
      BY <1>3, <3>1 DEF Live, Registered
    <3>3. CreditLines(op, g) = {}
      BY <2>3 DEF CreditLines
    <3> QED BY <2>1, <3>2, <3>3 DEF Accounts, LinesAccounted
  <2> QED BY <2>2, <2>3
<1>6. TakesOver(op)'
  BY <1>1, <1>2 DEF Accounts, TakesOver
<1> QED
  BY <1>2, <1>3, <1>4, <1>5, <1>6 DEF Accounts, TakesAway, NoStrayLines

\* A call that has copied everything has credit for what the manifest that it
\* replaces claims.
LEMMA TakenOver ==
  ASSUME TypeOK, Accounts, op \in Copying, op.todo = {}, NEW g \in Games
  PROVE  /\ OwnedFor(manifest[op.mod], g) \subseteq Credit(op, g)
         /\ AddedFor(manifest[op.mod], g) \subseteq CreditLines(op, g)
<1>1. op.owned \subseteq Unmarked(op.copied)
  BY DEF Accounts, TakesOver
<1> QED BY <1>1 DEF Accounts, TakesOver, Credit, CreditLines

\* While the manifest is truncated, the call has credit for what it said.
LEMMA RecordBeginsAccounts ==
  ASSUME TypeOK, Accounts, RecordBegins
  PROVE  Accounts'
<1>1. /\ op \in Copying /\ op' \in Copying /\ op'.owned = op.owned
      /\ op'.copied = op.copied /\ op'.cfgAdded = op.cfgAdded
      /\ op'.game = op.game
  BY RecordBeginsOp
<1>2. /\ op'.mod = op.mod /\ op'.kind = op.kind /\ op'.todo = op.todo
      /\ op'.at = "recording" /\ op.at # "recording" /\ op.mod \in Mods
  BY <1>1 DEF RecordBegins, Copying
<1>3. op.todo = {}
  BY <1>1 DEF RecordBegins, Accounts, TakesOver
<1>4. /\ UNCHANGED <<data, cfg, theirs, theirLines>>
      /\ manifest' = [manifest EXCEPT ![op.mod] = Garbled]
  BY DEF RecordBegins, history
<1>5. ~Rewriting(op) /\ ~Rewriting(op') /\ op' \notin Deleting
  BY <1>1, OpKinds DEF Ops
<1>6. /\ \A m \in Mods : m # op.mod => manifest'[m] = manifest[m]
      /\ ~IsManifest(manifest'[op.mod])
  BY <1>2, <1>4 DEF TypeOK, IsManifest
<1>7. FilesAccounted'
  <2>1. \A g \in Games, f \in Files :
          Listed(g, f) => Listed(g, f)' \/ f \in Credit(op, g)
    BY <1>1, <1>2, <1>3, <1>6, TakenOver DEF Listed
  <2>2. \A g \in Games : Credit(op', g) = Credit(op, g)
    BY <1>1 DEF Credit
  <2> QED BY <1>4, <2>1, <2>2 DEF Accounts, FilesAccounted
<1>8. LinesAccounted'
  <2>1. \A g \in Games : \A p :
          ListedLine(g, p) => ListedLine(g, p)' \/ p \in CreditLines(op, g)
    BY <1>1, <1>2, <1>3, <1>6, TakenOver DEF ListedLine
  <2>2. \A g \in Games : CreditLines(op', g) = CreditLines(op, g)
    BY <1>1 DEF CreditLines
  <2>3. \A g \in Games : Live(g)' = Live(g)
    BY <1>4, <1>5 DEF Live, Registered
  <2> QED BY <1>4, <2>1, <2>2, <2>3 DEF Accounts, LinesAccounted
<1>9. TakesOver(op)'
  <2>1. \A g \in Games : /\ OwnedFor(manifest'[op.mod], g) = {}
                         /\ AddedFor(manifest'[op.mod], g) = {}
    BY <1>6, ForFacts
  <2> QED BY <1>1, <1>2, <1>3, <2>1 DEF Accounts, TakesOver
<1>10. NoStrayLines'
  BY <1>6 DEF Accounts, NoStrayLines
<1> QED
  BY <1>5, <1>7, <1>8, <1>9, <1>10 DEF Accounts, TakesAway

LEMMA RecordEndsAccounts ==
  ASSUME TypeOK, Accounts, RecordEnds
  PROVE  Accounts'
<1>1. /\ op \in Copying /\ op.mod \in Mods /\ op.game \in Games
      /\ IsManifest(manifest'[op.mod])
      /\ manifest'[op.mod].game = op.game
      /\ manifest'[op.mod].hasCfg = (op.kind = "install")
      /\ OwnedIn(manifest'[op.mod]) = Unmarked(op.copied)
      /\ manifest'[op.mod].cfgAdded = op.cfgAdded
      /\ AddedIn(manifest'[op.mod]) = op.cfgAdded
      /\ \A m \in Mods : m # op.mod => manifest'[m] = manifest[m]
  BY RecordEndsOp DEF Copying
<1>2. /\ UNCHANGED <<data, cfg, theirs, theirLines>>
      /\ op' = Idle /\ op.at = "recording"
  BY DEF RecordEnds, history
<1>3. /\ ~Rewriting(op) /\ ~Rewriting(op') /\ op' \notin Deleting
      /\ op' \notin Copying
  BY <1>1, <1>2, OpKinds DEF Ops
<1>4. op.todo = {}
  BY <1>1, <1>2 DEF Accounts, TakesOver
<1>5. \A g \in Games :
        /\ OwnedFor(manifest'[op.mod], g) = Credit(op, g)
        /\ AddedFor(manifest'[op.mod], g) = CreditLines(op, g)
  <2> SUFFICES ASSUME NEW g \in Games
               PROVE  /\ OwnedFor(manifest'[op.mod], g) = Credit(op, g)
                      /\ AddedFor(manifest'[op.mod], g) = CreditLines(op, g)
    OBVIOUS
  <2>1. CASE g = op.game
    <3>1. OwnedFor(manifest'[op.mod], g) = OwnedIn(manifest'[op.mod])
      BY <1>1, <2>1 DEF OwnedFor
    <3>2. AddedFor(manifest'[op.mod], g) = op.cfgAdded[g]
      BY <1>1, <2>1 DEF AddedFor
    <3> QED BY <1>1, <1>4, <2>1, <3>1, <3>2 DEF Credit, CreditLines
  <2>2. CASE g # op.game
    BY <1>1, <2>2 DEF OwnedFor, AddedFor, Credit, CreditLines
  <2> QED BY <2>1, <2>2
<1>6. FilesAccounted'
  <2>1. \A g \in Games, f \in Files :
          Listed(g, f) \/ f \in Credit(op, g) => Listed(g, f)'
    BY <1>1, <1>4, <1>5, TakenOver DEF Listed
  <2> QED BY <1>2, <2>1 DEF Accounts, FilesAccounted
<1>7. LinesAccounted'
  <2>1. \A g \in Games : \A p :
          ListedLine(g, p) \/ p \in CreditLines(op, g) => ListedLine(g, p)'
    BY <1>1, <1>4, <1>5, TakenOver DEF ListedLine
  <2>2. \A g \in Games : Live(g)' = Live(g)
    BY <1>2, <1>3 DEF Live, Registered
  <2> QED BY <1>2, <2>1, <2>2 DEF Accounts, LinesAccounted
<1>8. NoStrayLines'
  <2>1. ~manifest'[op.mod].hasCfg => AddedIn(manifest'[op.mod]) = NoLines
    <3>1. op.kind # "install" => op.cfgAdded = NoLines
      BY <1>1 DEF Accounts, TakesOver
    <3> QED BY <1>1, <3>1
  <2> QED BY <1>1, <2>1 DEF Accounts, NoStrayLines
<1> QED
  BY <1>3, <1>6, <1>7, <1>8 DEF Accounts, TakesAway, TakesOver

LEMMA UninstallBeginsAccounts ==
  ASSUME TypeOK, Accounts, NEW m \in Mods, UninstallBegins(m)
  PROVE  Accounts'
<1>1. /\ op' \in Deleting /\ op'.at = "delete" /\ op'.mod = m
      /\ op'.game = manifest[m].game
      /\ op'.hasCfg = manifest[m].hasCfg
      /\ op'.todo = OwnedIn(manifest[m])
      /\ op'.cfgAdded = AddedIn(manifest[m])
  BY UninstallBeginsOp DEF UninstallBegins
<1>2. /\ op = Idle /\ IsManifest(manifest[m]) /\ op' \in Ops
      /\ UNCHANGED <<data, cfg, manifest, theirs, theirLines>>
  BY <1>1 DEF UninstallBegins, history, Ops
<1>3. ~Rewriting(op') /\ op' \notin Copying
  BY <1>1, OpKinds DEF Ops, Rewriting
<1>4. TakesAway(op)'
  <2>1. op'.game \in Games
    BY <1>1 DEF Deleting
  <2>2. ~op'.hasCfg => op'.cfgAdded[op'.game] = {}
    BY <1>1, <1>2, <2>1, LinesFacts DEF Accounts, NoStrayLines
  <2> QED BY <1>1, <1>2, <2>2 DEF TakesAway
<1> QED BY <1>2, <1>3, <1>4, StartAccounts DEF Accounts, TakesOver

LEMMA DeleteFileAccounts ==
  ASSUME TypeOK, Accounts, NEW f \in Files, DeleteFile(f), ~disturbed'
  PROVE  Accounts'
<1>1. /\ op \in Deleting /\ op' \in Deleting /\ op.game \in Games
      /\ op.mod \in Mods
      /\ op.at = "delete" /\ op'.at = "delete" /\ op'.hasCfg = op.hasCfg
      /\ f \in op.todo /\ op'.todo = op.todo \ {f}
      /\ op'.cfgAdded = op.cfgAdded /\ op'.game = op.game
  BY DeleteFileOp DEF Deleting
<1>2. op'.mod = op.mod
  BY <1>1 DEF DeleteFile, Deleting
<1>3. UNCHANGED <<cfg, manifest, theirs, theirLines>>
  BY DEF DeleteFile, history
<1>4. \A g \in Games, e \in Files :
        data'[g][e] = IF g = op.game /\ e = f THEN Absent ELSE data[g][e]
  <2>1. data' = [data EXCEPT ![op.game] = [@ EXCEPT ![f] = Absent]]
    BY DEF DeleteFile
  <2> QED BY <1>1, <2>1, OneFile
<1>5. /\ ~Rewriting(op) /\ ~Rewriting(op') /\ op' \notin Copying
      /\ op \notin Copying
  BY <1>1, OpKinds DEF Ops, Rewriting
<1>6. FilesAccounted'
  BY <1>3, <1>4, <1>5 DEF Accounts, FilesAccounted, Credit, Listed
<1>7. LinesAccounted'
  <2>1. \A g \in Games : Live(g)' = Live(g)
    BY <1>3, <1>5 DEF Live, Registered
  <2> QED BY <1>3, <1>5, <2>1 DEF Accounts, LinesAccounted, CreditLines, ListedLine
<1>8. TakesAway(op)'
  <2>1. OwnedIn(manifest[op.mod]) \subseteq Files
    BY <1>1, ManifestFacts DEF TypeOK
  <2> QED BY <1>1, <1>2, <1>3, <1>4, <2>1 DEF Accounts, TakesAway
<1> QED
  BY <1>3, <1>5, <1>6, <1>7, <1>8 DEF Accounts, TakesOver, NoStrayLines

LEMMA UnregisterAccounts ==
  ASSUME TypeOK, Accounts, Unregister
  PROVE  Accounts'
<1>1. /\ op \in Deleting /\ op' \in Deleting /\ op.at = "delete"
      /\ op.game \in Games /\ op'.game = op.game
      /\ op'.todo = op.todo /\ op'.cfgAdded = op.cfgAdded
      /\ op'.mod = op.mod /\ op'.hasCfg = op.hasCfg
  BY UnregisterOp DEF Deleting
<1>2. op.todo = {} /\ UNCHANGED <<data, manifest, theirs, theirLines>>
  BY DEF Unregister, history
<1>3. ~Rewriting(op) /\ op' \notin Copying /\ op \notin Copying
  BY <1>1, OpKinds DEF Ops, Rewriting
<1>4. /\ Live(op.game)' \subseteq Live(op.game)
      /\ Live(op.game)' \cap op.cfgAdded[op.game] = {}
      /\ op'.at = "rewrite" => cfg'[op.game] = {}
      /\ \A g \in Games : g # op.game => Live(g)' = Live(g)
  <2>1. CASE op'.at = "remove"
    <3>1. cfg' = cfg
            /\ (op.hasCfg => Registered(op.game) \cap op.cfgAdded[op.game] = {})
      BY <2>1, UnregisterOp
    <3>2. \A g \in Games : Live(g)' = Registered(g) /\ Live(g) = Registered(g)
      BY <1>3, <2>1, <3>1 DEF Live, Registered, Rewriting
    <3>3. ~op.hasCfg => op.cfgAdded[op.game] = {}
      BY <1>1 DEF Accounts, TakesAway
    <3> QED BY <1>1, <2>1, <3>1, <3>2, <3>3
  <2>2. CASE op'.at # "remove"
    <3>1. /\ op'.at = "rewrite" /\ cfg[op.game] # NoCfg
          /\ cfg' = [cfg EXCEPT ![op.game] = {}]
          /\ op'.kept = cfg[op.game] \ op.cfgAdded[op.game]
      BY <2>2, UnregisterOp
    <3>2. Rewriting(op')
      BY <1>1, <3>1, OpKinds DEF Rewriting, Ops
    <3>3. \A g \in Games : cfg'[g] = IF g = op.game THEN {} ELSE cfg[g]
      BY <1>1, <3>1 DEF TypeOK
    <3>4. Live(op.game)' = op'.kept /\ Live(op.game) = cfg[op.game]
      BY <1>1, <1>3, <3>1, <3>2 DEF Live, Registered
    <3>5. \A g \in Games : g # op.game => Live(g)' = Live(g)
      BY <1>1, <1>3, <3>3 DEF Live, Registered
    <3> QED BY <1>1, <3>1, <3>3, <3>4, <3>5
  <2> QED BY <2>1, <2>2
<1>5. FilesAccounted'
  BY <1>2, <1>3 DEF Accounts, FilesAccounted, Credit, Listed
<1>6. LinesAccounted'
  <2>1. \A g \in Games : Live(g)' \subseteq Live(g)
    <3> SUFFICES ASSUME NEW g \in Games PROVE Live(g)' \subseteq Live(g)
      OBVIOUS
    <3>1. CASE g = op.game
      BY <1>1, <1>4, <3>1 DEF Live, Registered, Rewriting
    <3>2. CASE g # op.game
      BY <1>4, <3>2
    <3> QED BY <3>1, <3>2
  <2> QED BY <1>2, <1>3, <2>1 DEF Accounts, LinesAccounted, CreditLines, ListedLine
<1>7. TakesAway(op)'
  BY <1>1, <1>2, <1>4 DEF Accounts, TakesAway
<1> QED
  BY <1>2, <1>3, <1>5, <1>6, <1>7 DEF Accounts, TakesOver, NoStrayLines

LEMMA RewriteEndsAccounts ==
  ASSUME TypeOK, Accounts, RewriteEnds
  PROVE  Accounts'
<1>1. /\ op \in Deleting /\ op' \in Deleting /\ op.game \in Games
      /\ op'.game = op.game /\ op.at = "rewrite" /\ op'.at = "remove"
      /\ op'.todo = op.todo /\ op'.cfgAdded = op.cfgAdded
      /\ op'.mod = op.mod /\ op'.hasCfg = op.hasCfg
      /\ cfg' = [cfg EXCEPT ![op.game] = op.kept] /\ op.kept \in SUBSET Plugins
  BY RewriteEndsOp
<1>2. UNCHANGED <<data, manifest, theirs, theirLines>>
  BY DEF RewriteEnds, history
<1>3. /\ op' \notin Copying /\ op \notin Copying
      /\ Rewriting(op) /\ ~Rewriting(op')
  BY <1>1, OpKinds DEF Ops, Rewriting
<1>4. \A g \in Games : Live(g)' = Live(g)
  <2>1. \A g \in Games : cfg'[g] = IF g = op.game THEN op.kept ELSE cfg[g]
    BY <1>1 DEF TypeOK
  <2>2. op.kept # NoCfg
    BY <1>1, CfgAssumption
  <2> QED BY <1>3, <2>1, <2>2 DEF Live, Registered
<1>5. FilesAccounted'
  BY <1>2, <1>3 DEF Accounts, FilesAccounted, Credit, Listed
<1>6. LinesAccounted'
  BY <1>2, <1>3, <1>4 DEF Accounts, LinesAccounted, CreditLines, ListedLine
<1>7. TakesAway(op)'
  BY <1>1, <1>2, <1>4 DEF Accounts, TakesAway
<1> QED
  BY <1>2, <1>3, <1>5, <1>6, <1>7 DEF Accounts, TakesOver, NoStrayLines

\* What the manifest claimed is gone when the manifest goes.
LEMMA RemoveManifestAccounts ==
  ASSUME TypeOK, Accounts, RemoveManifest
  PROVE  Accounts'
<1>1. /\ op \in Deleting /\ op.at = "remove" /\ op.mod \in Mods
      /\ op.game \in Games /\ op' = Idle
      /\ manifest'[op.mod] = NoManifest
      /\ \A m \in Mods : m # op.mod => manifest'[m] = manifest[m]
  BY RemoveManifestOp DEF Deleting
<1>2. UNCHANGED <<data, cfg, theirs, theirLines>>
  BY DEF RemoveManifest, history
<1>3. /\ op \notin Copying /\ op' \notin Copying /\ op' \notin Deleting
      /\ ~Rewriting(op) /\ ~Rewriting(op')
  BY <1>1, OpKinds DEF Ops, Rewriting
<1>4. /\ IsManifest(manifest[op.mod]) /\ manifest[op.mod].game = op.game
      /\ \A f \in OwnedIn(manifest[op.mod]) : data[op.game][f] = Absent
      /\ op.cfgAdded = AddedIn(manifest[op.mod])
      /\ Live(op.game) \cap op.cfgAdded[op.game] = {}
  BY <1>1 DEF Accounts, TakesAway
<1>5. \A g \in Games :
        /\ \A f \in OwnedFor(manifest[op.mod], g) : data[g][f] = Absent
        /\ Live(g) \cap AddedFor(manifest[op.mod], g) = {}
  BY <1>4, ForFacts
<1>6. FilesAccounted'
  <2>1. \A g \in Games, f \in Files :
          Listed(g, f) => Listed(g, f)' \/ data[g][f] = Absent
    BY <1>1, <1>5 DEF Listed
  <2> QED BY <1>2, <1>3, <2>1 DEF Accounts, FilesAccounted, Credit
<1>7. LinesAccounted'
  <2>1. \A g \in Games : \A p \in Live(g) : ListedLine(g, p) => ListedLine(g, p)'
    BY <1>1, <1>5 DEF ListedLine
  <2>2. \A g \in Games : Live(g)' = Live(g)
    BY <1>2, <1>3 DEF Live, Registered
  <2> QED BY <1>2, <1>3, <2>1, <2>2 DEF Accounts, LinesAccounted, CreditLines
<1>8. NoStrayLines'
  BY <1>1 DEF Accounts, NoStrayLines, IsManifest
<1> QED
  BY <1>3, <1>6, <1>7, <1>8 DEF Accounts, TakesOver, TakesAway

LEMMA BreaksOffAccounts ==
  ASSUME TypeOK, Accounts, BreaksOff, ~disturbed'
  PROVE  Accounts'
<1>1. /\ op # Idle /\ op.kind = "uninstall" /\ op' = Idle
      /\ theirLines' = IF op.at = "rewrite"
                       THEN [theirLines EXCEPT ![op.game] = {}] ELSE theirLines
      /\ UNCHANGED <<data, cfg, manifest, theirs>>
  BY DEF BreaksOff
<1>2. op \in Deleting /\ op.game \in Games
  BY <1>1, OpFacts DEF TypeOK
<1>3. /\ op \notin Copying /\ op' \notin Copying /\ op' \notin Deleting
      /\ ~Rewriting(op')
  BY <1>1, <1>2, OpKinds DEF Ops
<1>4. FilesAccounted'
  BY <1>1, <1>3 DEF Accounts, FilesAccounted, Credit, Listed
<1>5. LinesAccounted'
  <2> SUFFICES ASSUME NEW g \in Games, NEW p \in Live(g)'
               PROVE  p \in theirLines'[g] \/ ListedLine(g, p)'
                        \/ p \in CreditLines(op', g)
    BY DEF LinesAccounted
  <2>1. Live(g)' = Registered(g) /\ ListedLine(g, p)' = ListedLine(g, p)
    BY <1>1, <1>3 DEF Live, Registered, ListedLine
  <2>2. CreditLines(op, g) = {}
    BY <1>3 DEF CreditLines
  <2>3. CASE op.at = "rewrite" /\ g = op.game
    <3>1. cfg[g] = {}
      BY <1>2, <2>3 DEF Accounts, TakesAway
    <3>2. Registered(g) = {}
      BY <3>1 DEF Registered
    <3> QED BY <2>1, <3>2
  <2>4. CASE ~(op.at = "rewrite" /\ g = op.game)
    <3>1. Live(g) = Registered(g)
      BY <2>4 DEF Live, Rewriting
    <3>2. theirLines'[g] = theirLines[g]
      BY <1>1, <2>4 DEF TypeOK
    <3> QED BY <2>1, <2>2, <3>1, <3>2 DEF Accounts, LinesAccounted
  <2> QED BY <2>3, <2>4
<1> QED
  BY <1>1, <1>3, <1>4, <1>5 DEF Accounts, TakesOver, TakesAway, NoStrayLines

\* What the user puts where a manifest claims it is accounted for already.
LEMMA UserActsAccounts ==
  ASSUME TypeOK, Accounts, UserActs
  PROVE  Accounts'
<1>1. op = Idle /\ UNCHANGED <<manifest, op>>
  BY DEF UserActs, UserAdds, UserDeletes, UserRegisters, UserUnregisters
<1>2. op \notin Copying /\ op \notin Deleting /\ ~Rewriting(op)
  BY <1>1, OpKinds
<1>3. \A g \in Games : Credit(op, g) = {} /\ CreditLines(op, g) = {}
  BY <1>2 DEF Credit, CreditLines
<1>4. /\ \A g \in Games, f \in Files : Listed(g, f)' = Listed(g, f)
      /\ \A g \in Games : \A p : ListedLine(g, p)' = ListedLine(g, p)
  BY <1>1 DEF Listed, ListedLine
<1>5. \A g \in Games : Live(g) = Registered(g) /\ Live(g)' = Registered(g)'
  BY <1>1, <1>2 DEF Live, Registered
<1>6. ASSUME NEW g \in Games, NEW f \in Files, UserAdds(g, f) \/ UserDeletes(g, f)
      PROVE  FilesAccounted' /\ LinesAccounted'
  <2>1. /\ \A h \in Games, e \in Files :
             ~(h = g /\ e = f) => data'[h][e] = data[h][e]
        /\ UserDeletes(g, f) => data'[g][f] = Absent
    BY <1>6, OneFile DEF UserAdds, UserDeletes
  <2>2. /\ \A h \in Games : h # g => theirs'[h] = theirs[h]
        /\ theirs[g] \ {f} \subseteq theirs'[g]
        /\ UserAdds(g, f) => Listed(g, f) \/ f \in theirs'[g]
    BY <1>6 DEF UserAdds, UserDeletes, TypeOK
  <2>3. FilesAccounted'
    BY <1>3, <1>4, <1>6, <2>1, <2>2 DEF Accounts, FilesAccounted
  <2>4. UNCHANGED <<cfg, theirLines>>
    BY <1>6 DEF UserAdds, UserDeletes
  <2>5. LinesAccounted'
    BY <1>3, <1>4, <1>5, <2>4 DEF Accounts, LinesAccounted, Registered
  <2> QED BY <2>3, <2>5
<1>7. ASSUME NEW g \in Games, NEW p \in Plugins,
             UserRegisters(g, p) \/ UserUnregisters(g, p)
      PROVE  FilesAccounted' /\ LinesAccounted'
  <2>1. UNCHANGED <<data, theirs>>
    BY <1>7 DEF UserRegisters, UserUnregisters
  <2>2. FilesAccounted'
    BY <1>3, <1>4, <2>1 DEF Accounts, FilesAccounted
  <2>3. /\ cfg[g] # NoCfg
        /\ \A h \in Games : h # g => /\ cfg'[h] = cfg[h]
                                     /\ theirLines'[h] = theirLines[h]
    BY <1>7 DEF UserRegisters, UserUnregisters, TypeOK
  <2>4. /\ Registered(g)' \subseteq cfg'[g]
        /\ Registered(g) = cfg[g]
        /\ \A h \in Games : h # g => Registered(h)' = Registered(h)
    BY <2>3 DEF Registered
  <2>5. \A q \in cfg'[g] : q \in theirLines'[g] \/ ListedLine(g, q)
    <3>1. \A q \in cfg[g] : q \in theirLines[g] \/ ListedLine(g, q)
      BY <1>3, <1>5, <2>4 DEF Accounts, LinesAccounted
    <3>2. CASE UserRegisters(g, p)
      <4>1. cfg'[g] = cfg[g] \cup {p}
        BY <3>2 DEF UserRegisters, TypeOK
      <4>2. /\ theirLines[g] \subseteq theirLines'[g]
            /\ ListedLine(g, p) \/ p \in theirLines'[g]
        BY <3>2 DEF UserRegisters, TypeOK
      <4> QED BY <3>1, <4>1, <4>2
    <3>3. CASE UserUnregisters(g, p)
      <4>1. cfg'[g] = cfg[g] \ {p} /\ theirLines'[g] = theirLines[g] \ {p}
        BY <3>3 DEF UserUnregisters, TypeOK
      <4> QED BY <3>1, <4>1
    <3> QED BY <1>7, <3>2, <3>3
  <2>6. LinesAccounted'
    BY <1>3, <1>4, <1>5, <2>3, <2>4, <2>5 DEF Accounts, LinesAccounted
  <2> QED BY <2>2, <2>6
<1>8. FilesAccounted' /\ LinesAccounted'
  BY <1>6, <1>7 DEF UserActs
<1> QED
  BY <1>1, <1>2, <1>8 DEF Accounts, TakesOver, TakesAway, NoStrayLines

LEMMA AccountInvStep ==
  ASSUME TypeOK, AccountInv, [Next]_vars
  PROVE  AccountInv'
<1> SUFFICES ASSUME ~disturbed' PROVE Accounts'
  BY DEF AccountInv
<1>1. ~disturbed /\ Accounts
  <2>1. disturbed => disturbed'
    BY DEF Next, Install, Extract, Uninstall, UserActs, InstallBegins, CopyFile,
       Register, RegisterRaises, RecordBegins, RecordEnds, ExtractBegins,
       PullTexture, UninstallBegins, DeleteFile, Unregister, RewriteEnds,
       RemoveManifest, BreaksOff, UserAdds, UserDeletes, UserRegisters,
       UserUnregisters, vars
  <2> QED BY <2>1 DEF AccountInv
<1>2. CASE Install
  <2>1. ~RegisterRaises
    BY DEF RegisterRaises
  <2> QED
    BY <1>1, <1>2, <2>1, InstallBeginsAccounts, CopyFileAccounts,
       RegisterAccounts, RecordBeginsAccounts, RecordEndsAccounts DEF Install
<1>3. CASE Extract
  BY <1>1, <1>3, ExtractBeginsAccounts, PullTextureAccounts DEF Extract
<1>4. CASE Uninstall
  BY <1>1, <1>4, UninstallBeginsAccounts, DeleteFileAccounts,
     UnregisterAccounts, RewriteEndsAccounts, RemoveManifestAccounts
     DEF Uninstall
<1>5. CASE UserActs
  BY <1>1, <1>5, UserActsAccounts
<1>6. CASE BreaksOff
  BY <1>1, <1>6, BreaksOffAccounts
<1>7. CASE UNCHANGED vars
  BY <1>1, <1>7 DEF vars, Accounts, FilesAccounted, LinesAccounted, TakesOver,
     TakesAway, NoStrayLines, Credit, CreditLines, Live, Registered, Listed,
     ListedLine
<1> QED BY <1>2, <1>3, <1>4, <1>5, <1>6, <1>7 DEF Next

LEMMA InitAccounts == Init => AccountInv
<1> SUFFICES ASSUME Init PROVE Accounts
  BY DEF AccountInv
<1>1. op = Idle /\ op \notin Copying /\ op \notin Deleting /\ ~Rewriting(op)
  BY OpKinds DEF Init
<1>2. FilesAccounted
  BY DEF Init, FilesAccounted
<1>3. LinesAccounted
  BY <1>1 DEF Init, LinesAccounted, Live
<1> QED
  BY <1>1, <1>2, <1>3
     DEF Init, Accounts, TakesOver, TakesAway, NoStrayLines, IsManifest

(***************************************************************************)
(* Unless an install breaks off, or a name is installed again with less or *)
(* for another game, each file and each line in the games' directories is  *)
(* the user's or in a manifest that an uninstall takes back.               *)
(***************************************************************************)
THEOREM NothingUnaccounted == Spec => []AccountedFor
<1>1. TypeOK /\ AccountInv => AccountedFor
  <2> SUFFICES ASSUME AccountInv, op = Idle, ~disturbed, NEW g \in Games
               PROVE  /\ \A f \in Files :
                           data[g][f] # Absent => f \in theirs[g] \/ Listed(g, f)
                      /\ \A p \in Registered(g) :
                           p \in theirLines[g] \/ ListedLine(g, p)
    BY DEF AccountedFor
  <2>1. op \notin Copying /\ ~Rewriting(op)
    BY OpKinds
  <2> QED
    BY <2>1 DEF AccountInv, Accounts, FilesAccounted, LinesAccounted, Credit,
       CreditLines, Live
<1> QED
  BY <1>1, AccountInvStep, InitAccounts, AlwaysTypeOK, PTL DEF Spec
=============================================================================
