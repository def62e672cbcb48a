------------------------------- MODULE Modlock -------------------------------
(***************************************************************************)
(* Rolling the local mods into a bundle for a server and its clients       *)
(* (chim.modlock, mod_export and mod_verify), while somebody else changes  *)
(* the files.  A roll hashes the plugins, hashes the bundled files, checks *)
(* the result, writes the manifest and the server's list, reads the files  *)
(* again into a zip, and checks the plugins in it.                         *)
(***************************************************************************)
EXTENDS Integers, FiniteSetsExt, SequencesExt

CONSTANTS
  MlPaths,     \* paths in a data directory; plugins are at the top of one
  MlFold,      \* MlFold[p]: p in lower case
  MlWalk,      \* MlWalk[p]: the place of p in the order of a directory walk
  MlContents,  \* contents of files; each stands for its checksums too
  MlDirs,      \* data directories
  MlDisks,     \* what they hold at first
  MlSetups,    \* load orders, search paths and bundle directories to choose from
  KnownCrcs,   \* KnownCrcs[p]: the editions of a vanilla master (lower case)
  LuaPlugins,  \* plugins that are OpenMW-Lua scripts
  BundleDocs,  \* the paths of the documents that a roll puts into the zip
  NoFile, Doc, \* no file; the content of a document
  MaxChanges,  \* bound on the changes to files
  MaxRolls     \* bound on the rolls

ASSUME ModlockAssumption ==
  /\ IsFiniteSet(MlPaths)
  /\ MlFold \in [MlPaths -> MlPaths]
  /\ MlWalk \in [MlPaths -> Nat]
  /\ MlDisks \subseteq [MlDirs -> [MlPaths -> MlContents \cup {NoFile}]]
  /\ NoFile \notin MlContents
  /\ DOMAIN KnownCrcs \subseteq MlPaths
  /\ \A s \in MlSetups : /\ s.content \in Seq(MlPaths)
                         /\ s.dataDirs \in Seq(MlDirs)
                         /\ s.bundles \in Seq(MlDirs)
  /\ {MaxChanges, MaxRolls} \subseteq Nat

VARIABLES
  mlSetup,   \* openmw.cfg and the arguments of the roll
  mlDisk,    \* mlDisk[dir][path]: the files
  mlStage,   \* where the roll is
  mlLock,    \* the manifest it builds: [crcs, files], functions of paths
  mlEnforce, \* whether it enforces checksums
  mlOut,     \* out_dir: the manifest, the server's list and the zip
  mlTouched, \* the paths changed since the roll began
  mlDeleted, \* those of them that were deleted
  mlChanges, \* how many changes were made
  mlRolls    \* how many rolls were begun

mlVars == <<mlSetup, mlDisk, mlStage, mlLock, mlEnforce, mlOut, mlTouched, mlDeleted,
            mlChanges, mlRolls>>

-----------------------------------------------------------------------------
(* Where files are found.                                                  *)

Holders(disk, dirs, p) == {k \in DOMAIN dirs : disk[dirs[k]][p] # NoFile}

\* The last of the directories that has a file of exactly this spelling.
ResolveAcross(disk, dirs, p) == dirs[Max(Holders(disk, dirs, p))]

HashFile(disk, dirs, p) ==
  IF Holders(disk, dirs, p) = {} THEN NoFile ELSE disk[ResolveAcross(disk, dirs, p)][p]

\* The files of the bundle by their spelling, as the manifest and mod_verify
\* merge them.
BundleFiles(disk, dirs) == [p \in MlPaths |-> HashFile(disk, dirs, p)]

\* The zip merges paths that differ in case: a file is left out for another
\* spelling in a later directory, or later in the walk of the same one.
Shadowed(disk, dirs, p) ==
  \E q \in MlPaths, k \in DOMAIN dirs :
    /\ q # p /\ MlFold[q] = MlFold[p]
    /\ disk[dirs[k]][q] # NoFile
    /\ \A j \in Holders(disk, dirs, p) : j < k \/ (j = k /\ MlWalk[p] < MlWalk[q])

\* Mutant: the first of the directories wins.
ZipFilesFirst(disk, dirs) ==
  [p \in MlPaths |-> IF Holders(disk, dirs, p) = {} THEN NoFile
                     ELSE disk[dirs[Min(Holders(disk, dirs, p))]][p]]

ZipFiles(disk, dirs) ==
  [p \in MlPaths |-> IF Shadowed(disk, dirs, p) THEN NoFile ELSE HashFile(disk, dirs, p)]

-----------------------------------------------------------------------------
(* What is derived from the manifest.                                      *)

Content == ToSet(mlSetup.content)
IsVanilla(p) == MlFold[p] \in DOMAIN KnownCrcs

\* The server's list: for each plugin the checksums it accepts.
RequiredDataFiles(crcs, enforce) ==
  [p \in Content |->
     IF ~enforce THEN {}
     ELSE (IF IsVanilla(p) THEN KnownCrcs[MlFold[p]] ELSE {}) \cup {crcs[p]}]

\* 0.48 brought OpenMW-Lua; a version that is not given has none.
EngineAllowsLua(base) ==
  /\ base # <<>>
  /\ base[1] > 0 \/ (base[1] = 0 /\ base[2] >= 48)

\* Every plugin but the vanilla masters resolves into a bundle directory.
RollSane ==
  \A p \in Content : IsVanilla(p) \/
    /\ Holders(mlDisk, mlSetup.dataDirs, p) # {}
    /\ ResolveAcross(mlDisk, mlSetup.dataDirs, p) \in ToSet(mlSetup.bundles)

\* The plugins whose bytes in the zip are not those of the manifest; what is
\* not in the zip is skipped.
BadInZip == {p \in Content : mlOut.zip[p] \notin {NoFile, mlLock.crcs[p]}}

\* mod_verify of directories against a manifest.
Verify(lock, have) ==
  LET wanted == {p \in MlPaths : lock.files[p] # NoFile}
      present == {p \in MlPaths : have[p] # NoFile}
  IN  [mismatched |-> {p \in wanted \cap present : have[p] # lock.files[p]},
       missing |-> wanted \ present,
       extra |-> present \ wanted]

-----------------------------------------------------------------------------
(* The roll.                                                               *)

NoFiles == [p \in MlPaths |-> NoFile]
NoLock == [crcs |-> NoFiles, files |-> NoFiles]
InRoll == mlStage \notin {"idle", "failed", "done"}

Goes(stage) == mlStage' = stage
FilesStay == UNCHANGED <<mlSetup, mlDisk, mlTouched, mlDeleted, mlChanges>>

MlStarts == [setup : MlSetups, disk : MlDisks]

MlInitFrom(start) ==
  /\ mlSetup = start.setup
  /\ mlDisk = start.disk
  /\ mlStage = "idle"
  /\ mlLock = NoLock
  /\ mlEnforce = TRUE
  /\ mlOut = [lock |-> NoLock, required |-> <<>>, zip |-> NoFiles]
  /\ mlTouched = {} /\ mlDeleted = {}
  /\ mlChanges = 0 /\ mlRolls = 0

MlInit == \E start \in MlStarts : MlInitFrom(start)

\* mod_export; Lua scripts are refused where the engine has none.
ModExport(base, enforce) ==
  /\ ~InRoll
  /\ mlRolls < MaxRolls
  /\ mlRolls' = mlRolls + 1
  /\ Content \cap LuaPlugins # {} => EngineAllowsLua(base)
  /\ mlEnforce' = enforce
  /\ mlLock' = NoLock
  /\ mlTouched' = {} /\ mlDeleted' = {}
  /\ Goes("content")
  /\ UNCHANGED <<mlSetup, mlDisk, mlOut, mlChanges>>

\* build_modlock hashes the plugins; one that is nowhere raises.
HashContent ==
  /\ mlStage = "content"
  /\ LET crcs == [p \in MlPaths |-> IF p \in Content
                                    THEN HashFile(mlDisk, mlSetup.dataDirs, p) ELSE NoFile]
     IN  IF \E p \in Content : crcs[p] = NoFile
         THEN Goes("failed") /\ UNCHANGED mlLock
         ELSE Goes("files") /\ mlLock' = [mlLock EXCEPT !.crcs = crcs]
  /\ FilesStay /\ UNCHANGED <<mlEnforce, mlOut, mlRolls>>

\* It hashes the files of the bundle.
HashFiles ==
  /\ mlStage = "files"
  /\ mlLock' = [mlLock EXCEPT !.files = BundleFiles(mlDisk, mlSetup.bundles)]
  /\ Goes("sane")
  /\ FilesStay /\ UNCHANGED <<mlEnforce, mlOut, mlRolls>>

AssertRollSane ==
  /\ mlStage = "sane"
  /\ Goes(IF RollSane THEN "lock" ELSE "failed")
  /\ FilesStay /\ UNCHANGED <<mlLock, mlEnforce, mlOut, mlRolls>>

WriteLock ==
  /\ mlStage = "lock"
  /\ mlOut' = [mlOut EXCEPT !.lock = mlLock]
  /\ Goes("required")
  /\ FilesStay /\ UNCHANGED <<mlLock, mlEnforce, mlRolls>>

WriteRequired ==
  /\ mlStage = "required"
  /\ mlOut' = [mlOut EXCEPT !.required = RequiredDataFiles(mlLock.crcs, mlEnforce)]
  /\ Goes("zip")
  /\ FilesStay /\ UNCHANGED <<mlLock, mlEnforce, mlRolls>>

WriteBundleZip ==
  /\ mlStage = "zip"
  /\ mlOut' = [mlOut EXCEPT !.zip = ZipFiles(mlDisk, mlSetup.bundles)]
  /\ Goes("check")
  /\ FilesStay /\ UNCHANGED <<mlLock, mlEnforce, mlRolls>>

\* Mutant: the zip is taken as it was written.
VerifyZipSkipped ==
  /\ mlStage = "check"
  /\ Goes("done")
  /\ FilesStay /\ UNCHANGED <<mlLock, mlEnforce, mlOut, mlRolls>>

\* A plugin that differs raises, with all three files replaced by then.
VerifyZipCrc ==
  /\ mlStage = "check"
  /\ Goes(IF BadInZip = {} THEN "done" ELSE "failed")
  /\ FilesStay /\ UNCHANGED <<mlLock, mlEnforce, mlOut, mlRolls>>

\* Somebody writes, or deletes, a file.
FileChanges(dir, p, c) ==
  /\ mlChanges < MaxChanges
  /\ mlChanges' = mlChanges + 1
  /\ mlDisk[dir][p] # c
  /\ mlDisk' = [mlDisk EXCEPT ![dir][p] = c]
  /\ mlTouched' = IF InRoll THEN mlTouched \cup {p} ELSE mlTouched
  /\ mlDeleted' = IF InRoll /\ c = NoFile THEN mlDeleted \cup {p} ELSE mlDeleted
  /\ UNCHANGED <<mlSetup, mlStage, mlLock, mlEnforce, mlOut, mlRolls>>

MlNext ==
  \/ \E base \in {<<>>, <<0, 47>>, <<0, 48>>}, enforce \in BOOLEAN : ModExport(base, enforce)
  \/ HashContent \/ HashFiles \/ AssertRollSane
  \/ WriteLock \/ WriteRequired \/ WriteBundleZip \/ VerifyZipCrc
  \/ \E dir \in MlDirs, p \in MlPaths, c \in MlContents \cup {NoFile} : FileChanges(dir, p, c)

MlSpec == MlInit /\ [][MlNext]_mlVars

-----------------------------------------------------------------------------

\* "Closes the loop that the bytes friends receive reproduce the enforced
\* checksum": when a roll has returned, every plugin that is not a vanilla
\* master is in the zip, with bytes that the server's list accepts, although
\* the files were read three times and changed in between.  What the roll does
\* not notice: a plugin deleted while it ran, and one that is in the bundle in
\* two spellings (it is then in the zip under the other).
RollShipsEnforced ==
  mlStage = "done" /\ mlEnforce =>
    \A p \in Content : \/ IsVanilla(p) \/ p \in mlDeleted
                       \/ \E q \in MlPaths \ {p} : MlFold[q] = MlFold[p] /\ mlOut.zip[q] # NoFile
                       \/ mlOut.zip[p] # NoFile /\ mlOut.zip[p] \in mlOut.required[p]

\* What a client unpacks is what the manifest says, by mod_verify's own
\* comparison: it differs in the documents that the roll adds, in files that
\* changed while the roll ran, and in paths that are there in two spellings
\* (the manifest lists both, the zip has one).
ClientMatchesLock ==
  mlStage = "done" =>
    LET unpacked == [p \in MlPaths |-> IF p \in BundleDocs THEN Doc ELSE mlOut.zip[p]]
        report == Verify(mlOut.lock, unpacked)
        Alike(p) == {q \in MlPaths : MlFold[q] = MlFold[p]}
    IN  \A p \in report.mismatched \cup report.missing \cup report.extra :
          \/ p \in BundleDocs
          \/ Alike(p) \cap mlTouched # {}
          \/ \E q \in Alike(p) \ {p} : mlOut.lock.files[q] # NoFile
=============================================================================
