----------------------------- MODULE AssetClosure -----------------------------
(***************************************************************************)
(* The closure of the assets that a list of Morrowind plugins refers to,    *)
(* and the copy of it into a clean directory (chim.assets, mod_resolve),    *)
(* while somebody else changes the files.  The content of a plugin or of a  *)
(* mesh is the set of its references.                                      *)
(***************************************************************************)
EXTENDS Naturals, FiniteSets, Sequences

CONSTANTS
  AsDirs,     \* data directories
  Dest,       \* the directory for the copy
  AsPaths,    \* paths in a directory: [sub, stem, ext]
  AsContents, \* what files refer to: sets of [kind, stem]
  PluginSubs, \* the subdirectories where plugins are looked for
  TexExts,    \* the extensions of textures, in the order they are tried
  AsSetups,   \* what to resolve: [content, dirs]
  AsDisks,    \* what the directories hold at first
  NoAsset, NotFound,
  MaxAsChanges, \* bound on the changes to files
  MaxResolves   \* bound on the calls

ASSUME AssetAssumption ==
  /\ Dest \notin AsDirs
  /\ AsDisks \subseteq [AsDirs -> [AsPaths -> AsContents \cup {NoAsset}]]
  /\ NoAsset \notin AsContents
  /\ \A s \in AsSetups : s.dirs \in Seq(AsDirs)
  /\ TexExts \in Seq(STRING \ {"esp", "nif", "wav"}) /\ PluginSubs \in Seq(STRING)
  /\ \A c \in AsContents : \A r \in c : r.kind \in {"mesh", "texture", "icon", "sound"}
  /\ \A d \in AsDirs \cup {Dest}, p \in AsPaths : NotFound # [dir |-> d, path |-> p]
  /\ {MaxAsChanges, MaxResolves} \subseteq Nat

VARIABLES
  asSetup,   \* the plugins and the directories of the call
  asDisk,    \* asDisk[dir][path]: the files, those of Dest included
  asStage,   \* "idle", "copy", "done" or "failed"
  asResult,  \* what the call resolved: [used, missing]
  asTodo,    \* the used files that are still to be copied
  asFresh,   \* whether nothing was in Dest, and no file changed, since the call began
  asChanges, \* how many changes were made
  asCalls    \* how many calls were made

asVars == <<asSetup, asDisk, asStage, asResult, asTodo, asFresh, asChanges, asCalls>>

-----------------------------------------------------------------------------
(* Finding files.                                                          *)

Place(sub, stem, ext) == [sub |-> sub, stem |-> stem, ext |-> ext]

Has(disk, dir, path) == path \in AsPaths /\ disk[dir][path] # NoAsset

\* The first directory that has one of the candidates, and in it the first.
Find(disk, dirs, candidates) ==
  LET hits == {h \in (DOMAIN dirs) \X (DOMAIN candidates) :
                 Has(disk, dirs[h[1]], candidates[h[2]])}
      first == CHOOSE h \in hits :
                 \A g \in hits : h[1] < g[1] \/ (h[1] = g[1] /\ h[2] <= g[2])
  IN  IF hits = {} THEN NotFound
      ELSE [dir |-> dirs[first[1]], path |-> candidates[first[2]]]

FindPlugin(disk, dirs, name) ==
  Find(disk, dirs, [i \in DOMAIN PluginSubs |-> Place(PluginSubs[i], name, "esp")])

\* A texture is found under any of the extensions, whichever the reference has.
TexPlaces(sub, stem) == [i \in DOMAIN TexExts |-> Place(sub, stem, TexExts[i])]

\* A sound is looked for in the directory of sounds of every data directory,
\* and then at the top of each.
FindSound(disk, dirs, stem) ==
  LET f == Find(disk, dirs, <<Place("sound", stem, "wav")>>)
  IN  IF f # NotFound THEN f ELSE Find(disk, dirs, <<Place("", stem, "wav")>>)

FindRef(disk, dirs, ref) ==
  CASE ref.kind = "mesh" -> Find(disk, dirs, <<Place("meshes", ref.stem, "nif")>>)
    [] ref.kind = "texture" -> Find(disk, dirs, TexPlaces("textures", ref.stem))
    [] ref.kind = "icon" -> Find(disk, dirs, TexPlaces("icons", ref.stem) \o TexPlaces("textures", ref.stem))
    [] ref.kind = "sound" -> FindSound(disk, dirs, ref.stem)

-----------------------------------------------------------------------------
(* The closure.                                                            *)

\* What the plugins, or the meshes, among the files refer to.
RefsOf(disk, files) == UNION {disk[f.dir][f.path] : f \in files}

ResolveClosure(disk, dirs, plugins) ==
  LET direct == RefsOf(disk, plugins)
      meshes == {FindRef(disk, dirs, r) : r \in {m \in direct : m.kind = "mesh"}} \ {NotFound}
      refs == direct \cup RefsOf(disk, meshes)
  IN  [used |-> (plugins \cup {FindRef(disk, dirs, r) : r \in refs}) \ {NotFound},
       missing |-> {r \in refs : FindRef(disk, dirs, r) = NotFound}]

\* The plugins that are nowhere are reported, and the others resolved.
ResolveModlist(disk, dirs, content) ==
  ResolveClosure(disk, dirs, {FindPlugin(disk, dirs, n) : n \in content} \ {NotFound})

-----------------------------------------------------------------------------
(* The call.                                                               *)

NoResult == [used |-> {}, missing |-> {}]
Empty == [p \in AsPaths |-> NoAsset]

AsStarts == [setup : AsSetups, disk : AsDisks]

AsInitFrom(start) ==
  /\ asSetup = start.setup
  /\ asDisk = [d \in AsDirs \cup {Dest} |-> IF d = Dest THEN Empty ELSE start.disk[d]]
  /\ asStage = "idle"
  /\ asResult = NoResult
  /\ asTodo = {}
  /\ asFresh = FALSE
  /\ asChanges = 0 /\ asCalls = 0

AsInit == \E start \in AsStarts : AsInitFrom(start)

\* mod_resolve resolves, and goes on to copy if it was given a directory.
ModResolve(materialize) ==
  /\ asStage # "copy"
  /\ asCalls < MaxResolves
  /\ asCalls' = asCalls + 1
  /\ asResult' = ResolveModlist(asDisk, asSetup.dirs, asSetup.content)
  /\ asTodo' = IF materialize THEN asResult'.used ELSE {}
  /\ asStage' = IF materialize THEN "copy" ELSE "idle"
  /\ asFresh' = (asDisk[Dest] = Empty)
  /\ UNCHANGED <<asSetup, asDisk, asChanges>>

\* Mutant: the path in the data directory is not kept.
RelToDirBase(f) == [f.path EXCEPT !.sub = ""]

RelToDir(f) == f.path

\* One file is copied; a file that is gone by now raises.
MaterializeFile(f) ==
  /\ asStage = "copy"
  /\ f \in asTodo
  /\ IF Has(asDisk, f.dir, f.path)
     THEN /\ asDisk' = [asDisk EXCEPT ![Dest] =
               [p \in AsPaths |-> IF p = RelToDir(f) THEN asDisk[f.dir][f.path] ELSE @[p]]]
          /\ asTodo' = asTodo \ {f}
          /\ UNCHANGED asStage
     ELSE asStage' = "failed" /\ UNCHANGED <<asDisk, asTodo>>
  /\ UNCHANGED <<asSetup, asResult, asFresh, asChanges, asCalls>>

MaterializeEnds ==
  /\ asStage = "copy"
  /\ asTodo = {}
  /\ asStage' = "done"
  /\ UNCHANGED <<asSetup, asDisk, asResult, asTodo, asFresh, asChanges, asCalls>>

\* Plugins refer to anything, meshes to textures, other files to nothing.
MayHold(path, content) ==
  \/ path.ext = "esp"
  \/ path.ext = "nif" /\ \A r \in content : r.kind = "texture"
  \/ content = {}

\* Somebody writes, or deletes, a file of a data directory.
AssetChanges(dir, path, content) ==
  /\ asChanges < MaxAsChanges
  /\ content # NoAsset => MayHold(path, content)
  /\ asChanges' = asChanges + 1
  /\ asDisk[dir][path] # content
  /\ asDisk' = [asDisk EXCEPT ![dir][path] = content]
  /\ asFresh' = (asFresh /\ asStage # "copy")
  /\ UNCHANGED <<asSetup, asStage, asResult, asTodo, asCalls>>

AsNext ==
  \/ \E materialize \in BOOLEAN : ModResolve(materialize)
  \/ \E f \in asTodo : MaterializeFile(f)
  \/ MaterializeEnds
  \/ \E dir \in AsDirs, path \in AsPaths, content \in AsContents \cup {NoAsset} :
       AssetChanges(dir, path, content)

AsSpec == AsInit /\ [][AsNext]_asVars

-----------------------------------------------------------------------------

\* "Write a clean Data Files containing only the used assets": the directory
\* that mod_resolve made stands for itself.  To resolve the plugins in it alone
\* finds all of its files and nothing else, and misses what was missed before,
\* though a texture may be found under another extension or in another place
\* among fewer files.  It holds if the directory was empty at first (nothing
\* empties it) and no file changed while the call ran.
ClosureClosed ==
  asStage = "done" /\ asFresh =>
    LET again == ResolveModlist(asDisk, <<Dest>>, asSetup.content)
    IN  /\ again.used = {[dir |-> Dest, path |-> p] : p \in {q \in AsPaths : Has(asDisk, Dest, q)}}
        /\ again.missing = asResult.missing
=============================================================================
