# chim in TLA+

chim edits plugins, saves and mod installations of Skyrim and Morrowind/OpenMW
at the byte level. This directory models the parts of it whose correctness
depends on the order of steps, on failures and on what an earlier call left
behind, checks them with TLC and proves the most important results with TLAPS.

## The system

| Component | Source | State it keeps | Operations |
|---|---|---|---|
| Plugin transaction | `src/chim/esp/safety.py` | the plugin, its timestamped backups, the bytes in `_Txn.data` | `transaction`, `backup`, `lock_check` |
| Hosts | `src/chim/esp/safety.py` | none | read, write, copy, exists, running_processes; local or over ssh |
| Mod install | `src/chim/modinstall.py`, `mod_*` of `server.py` | of each game a data directory and `openmw.cfg` / `plugins.txt`; the manifests of all games in one directory | install, FOMOD install, BSA extraction, uninstall |
| Load order | `src/chim/loadorder.py` | the four axes of `openmw.cfg` | read/write axes, `topo_sort`, `sort_load_order` |
| Record tree | `src/chim/esp/records.py` | groups and records of a plugin | parse, serialize, walk |
| Plugin edits | `src/chim/esp/ops.py` (older: `edit.py`, `authoring.py`) | the tree, indexes, HEDR counts, masters | insert, clone, delete, move, flags, subrecords, scripts, masters |
| Subrecord codecs | `subrecords.py`, `fields.py`, `compression.py` | none | encode, decode |
| Papyrus driver | `src/chim/esp/papyrus.py` | a .bat and the compiled .pex | compile |
| Save engine | `src/chim/save/` | heap of script instances, change forms | info, orphans, clean |
| TES3 engine | `src/chim/tes3/` | flat list of records, NumRecords, masters | the same kind of edits, BSA reading |
| Modlock | `src/chim/modlock.py` | manifest, canon zip, server list | roll, verify |
| Asset closure | `src/chim/assets.py` | none | search, materialize |
| MCP servers | `server.py`, `server_legacy.py` | none of their own | the tools |

How they interact: a tool of a server resolves a path, opens a `transaction` on
a host and, in its body, parses the bytes, edits the tree with `ops` and assigns
the serialized result; the transaction writes and verifies it. The mod tools
work on files directly, with `safety.lock_check` and `safety.backup`. The server
runs its tools one after the other; several servers, the Creation Kit, the game
and the user share the files with no lock between them.

What is hard: a call is a sequence of file operations and may raise, time out or
die between any two; an ssh call that timed out may still take effect; the lock
check is a look at the process list, once; backups are named by the second;
manifests written by one call decide what a much later call deletes; and the
edits keep redundant data (counts, indexes, form ids, masters) that a long
sequence of legal calls must keep in agreement.

What makes each component correct:

* transaction: no committed edit and no original byte is ever out of reach; a
  dirty write is undone; nothing is touched while a locking process runs.
* mod install: the user's files and lines survive in every game; what chim added
  is listed.
* load order: the result is a permutation that loads masters first, or there is a
  cycle and nothing is written; what is registered stays listed.
* record tree and edits: ids unique and of the plugin's own index, counts right,
  no children without their parent, masters and indexes in agreement.
* fields of a record: what was written is what is read; the number of an
  occurrence that a caller was given names the field that it saw.
* TES3: the count follows the records, and the places of the masters stay.
* save engine: the cleaned copy reads back as what was meant,
  its location table is true, and its co-save is that of the same game.
* modlock: manifest, zip and server list describe the same files.
* Papyrus: a compilation that reports success left the script that was asked for.
* asset closure: the directory that was copied together needs nothing else.

## Modules

| Module | What it is |
|---|---|
| `PluginTransaction` | the transaction protocol, its faults and its environment |
| `RecoverableEdits` | the abstract specification that it implements |
| `MCPluginTransaction` | its instances for TLC |
| `PluginTransactionProofs` | theorems about it |
| `ModInstall` | install, extraction and uninstall of mods |
| `MCModInstall` | its instances for TLC |
| `ModInstallProofs` | theorems about it |
| `RecordTree` | a plugin as the edit tools find and leave it |
| `PluginEdits` | the edits of `server.py` (`esp/ops.py`, over esplib) |
| `LegacyEdits` | the edits of `server_legacy.py` (`esp/edit.py`, over chim's own tree) |
| `EditServers` | both servers on one plugin, and what must stay true |
| `MCEditServers` | its instances for TLC |
| `EditProofs` | theorems about it |
| `LoadOrder` | sorting the load order of an `openmw.cfg` |
| `MCLoadOrder` | its instances for TLC |
| `LoadOrderProofs` | theorems about it |
| `FieldLists` | operations on the fields of a record, as both servers and the TES3 engine have them |
| `RecordFields` | the edits within a record of `server.py` |
| `LegacyFields` | those of `server_legacy.py`, down to the stream of fields |
| `Tes3Plugin` | a Morrowind plugin and its edits |
| `SaveClean` | cleaning a save, next to a game that saves |
| `SaveCleanProofs` | theorems about it |
| `Modlock` | a roll and its verification, while files change |
| `PapyrusCompile` | compilations of several processes |
| `PapyrusProofs` | theorems about it |
| `AssetClosure` | resolving the assets of a mod list and copying them |
| `FileEngines` | these engines side by side, one per behaviour |
| `MCFileEngines` | their instances for TLC |
| `EngineProofs` | theorems about `Modlock`, `RecordFields`, `AssetClosure`, `Tes3Plugin`, `LegacyFields` |
| `Positions` | lists that are filtered by the place of their entries |
| `OrderLemmas` | lemmas on least and greatest numbers, ranks, sublists, and sets that correspond |

### PluginTransaction

One plugin; a set of transactions, each run by a process. State: `file` and
`bak` are what is on disk, `clock` the second of the newest backup name, `pc`,
`data` and `stamp` the local state of each transaction (`stamp` stands for
`backup_path`), `late` the remote command that survives a timed out ssh call,
`running` and `copy` the Creation Kit and the plugin as it holds it.

Bytes are abstracted to the edits they hold and whether they are walk-clean. A
file that is being replaced is *torn* between truncation and last byte: it holds
no edit, and is walk-clean only by accident (fault `cleancut`).

| Action | Code |
|---|---|
| `LockCheck` | `lock_check` at the entry, LockError |
| `NameBackup`, `BackupBegin`, `BackupEnd` | `backup`: exists, name, copy |
| `ReadOriginal` | `host.read_file` into `txn.data` |
| `BodyEdits`, `BodyRaises` | the `with` block; it parses `txn.data` first, which fails on bytes that are not walk-clean |
| `WriteBegin`, `WriteEnd` | `host.write_file` |
| `Verify` | read back, `verify_fn` |
| `RestoreBegin`, `RestoreEnd`, `VerifyRestored` | the rollback in its `try` |
| `HostRaises`, `HostTimesOut`, `LateCommandRuns`, `ProcessDies` | what may go wrong with a call |
| `EditorOpens`, `EditorSaves`, `EditorCloses` | the environment (not chim's code) |

`Faults` says which disturbances an instance allows; the theorems hold for any
set of them, or name those they exclude.

Fairness: a started transaction whose next step is enabled takes one. A host
call returns, raises or (ssh) times out, and Python goes on with the next
statement. Nothing forces a transaction to start, a fault to happen or the
editor to act. A killed process takes no more steps.

`RecoverableEdits` knows neither files nor backups: a set of edits that can be
recovered, which only grows, and to which a transaction that ends as *applied*
has added its own. The refinement maps it to `Recoverable`: the edits of the
plugin if it is walk-clean, else of the newest walk-clean backup, as the
documentation tells the user to recover.

### ModInstall

A game is a data directory and a configuration; `_game_profile` knows OpenMW,
whose `openmw.cfg` has to be there and into which BSAs are extracted, and Skyrim,
whose `plugins.txt` is made where there is none. The manifests of all games are
in one directory, by the name of the mod.

By game, `data` says who wrote the file at each path (a mod, the user, nobody),
`cfg` which plugins are registered and `cfgBak` what the last backup of the
configuration holds. `manifest` is the `<name>.json` of each name, with the game
it is about, and `op` the local variables of the tool call that is running. The
lines that a manifest lists (`cfgAdded`) are told apart by game, since OpenMW's
(`content=`) and Skyrim's (`*`) are spelled differently: those of another game
that a manifest carries over match nothing. `theirs`, `theirLines` and
`disturbed` are history variables: what exists on the user's account, and whether
something happened after which the code promises no account of its files.

| Action | Code |
|---|---|
| `InstallBegins` | `mod_install` backs up, `install` reads the prior manifest of the name, whatever game it is about |
| `CopyFile` | one file of the loop of `install` or `extract_bsa_assets` |
| `Register`, `RegisterRaises` | `register_openmw` / `register_skyrim` |
| `RecordBegins`, `RecordEnds` | `open(<name>.json, "w")`, `json.dump` |
| `ExtractBegins`, `PullTexture` | `mod_extract_bsa` in its two forms |
| `UninstallBegins`, `DeleteFile` | `mod_uninstall`, the loop of `uninstall` |
| `Unregister`, `RewriteEnds` | `_remove_cfg_lines`: truncate, write back |
| `RemoveManifest` | `os.remove` of the manifest |
| `BreaksOff` | an exception or a death between two operations |
| `User...` | the user, between calls |

A configuration line is a plugin; `fallback-archive=` lines are added and
removed the same way and are not told apart. A plan is any set of files: what
the archive holds, the globs and the FOMOD options only choose it. An append to
the configuration is one step (cut short it leaves the user's lines alone).
Either configuration may be missing at first; an install into OpenMW then raises,
one into Skyrim makes the file. The lock check and `dry_run` change nothing.

`install` compares the paths of a plan with those of the manifest as they are
spelled (`modinstall.py:262`), also where the file system does not: `same` is the
part of the plan that is spelled as before. A file that is not loses its owner
just as one that the new plan leaves out, so that both are the fault `shrink`.

A name may be installed for one game and then for another: `install` reads the
manifest without a look at its game or directory, takes the files that were added
there for its own here, and writes a manifest that forgets them there. This is
the fault `crossgame`. The user's files do not survive it (`mod_cross_game`),
so that `mod_lifecycle` excludes it, and `AccountedFor` takes it for a disturbance. The games of an
instance are under one set of directories: that the settings (`CHIM_...`) name
other ones for the same manifests from one call to the next is not modelled.

Between calls the user may add, replace and delete any file and any line. What
they put at a path, or in a line, that a manifest lists as added is taken back by
the next uninstall, which compares nothing but names (`modinstall.py:705-712`);
it is not counted among `theirs` and `theirLines`, so that `UserFilesKept` and
`UserLinesKept` say nothing of it.

### RecordTree, PluginEdits, LegacyEdits, EditServers

State: `masters`, `nextObject` and `numRecords` of the header; `top`, the records
outside cells; `block`, a sub-block of cells as a list of CELL records and
children groups, each with its groups of references; `issued`, every id the
plugin ever had or was given; `answer`, what the last call was asked and what it
minted. A record is its form id: a pair of index byte and object id.

A call is one step. Each tool parses the plugin, edits the tree and assigns the
result inside a transaction; a call that raises assigns nothing. So the guard of
an action is what the code needs not to raise, and what happens to a call while
it writes is `PluginTransaction`'s.

| Action | Newer engine | Older engine (`Legacy...`) |
|---|---|---|
| `InsertRef` | `ops.insert_ref` | `esp_insert_ref`: `_alloc_form_ids`, `insert_records` |
| `CloneCluster`, `CloneDetached` | `ops.clone_cluster` with and without a cell | `edit.clone_cluster`, then `insert_records` or not |
| `CloneRecord` | `ops.clone_record` | `edit.clone_record` |
| `DeleteRecords`, `DeleteCells` | `ops.delete_...` | `edit.delete_...` |
| `AddMaster`, `RenameMaster` | `ops.add_master`, `ops.rename_master` | none |

The engines differ in three things that the model keeps: the newer one refuses
to mint when the object ids are used up, the older one starts again at 0; the
newer one puts a new persistent group before the others, the older one behind
them; and esplib counts the records whenever it writes, while the older engine
adds and subtracts. `Recount` is esplib's count (external).

`Given` are the plugins that chim starts from: form ids unique and behind the
counter, every children group behind its cell, groups in order, count right
(`WellFormed`). `Risks` names three calls after which the code promises less, so
that what it does promise can be stated: `"loose cells"` (a cell with children
is cloned, or deleted by `delete_records`), `"wrap"` (the older engine runs out
of object ids), `"miscount"` (the older `delete_cells` on a cell with children).
An instance without a risk leaves out exactly those calls.

### LoadOrder

State: `cfg` and `bak`, the `content=` lines of the `openmw.cfg` and of the
configurations in `also`, and the newest backup of each; `content`, `masters`,
`pref`, `indeg`, `heap`, `out` are the locals of `sort_load_order` and
`topo_sort`, `path` and `lines` those of `write_content`; `registered` is a
history variable, the plugins that the `openmw.cfg` ought to list.

| Action | Code |
|---|---|
| `ReadOrder` | `read_content`, `plugin_masters` of each |
| `RunMlox`, `RankWithoutMlox` | the order asked for: mlox's with the plugins it leaves out at the end, or the caller's ranks; then `topo_sort` up to its loop |
| `Pop` | one turn of `while heap` |
| `PopEnds` | the leftovers; the violations are counted in `Apply` |
| `Preview`, `Apply` | `if apply and not viol` |
| `ReadLines`, `Save`, `Truncate`, `Write` | `write_content`, once for each configuration |
| `Dies` | an exception or a death between two operations |
| `OtherRegisters`, `OtherUnregisters` | `mod_install` and `mod_uninstall` of another process |
| `UserRestores` | the backup is put back (not chim's code) |

A plugin is a model value: names are compared without case throughout. A rank is
a place in `pref`; ties are broken by name, so that the order asked for is a
permutation whatever the ranks are. A plugin is listed once. A configuration in
`also` that does not exist is skipped, as if it were not in `also`.

Others change the `openmw.cfg` before a call and while mlox runs, not within the
moments of `write_content` (there is no lock, and a change there would be lost;
no sentence of the code claims otherwise), and not during `topo_sort`, which
does not look at files. A call starts when no configuration is cut short: the
user restores it first. `Faults` allows deaths, and registrations while a call
runs; with the second, `RegisteredKept` does not hold, since the order written
is that of the list before mlox ran.

### FieldLists, RecordFields, LegacyFields

A field is `[id, sig, len, body]`; the number `id` is the model's, and tells a
field from another with the same content. The tools name a field by its signature
and the number of that occurrence; `FieldLists` says which position that is, and
where an insertion goes.

`RecordFields` is the newer engine: `EspSetSubrecord`, `EspPatchSubrecord`,
`EspInsertSubrecord`, `EspDeleteSubrecord`, `EspSetFlag`, `EspMoveRef` and
`EspSetVmad` are the tools of those names, each a step, since it runs in a
transaction. `EspGetSubrecords` lets the caller remember one entry (`rfSeen`)
for any number of calls; `rfStale` and `rfVmad` are history variables. esplib's
script data codec is external: alias scripts are written for quests, behind a
fragment block only, and fragments are read for the records that have them.

`LegacyFields` is the older engine, which keeps the bytes: `lgStream` is the
stream of fields with sizes of 16 bits (`MaxU16`) and XXXX overrides, `lgStored`
how it is stored, `lgFlags` what the header says of it. Each tool reads the
stream (`Readable`, `ParseFields`), changes the list and packs it (`StoreFields`);
`lgWanted` is a history variable, the list that the calls amount to. `lgTaint`
marks the two calls after which the code keeps no promise: a field inserted
under the name XXXX, and the compressed flag switched by hand.
`LgClearFlag` and `LgSwapModel` are functions of the library that no tool calls.

### Tes3Plugin

The header's subrecords, the count that HEDR states, and the flat list of
records, each with its subrecords. A record is found by its type and by the
first of its subrecords that holds an id, without case. A plugin may state a
wrong count (released masters do), hold two records of one id, and have a master
without its size.

### SaveClean

| Action | Code |
|---|---|
| `SaveCleanOrphans`, `CleanBeside` | `save_clean_orphans` up to the test of the paths, with an `out` and without |
| `SaveLockCheck` | `safety.lock_check` |
| `WriteCleaned`, `WriteCleanedFails` | `host.write_file` |
| `ReadCosave`, `WriteCosave`, `WriteCosaveFails` | the `try` around the co-save |
| `VerifyCleaned` | read back, `count_orphans`, the report |
| `CleanCrash` | a death, or a read that raises |
| `GameToggle`, `GameSaves` | the game (not chim's code) |

A heap as bytes is the script definitions, the headers of the instances and one
run of blocks (`rest`): that the data of the instances ends at the first id which
is no instance's is what `ParseHeap` does, so that removing the one without the
other has the effect that it has in the code. A section is its length. A path is
a file and a spelling of it; a co-save goes by the stem, which two files may
share. `svCall.base` and `raced` are history.

### Modlock

| Action | Code |
|---|---|
| `ModExport` | `mod_export`, and the refusal of Lua scripts in `build_modlock` |
| `HashContent`, `HashFiles` | the two passes of `build_modlock` |
| `AssertRollSane` | `assert_roll_sane` |
| `WriteLock`, `WriteRequired`, `WriteBundleZip` | what `roll` writes |
| `VerifyZipCrc` | `verify_zip_crc` |
| `FileChanges` | somebody else, between any two of these |

A content stands for its CRC and its SHA. `Verify` is `mod_verify`, used in
`ClientMatchesLock` as a client would use it. The files whose order in a
directory walk matters are given one (`MlWalk`).

### PapyrusCompile

`OpenBat` and `WriteBat` are the two halves of writing the batch file, `RunBat`
is cmd reading it, `CompilerEnds` the exit of the compiler; `CompileTimesOut`
leaves a compiler behind, which `LateCompilerEnds` lets finish. The batch file
is that of the host, or that of the TEMP directory that local processes share.
`disturbed` is a history variable of a call: another process wrote its batch
file, or another compiler of its script was at work. The empty list of `PcGiven`
stands for no list given. A compiled script is what it was made of: the script,
the version of the source, the directory of the API. cmd is taken to read the
batch file whole.

### AssetClosure

`ModResolve` resolves in one step: plugins, their references, the meshes among
them and their textures. `MaterializeFile` copies one file, in any order;
`asFresh` is a history variable, whether the target was empty and no file
changed.

### FileEngines

The engines above share no file with one another, so a behaviour is about one
of them, chosen at first and kept (`session`); the other variables stay at one
of their initial values. The states of the run are the sum of those of the
engines and not their product, and every one of them is explored in full.

## Runs

| Run | Instance | Question | Result |
|---|---|---|---|
| `txn_serial` | 3 transactions of one process, one with `verify=False`; dirty edits, raising calls, death anywhere, saves by the Creation Kit | is a committed edit ever lost, does a rollback restore exactly what was there, is anything touched under the editor, are dirty writes undone | holds; 445 thousand states |
| `txn_concurrent` | 2 transactions of 2 processes, also timeouts, blind lock checks, the editor opening at any time, torn files that look clean | is the original recoverable, does a finished backup ever change, does every transaction end | holds; 66 thousand states |
| `txn_same_second` | two backups in one second | do backups collide | they do |
| `txn_unhandled_failure` | one call raises | is the plugin restored on *any* failure | it is not |
| `mod_lifecycle` | 2 names; in OpenMW a plugin and a mesh, calls that break off, files that cannot be deleted, plans that shrink; with Skyrim beside it a plugin; no name in both games | are the user's files and lines of every game safe, is everything chim added listed, does every configuration change start from a backup | holds; 1.44 million states |
| `mod_cross_game` | OpenMW and Skyrim, 1 name, a plugin, installed for both | does a file of the user survive | no: the second install takes it for its own, and the uninstall deletes it |
| `mod_reinstall` | 1 name, a plan that shrinks | does a reinstall keep ownership | not of files that the new plan leaves out |
| `edit_both` | both engines, one given plugin with an override and an own cell, 2 masters, object ids to 4, no risk | are ids unique and fresh, is the count right, do children stay with their cell | holds; 124 thousand states |
| `edit_count` | the older engine deletes a cell with children | is the count right | it is too high by the groups |
| `edit_loose_cells` | the newer engine clones a cell with children | does `delete_cells` take the cell's own children | not after a clone |
| `load_order` | 3 plugins, every list and graph of masters, any order asked for, 2 configurations, uninstalls and deaths | do masters come first, is only a cycle refused, is a valid preference followed, what do configurations list afterwards | holds; 120 thousand states (up to symmetry) |
| `file_engines` | the seven engines; see below | do the files that the engines write read back as what was meant, while others write theirs | holds; 227 thousand states (up to symmetry) |

The bounds. Three serial transactions are one that commits, one that fails or is
left half done over it, and one that finds what the second left; `MaxClock`
gives each its own second. Two concurrent ones are enough for every pair of
interleaved steps, and what must hold for more is proved. The Creation Kit saves
once (`EditorSaves`). Two names and two paths give every way in which a file can
pass from the user to a mod, to another mod and back; a mesh and a plugin are
needed because only a plugin has a line. The constraint `OneGameOrOneFile` keeps
the product of games and paths in bounds: states with something in Skyrim have no
mesh, and end at a disturbance. What can go wrong with two games is that the game
of a step is the wrong one, not the path; what a disturbance does, it does to one
game, by the same operations as in OpenMW. The names are symmetric. Deadlock is
checked in every run of these.

The given plugin of the edit runs has a cell with a temporary group only (a
persistent one has to be made), one with a persistent group, one without
children and a record outside cells, all of them the plugin's own or overrides;
the object ids last for three mints and calls ask for up to two ids, so that
ids are used up, left detached, deleted and minted again under another index.
`VIEW` leaves `answer` out of the states: no step depends on it, and the action
properties are evaluated on every step before it is dropped.

Three plugins give a cycle of two and of three, a plugin above a cycle, a chain
and a diamond's half. The graphs are all those without a plugin that names
itself, and those in which plugins name nothing but themselves. The other
configuration lists two of the plugins, the other way round. One call is enough
because a call keeps nothing but the configurations and their backups, and the
given ones, with the changes of others, already come in every form. The plugins
are symmetric.

`CommittedRecoverable`, `WriteReplacesTheBackup`, `NoTouchWhileRunning` and the
refinement are claimed for one process and an editor that stays closed during a
transaction. That is what the code supports: the lock check looks only for the
editor and only once, and two chim processes are not kept apart. With them apart
the claims fail, as one expects of a read, a write and no lock.

The instances of `file_engines`:

* saves: three files, two of which have one stem, two spellings, three heaps (an
  orphan of each kind, a stub that the game itself defines, an instance without
  a block, a block order that is not that of the headers), two calls and a save
  of the game in between;
* newer fields: a quest and a reference, three fields, one insertion; two
  contents, so that a hit on the wrong field shows; the compressed flag is the
  only one, since it is the only one that edits look at;
* older fields: sizes to 2, so that 3 needs an override; records with and without
  one, plain and compressed, four fields, one insertion, a donor with a model
  that needs an override and a field that the target lacks;
* Morrowind plugins: an empty one, one with two records of one id that states a
  wrong count, one whose first master has no size and is followed by something
  else; two calls, so that one meets what another left, a duplicate or a record
  without an id;
* rolls: four load orders and search paths, a plugin in two directories, in two
  spellings and nowhere, a Lua script, two editions of a vanilla master, one
  change at any moment, two rolls into one directory;
* compilations: two processes, with one batch file or two, two scripts, two
  versions, two calls;
* assets: two directories in both orders, a texture and an icon of one name under
  two extensions, a sound at two places, a plugin in a subdirectory, one change,
  two calls into one target.

The spellings of a path and the contents of fields of the newer engine are
symmetric: nothing orders them and no constant names one of them. The sessions
stop when their calls are used up, so that deadlock is not checked in this run.

The violations are disagreements between a sentence of the documentation and the
code; PROJECT.json quotes them.

## Proofs

All for any number of transactions, processes, mods, files and plugins.

`PluginTransactionProofs`:

* `AlwaysTypeInv`: `TypeInv`, that is `TypeOK` strengthened by `StampHeld` and
  `Present`: a transaction that is past a call holds what the call gave it, and
  a late command is all that is left of the transaction that sent it. Inductive
  as it stands.
* `BackupsNeverOverwritten`: if no two backups are named in the same second,
  `FinishedBackupKept`. From `StampsApart` (stamps differ and none is ahead of
  the clock), which only `NameBackup` disturbs.
* `OriginalNeverLost`: `[]OriginalRecoverable`, with any number of processes. The
  inductive invariant `RecoveryInv` adds `SavedFirst`: until some finished backup
  holds the original, nobody has written the plugin. `OriginalRecoverable` alone
  is not inductive, since it does not say *which* backup holds the original nor
  that no late copy is about to replace it.
* `NothingTouchedWhileRunning`: `NoTouchWhileRunning`, if no query is blind, the
  editor does not open between query and access, and no command takes effect late.
  The invariant is `Quiet` with `NoneLate`: while the editor is open, nobody is past
  the query, and no command is late.
* `WrittenOverItsBackup`: `WriteReplacesTheBackup`, for one process (`OneProcess`), an
  editor that nobody saves from while a transaction runs (`EditorKept`) and no late
  command. From `SoloInv` (one transaction is under way at most, and what the editor
  holds is what the file is) and `ReadIsBackup`.
* `TransactionsRefine`: `RefinesRecoverableEdits`, under the same hypotheses and
  without two backups in one second or a torn file that looks clean
  (`OrderlyFaults`). The invariant `StageInv` says of each stage of a transaction what
  the plugin, its backup and the bytes in memory are to each other; from it
  each step is shown to be a report of the abstract specification or a stutter.
* `CommittedNeverLost`: `CommittedRecoverable`, by way of the refinement: the
  abstract specification keeps what was committed in the plugin or in a backup.
  It is not proved for several processes because it is false of them.

`ModInstallProofs`:

* `AlwaysTypeOK`.
* `UserFilesNeverDeleted`: `[]UserFilesKept`, from `FilesInv`: nothing of the
  user's is among the files that a manifest, or the call in progress, owns in that
  game. For any number of games, as long as no name goes from one to another
  (`OneGamePerName`); so are the two that follow from `OwnershipInv`,
  `UserLinesNeverRemoved` and `OwnershipNeverWrong`. Without it `FilesInv` is not
  invariant: an install for another game begins with files of the user's that it
  owns (`mod_cross_game`).
* `ConfigAlwaysBackedUp`: `ConfigBackedUp`, from `BackupInv`.
* `UserLinesNeverRemoved`: `[]UserLinesKept`, from `LinesInv` and `BackupInv`: the
  second is needed for the moment when the configuration is truncated.
* `OwnershipNeverWrong`: the conjunction `OwnershipInv`.
* `NothingUnaccounted`: `[]AccountedFor`, without a hypothesis on the faults, since
  what the code gives no account of is `disturbed`: an install that broke off, a
  file that could not be deleted, a manifest that was replaced by one that lists
  less or is about another game. `AccountInv` says of a call that copies that
  what it has put down is in what its manifest will be (`TakesOver`), of an uninstall
  that what its manifest claims is gone or still to go (`TakesAway`).

`EditProofs`:

* `MintedIdsFresh`: `FreshIds` for every given plugin, any number of masters and
  ids, and both engines together, as long as the older one does not wrap. The
  inductive invariant `MintInv` says that every id ever issued is of an index up
  to the plugin's own and, if of the plugin's own, below the counter: `issued`
  must be in it, since the records of the tree say nothing of what was deleted
  or left detached.
* `NoIdTwice`: `IdsUnique`, from `MintInv` and `TreeInv` (no id stands at two places
  of the tree, and every id of the tree has been issued): an id that is new to
  `issued` is new to the tree.
* `CountStaysRight`: `CountRight`. The newer engine counts again; for the older one,
  lemmas say how many records and groups each edit of the tree adds or takes.
  Unless ids wrap, or the older engine deletes cells with children (`Risks` without
  "wrap" and "miscount").
* `ChildrenStayBehind`, `DeletedWithTheirOwn`: `ChildrenBehindCell` and
  `OwnChildrenGo`, as long as no cell with children is cloned or deleted without
  them (`Risks` without "wrap" and "loose cells").
* `GroupsKeepTheirOrder`: `OrderKept`.

`LoadOrderProofs` (for every list, every graph of masters, every preference and any
number of configurations and calls; the first three together by the invariant
`SortInv`):

* `MastersAlwaysFirst`: `[]MastersFirst`. Needs `HeapInv`, which says what the
  counts and the heap are in terms of what has left it: the heap is exactly what
  waits for nothing else, and the count of a plugin is that of the masters that
  are still to come. A turn of the loop that only knows `MastersFirst` could not
  tell that a plugin whose count falls to 0 is ready.
* `SortFailsForCyclesOnly`: `[]OnlyCyclesRefused`. When the heap is empty, the
  plugins that are left wait for each other, which is a cycle, and the first of
  them comes before one of its masters. The other way round `CyclesWait` is the
  invariant: nothing of a cycle ever leaves the heap.
* `ValidPreferenceIsKept`: `[]PreferenceKept`, from `PrefInv`: so far the new order
  is a prefix of the one asked for, and the next of that is in the heap
  (`NextIsReady`).
* `WrittenAlwaysLoads`: `WrittenOrderLoads`, from `OrderInv` (what is about to be
  written puts masters first) and `KeptInOrder`: taking lines away, whichever,
  breaks no order.
* `RegisteredNeverLost`: `[]RegisteredKept` if nothing is registered while an order
  is computed. `HeldInv` adds what the call holds at each stage (its lists have
  all that is registered, and when it writes `Main`, exactly that), and `TornInv`
  that no other configuration than the one being written is cut short during a
  call: otherwise a backup could be made of such a list.
* `AlwaysTypeOK`, from the same `TornInv`, and `ShapeInv` for the heap.

`SaveCleanProofs` (for all files, spellings, heaps, and however the game saves):

* `CopiedCosaveMatches`: `[]CosaveMatches`. The inductive invariant `PairInv` adds
  `CallPaired`, what a call holds at each of its stages: unless the game saved
  meanwhile, the save that it writes is of the same game as the co-save it read.
  `CosaveMatches` is about the report alone, and says nothing of a call that has
  not returned.
* `CopyReadsBack`: `[]CleanedReadsBack`, from `BackInv`. The place at which `ParseHeap`
  cuts the rest of a heap exists and is the only one, so that what was put
  together is cut up at the place where it was; the blocks that are no orphan's
  are a sublist of those that were there.
* `OffsetsStayTrue`: `[]OffsetsTrue`, from `PlacedInv`, which has the same of every save
  and of the cleaned copy that the call under way holds. `StartsFollow` unrolls the
  recursive function `StartOf`, which adds up the ten sections.

`EngineProofs`:

* `ShipsEnforced`: `[]RollShipsEnforced`, and `ClientHasWhatIsListed`:
  `[]ClientMatchesLock`. `RollInv` says what each pass leaves for the check: the list
  accepts the checksums of the manifest, and past the first check every plugin is
  in a bundle directory, then in the zip, unless it was deleted. `ClientInv` ties
  zip, manifest and files together, but for what changed meanwhile. That a place
  is found at all takes a last directory of the search path (`OrderLemmas`).
* `VmadStaysKept`: `[]VmadKept`. `VmadInv` says that the *first* VMAD field has what
  was set. It needs the fields to be a list, and what is put in front of the first
  VMAD to be none.
* `SeenIsHit`: `ViewedOccurrenceHit`, from `SeenInv`: the ids of the fields differ, and
  the field that was seen has the number that it was given.
* `CopyIsClosed`: `[]ClosureClosed`. `CopyInv` says that the target has what was
  copied so far, as it was in the directories it was resolved in. The rest is about
  resolving: a path tells which reference it was found for (`PathTells`, `OnlyOne`),
  so that the one directory answers every reference as the many did, icons that
  stand beside textures among them (`IconBeside`).
* `CountIsRecomputed`: `CountFollows`, and `MastersKeepTheirPlace`: `MasterListKept`, from
  `T3Inv`, which only says that header and records are lists of subrecords. The
  argument is about positions: a new master goes behind every MAST and DATA
  (`BehindAll`), so that the masters of before are a prefix (`PositionFacts`).
* `StreamReadsBack`: `[]LegacyReadsBack`. `LgInv` adds that what the calls amount to is
  a list of fields none of which is called XXXX: a field that was would be taken for
  the size of the next. `PackReads` follows the stream field by field (`StreamOf`: the
  stream of the first m is cut up where it was put together, no override is open at
  its end, and the m-th of what it keeps is the m-th field); the flattening of
  a list is a function over 1 .. n, which a least counterexample shows to exist.

`PapyrusProofs` (for any number of processes, scripts and calls):

* `CompilesItsOwn`: `[]CompiledOwn`. The inductive invariant `PcInv` follows an
  undisturbed call through its stages (`Working`): its batch file holds its own
  command once it was written, and its compiler works on that command and a source
  no older than the call.

The assumptions are those of the constants: marks and placeholder values are
distinct, `Faults` names known kinds, plugins are files, a path list and a heap are
finite, the ids of a heap's instances differ, no fragment is called as the absent
one is, the extensions of textures are not those of meshes, plugins and sounds, and
no field of a given record is an XXXX.
TLC evaluates them in the runs.

Only model-checked: the liveness properties `StartedTxnEnds` and `DirtyWriteUndone`,
which need fairness, and with it ENABLED, beyond the provers used here. Every other
property of a passing run is a theorem. A theorem that
excludes a fault or a risk says so above; `txn_same_second`, `mod_cross_game`,
`edit_count` and `edit_loose_cells` show what happens with some of those.

## Not modelled

* The wording of remote commands, quoting, base64, path flavours; formatting of
  results; argument parsing of the tools.
* The byte codecs within a payload: `decode_*` and `encode_*` of `fields.py`, VMAD
  (but for the blocks it drops), zlib and lz4, NIF and BSA reading, the sections
  of a save that are carried over as they are.
* Of the plugin edits: the links of clones, weapon racks, and `insert_base_record`,
  which no tool calls; ESL plugins, for which the code says not to mint.
* Of saves: the change forms, `save_info` and `save_list_undefined`, which only
  read; the reference and array headers of the heap between the instances' headers
  and their blocks.
* Of a roll: the documents that it renders and their siblings in the directory,
  the guards that a caller may add (number of plugins, forbidden names), a bundle
  directory that does not exist, archives and ground cover.
* Of the asset closure: `exclude` and `include_sounds`; data directories inside one
  another.
* An empty list of import directories, which is not the same as none given.
* Of the load order: `write_all_axes` and the axes other than `content=`, quoting,
  the reading of mlox's output and its download; plugins listed twice.
* FOMOD option selection and archive extraction (they choose a plan).
* A clock that is set back, and disks that reorder writes.

### What the models leave as it is

Places where the code does something else than a reader of a comment may expect,
and which the properties except by name:

* An uninstall removes what the install added, "so an install is fully reversible"
  (`modinstall.py:16-17`). An install over a file of the user's keeps no copy of it,
  so that what is left at the path is the mod's file: `UserFilesKept` says that
  there is a file, not whose.
* `uninstall` goes by names: it deletes what the user has put in place of a file
  that a mod added, and the file of another mod that was installed over it.
* `save_clean_orphans` "never overwrites the original" (`server.py:1162`), by its
  docstring. The code compares two strings: on Windows another spelling of the
  original is accepted as `out`, and the original is overwritten. `SaveClean` has
  the spellings, and no property claims anything of the original: without them, it
  would restate the comparison. A co-save is overwritten where `out` differs from
  the save in the extension only.
* `tes3_add_record` says that it appends a record, "bumping HEDR.numRecords by one"
  (`server.py:1400`). It counts all records again, which is the rule of the engine
  (`tes3/ops.py:14`) and what `CountFollows` says: where the count was wrong, as in
  released masters, it becomes right and need not go up by one. In the instance of
  `file_engines` a plugin of two records states three, and still does after one was
  added.
* `roll` raises after the manifest, the list and the zip have been replaced, so a
  failed check leaves the artifacts of the failed roll in the directory. Its
  check skips what is not in the zip: a plugin that was deleted meanwhile, or that
  is in the zip under another spelling, passes.
* What a client unpacks has the documents in it, so that `mod_verify` of an
  untouched copy lists them as `extra`.
* `assets._find` and `find_plugin_file` take the first data directory that has a
  file; the docstring of `materialize_closure` (`assets.py:209-211`) says that
  later ones win, and `modlock._resolve_across` takes the last. The copy takes
  exactly the files that were resolved, so the sentence has no effect there, but
  the closure of an overridden mesh is that of the mesh that the game does not
  load.
* `materialize_closure` does not empty its target.
* A compilation whose batch file another process has just emptied returns ok.
* The older `esp_set_flag` may set the compressed flag over plain data, and the
  older `esp_insert_subrecord` takes XXXX for a signature: the record cannot be
  read any more, and the check of the transaction does not see it.
* `rename_master`, of either engine, may give a master the name of another.

## Plan

What is left, in order of importance:

1. Links of clones (XLKR, XESP) and the weapon racks of the older server.
2. `write_all_axes`, and the axes of an `openmw.cfg` that a roll reads.
3. Container parsing (`walk_clean`) over small inputs, in a module of its own, since
   it is recursive.
