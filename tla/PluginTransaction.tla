------------------------- MODULE PluginTransaction -------------------------
(***************************************************************************)
(* chim/esp/safety.py: the guard rails around every edit of a live plugin. *)
(*                                                                         *)
(* One plugin file is edited by a set of transactions (`transaction`,      *)
(* safety.py:567), each run by one chim process; a process runs its        *)
(* transactions one after the other (the MCP server calls its tools        *)
(* inline), several processes run concurrently.  Every call the context    *)
(* manager makes on its Host is a step, and a call that replaces a file is *)
(* two: the destination is truncated, then it holds the new bytes          *)
(* (open(path, "wb") followed by write, shutil.copyfile, WriteAllBytes).   *)
(*                                                                         *)
(* The bytes of a plugin are abstracted to the edits they hold and to      *)
(* whether they are walk-clean.                                            *)
(***************************************************************************)
EXTENDS Integers, FiniteSets

CONSTANTS
  Txns,        \* the transactions, each one use of `with transaction(...)`
  Procs,       \* the chim processes
  ProcOf,      \* which process runs a transaction
  Unverified,  \* the transactions opened with verify=False
  MaxClock,    \* bound: the last second; one for each transaction is enough
  Faults,      \* what the environment and the callers may do wrong
  Base,        \* the mark of the plugin's original content
  Editor,      \* the mark of what the Creation Kit saves
  Missing      \* the content of a path that does not exist

FaultKinds ==
  { "dirty",       \* an edit may leave bytes that are not walk-clean
    "io",          \* a call on the host may raise
    "kill",        \* a chim process may die at any point
    "timeout",     \* an ssh call may time out and take effect later
    "cleancut",    \* a torn file may happen to be walk-clean
    "blind",       \* the lock check may find no tool to ask, and see nothing
    "race",        \* the Creation Kit may open while a transaction runs
    "save",        \* the Creation Kit may save the plugin it has open
    "samesecond" } \* two backups may be named in the same second

ASSUME ProcOfAssumption == ProcOf \in [Txns -> Procs]
ASSUME UnverifiedAssumption == Unverified \subseteq Txns
ASSUME MaxClockAssumption == MaxClock \in Nat
ASSUME FaultsAssumption == Faults \subseteq FaultKinds
ASSUME MarksAssumption == Base \notin Txns /\ Editor \notin Txns /\ Base # Editor

Marks == Txns \cup {Base, Editor}
Content == [edits : SUBSET Marks, clean : BOOLEAN]

ASSUME MissingAssumption == Missing \notin Content

VARIABLES
  file,     \* the bytes at the plugin's path
  bak,      \* the backups beside it, by the second in their name
  clock,    \* the last second a backup was named in (BACKUP_TIMESTAMP_FMT)
  pc,       \* where each transaction is, or how it ended
  data,     \* _Txn.data: the bytes each transaction holds
  stamp,    \* the second in the name of each transaction's backup
  late,     \* the remote command that outlives the ssh call that sent it
  running,  \* a process of LOCK_PROCESSES is running
  copy      \* the plugin as the Creation Kit holds it in memory

vars == <<file, bak, clock, pc, data, stamp, late, running, copy>>

Stamps == 1 .. MaxClock
NoStamp == 0

Original == [edits |-> {Base}, clean |-> TRUE]

\* What a path holds between the truncation and the last byte.
Torn ==
  { [edits |-> {}, clean |-> c] :
      c \in {FALSE} \cup (IF "cleancut" \in Faults THEN {TRUE} ELSE {}) }

\* The steps between two host calls, and the ways a transaction ends.
Active == { "exists", "copy", "copying", "read", "body", "write", "writing",
            "check", "restore", "restoring", "recheck" }
Ended == { "locked",      \* LockError
           "absent",      \* FileNotFoundError
           "raised",      \* the body raised
           "failed",      \* a host call raised, before the rollback
           "committed",   \* the context manager returned
           "restored",    \* TransactionError(restored=True)
           "unrestored",  \* TransactionError(restored=False)
           "killed" }     \* the process died

\* A call in flight that replaces a file.
Replacing == {"copy", "copying", "write", "writing", "restore", "restoring"}
LateKinds == {"none", "copy", "write", "restore"}

TypeOK ==
  /\ file \in Content \cup {Missing}
  /\ bak \in [Stamps -> Content \cup {Missing}]
  /\ clock \in Stamps \cup {NoStamp}
  /\ pc \in [Txns -> {"idle"} \cup Active \cup Ended]
  /\ data \in [Txns -> Content \cup {Missing}]
  /\ stamp \in [Txns -> Stamps \cup {NoStamp}]
  /\ late \in [Txns -> LateKinds]
  /\ running \in BOOLEAN
  /\ copy \in Content \cup {Missing}

\* The path names a walk-clean plugin, or no file at all.
Init ==
  /\ file \in {Original, Missing}
  /\ bak = [s \in Stamps |-> Missing]
  /\ clock = NoStamp
  /\ pc = [t \in Txns |-> "idle"]
  /\ data = [t \in Txns |-> Missing]
  /\ stamp = [t \in Txns |-> NoStamp]
  /\ late = [t \in Txns |-> "none"]
  /\ running \in BOOLEAN
  /\ copy = IF running THEN file ELSE Missing

Goto(t, from, to) ==
  /\ pc[t] = from
  /\ pc' = [pc EXCEPT ![t] = to]

-----------------------------------------------------------------------------
(* Mutants: what a step would be with a bug that a property must catch.    *)

\* The lock check is skipped.
LockCheckSkipped(t) ==
  /\ \A u \in Txns \ {t} : ProcOf[u] = ProcOf[t] => pc[u] \notin Active
  /\ Goto(t, "idle", "exists")
  /\ UNCHANGED <<file, bak, clock, data, stamp, late, running, copy>>

\* Transactions of one process overlap.
LockCheckOverlapping(t) ==
  /\ Goto(t, "idle", IF running THEN "locked" ELSE "exists")
  /\ UNCHANGED <<file, bak, clock, data, stamp, late, running, copy>>

\* backup does not test that the path exists.
NameBackupUnchecked(t) ==
  /\ Goto(t, "exists", "copy")
  /\ clock' \in Stamps /\ clock' = clock + 1
  /\ stamp' = [stamp EXCEPT ![t] = clock']
  /\ UNCHANGED <<file, bak, data, late, running, copy>>

\* Every backup has the same name.
NameBackupFixed(t) ==
  /\ file # Missing
  /\ Goto(t, "exists", "copy")
  /\ clock' = 1
  /\ stamp' = [stamp EXCEPT ![t] = 1]
  /\ UNCHANGED <<file, bak, data, late, running, copy>>

\* The copy is started and not waited for.
BackupBeginAsync(t) ==
  /\ Goto(t, "copy", "read")
  /\ \E c \in Torn : bak' = [bak EXCEPT ![stamp[t]] = c]
  /\ UNCHANGED <<file, clock, data, stamp, late, running, copy>>

\* The result is not verified.
VerifySkipped(t) ==
  /\ Goto(t, "check", "committed")
  /\ UNCHANGED <<file, bak, clock, data, stamp, late, running, copy>>

\* A dirty result is reported and not rolled back.
VerifyOnly(t) ==
  /\ Goto(t, "check", IF file.clean THEN "committed" ELSE "restored")
  /\ UNCHANGED <<file, bak, clock, data, stamp, late, running, copy>>

\* A rollback that does not verify is tried again.
RestoreRetried(t) ==
  /\ Goto(t, "recheck", IF file.clean THEN "restored" ELSE "restore")
  /\ UNCHANGED <<file, bak, clock, data, stamp, late, running, copy>>

-----------------------------------------------------------------------------
(* The steps of a transaction.                                             *)

\* The process runs no other transaction.
Free(t) == \A u \in Txns \ {t} : ProcOf[u] = ProcOf[t] => pc[u] \notin Active

\* lock_check, once, when the context is entered.
LockCheck(t) ==
  /\ Free(t)
  /\ \E seen \in {running} \cup (IF "blind" \in Faults THEN {FALSE} ELSE {}) :
       Goto(t, "idle", IF seen THEN "locked" ELSE "exists")
  /\ UNCHANGED <<file, bak, clock, data, stamp, late, running, copy>>

\* backup: the path must exist, and datetime.now() names the copy.  Time does
\* not go back; seconds in which no backup is named are left out.
NameBackup(t) ==
  /\ pc[t] = "exists"
  /\ \/ /\ file = Missing
        /\ pc' = [pc EXCEPT ![t] = "absent"]
        /\ UNCHANGED <<clock, stamp>>
     \/ /\ file # Missing
        /\ pc' = [pc EXCEPT ![t] = "copy"]
        /\ clock' \in Stamps
        /\ clock' = clock + 1 \/ ("samesecond" \in Faults /\ clock' = clock)
        /\ stamp' = [stamp EXCEPT ![t] = clock']
  /\ UNCHANGED <<file, bak, data, late, running, copy>>

BackupBegin(t) ==
  /\ Goto(t, "copy", "copying")
  /\ \E c \in Torn : bak' = [bak EXCEPT ![stamp[t]] = c]
  /\ UNCHANGED <<file, clock, data, stamp, late, running, copy>>

BackupEnd(t) ==
  /\ Goto(t, "copying", "read")
  /\ bak' = [bak EXCEPT ![stamp[t]] = file]
  /\ UNCHANGED <<file, clock, data, stamp, late, running, copy>>

\* original = host.read_file(path): a second read, after the copy's own.
ReadOriginal(t) ==
  /\ Goto(t, "read", "body")
  /\ data' = [data EXCEPT ![t] = file]
  /\ UNCHANGED <<file, bak, clock, stamp, late, running, copy>>

\* The body parses txn.data, which fails on bytes that are not walk-clean,
\* edits the tree and assigns the serialized result.
BodyEdits(t) ==
  /\ Goto(t, "body", "write")
  /\ data[t].clean
  /\ \E c \in {TRUE} \cup (IF "dirty" \in Faults THEN {FALSE} ELSE {}) :
       data' = [data EXCEPT ![t] =
                  [edits |-> data[t].edits \cup {t}, clean |-> c]]
  /\ UNCHANGED <<file, bak, clock, stamp, late, running, copy>>

BodyRaises(t) ==
  /\ Goto(t, "body", "raised")
  /\ UNCHANGED <<file, bak, clock, data, stamp, late, running, copy>>

WriteBegin(t) ==
  /\ Goto(t, "write", "writing")
  /\ file' \in Torn
  /\ UNCHANGED <<bak, clock, data, stamp, late, running, copy>>

WriteEnd(t) ==
  /\ Goto(t, "writing", IF t \in Unverified THEN "committed" ELSE "check")
  /\ file' = data[t]
  /\ UNCHANGED <<bak, clock, data, stamp, late, running, copy>>

\* verify_fn(host.read_file(path)): the bytes on disk, whoever wrote them.
Verify(t) ==
  /\ Goto(t, "check", IF file.clean THEN "committed" ELSE "restore")
  /\ UNCHANGED <<file, bak, clock, data, stamp, late, running, copy>>

RestoreBegin(t) ==
  /\ Goto(t, "restore", "restoring")
  /\ file' \in Torn
  /\ UNCHANGED <<bak, clock, data, stamp, late, running, copy>>

RestoreEnd(t) ==
  /\ Goto(t, "restoring", "recheck")
  /\ file' = bak[stamp[t]]
  /\ UNCHANGED <<bak, clock, data, stamp, late, running, copy>>

VerifyRestored(t) ==
  /\ Goto(t, "recheck", IF file.clean THEN "restored" ELSE "unrestored")
  /\ UNCHANGED <<file, bak, clock, data, stamp, late, running, copy>>

-----------------------------------------------------------------------------
(* What may go wrong.                                                      *)

\* An exception of a host call: the `try` covers only the rollback.
Raised(t) == IF pc[t] \in {"restore", "restoring", "recheck"}
             THEN "unrestored" ELSE "failed"

HostRaises(t) ==
  /\ "io" \in Faults
  /\ pc[t] \in Active \ {"body"} \/ (pc[t] = "idle" /\ Free(t))
  /\ pc' = [pc EXCEPT ![t] = Raised(t)]
  /\ UNCHANGED <<file, bak, clock, data, stamp, late, running, copy>>

\* subprocess.TimeoutExpired: the remote PowerShell may still be running.
HostTimesOut(t) ==
  /\ "timeout" \in Faults
  /\ pc[t] \in Replacing
  /\ pc' = [pc EXCEPT ![t] = Raised(t)]
  /\ late' = [late EXCEPT ![t] =
                CASE pc[t] \in {"copy", "copying"} -> "copy"
                  [] pc[t] \in {"write", "writing"} -> "write"
                  [] pc[t] \in {"restore", "restoring"} -> "restore"]
  /\ UNCHANGED <<file, bak, clock, data, stamp, running, copy>>

LateCommandRuns(t) ==
  /\ late' = [late EXCEPT ![t] = "none"]
  /\ \/ /\ late[t] = "copy"
        /\ bak' = [bak EXCEPT ![stamp[t]] = file]
        /\ UNCHANGED file
     \/ /\ late[t] = "write"
        /\ file' = data[t]
        /\ UNCHANGED bak
     \/ /\ late[t] = "restore"
        /\ file' = bak[stamp[t]]
        /\ UNCHANGED bak
  /\ UNCHANGED <<clock, pc, data, stamp, running, copy>>

ProcessDies(t) ==
  /\ "kill" \in Faults
  /\ pc[t] \in Active
  /\ pc' = [pc EXCEPT ![t] = "killed"]
  /\ UNCHANGED <<file, bak, clock, data, stamp, late, running, copy>>

-----------------------------------------------------------------------------
(* The environment: the Creation Kit or the game, which the code knows     *)
(* only as process names.                                                  *)

\* It loads the plugin if it can be loaded.
EditorOpens ==
  /\ ~running
  /\ "race" \in Faults \/ \A t \in Txns : pc[t] \notin Active
  /\ running' = TRUE
  /\ copy' = IF file \in Content /\ file.clean THEN file ELSE Missing
  /\ UNCHANGED <<file, bak, clock, pc, data, stamp, late>>

\* It writes back what it holds in memory.  Bound: once in a behaviour.
EditorSaves ==
  /\ "save" \in Faults
  /\ running
  /\ copy # Missing
  /\ Editor \notin copy.edits
  /\ copy' = [copy EXCEPT !.edits = @ \cup {Editor}]
  /\ file' = copy'
  /\ UNCHANGED <<bak, clock, pc, data, stamp, late, running>>

EditorCloses ==
  /\ running
  /\ running' = FALSE
  /\ copy' = Missing
  /\ UNCHANGED <<file, bak, clock, pc, data, stamp, late>>

-----------------------------------------------------------------------------
Step(t) ==
  \/ LockCheck(t) \/ NameBackup(t) \/ BackupBegin(t) \/ BackupEnd(t)
  \/ ReadOriginal(t) \/ BodyEdits(t) \/ BodyRaises(t)
  \/ WriteBegin(t) \/ WriteEnd(t) \/ Verify(t)
  \/ RestoreBegin(t) \/ RestoreEnd(t) \/ VerifyRestored(t)

Fault(t) ==
  HostRaises(t) \/ HostTimesOut(t) \/ LateCommandRuns(t) \/ ProcessDies(t)

Environment == EditorOpens \/ EditorSaves \/ EditorCloses

Next == (\E t \in Txns : Step(t) \/ Fault(t)) \/ Environment

Spec == Init /\ [][Next]_vars

\* A process that is not killed goes on, since every host call returns,
\* raises or times out.
Fairness == \A t \in Txns : WF_vars(pc[t] # "idle" /\ Step(t))

FairSpec == Spec /\ Fairness
-----------------------------------------------------------------------------
(* What the guard rails promise.                                           *)

\* Manual recovery as the documentation tells it: the plugin if it is
\* walk-clean, else the newest backup that is.
CleanBackups == {s \in Stamps : bak[s] # Missing /\ bak[s].clean}

Newest(S) == CHOOSE s \in S : \A r \in S : r <= s

Recoverable ==
  CASE file # Missing /\ file.clean -> file.edits
    [] ~(file # Missing /\ file.clean) /\ CleanBackups # {} ->
         bak[Newest(CleanBackups)].edits
    [] OTHER -> {}

\* An edit whose transaction returned survives whatever later transactions
\* do, fail to do or leave half done: it is in the plugin or in the newest
\* good backup ("committed and re-verified walk-clean, or rolled back").
CommittedRecoverable ==
  \A t \in Txns \ Unverified : pc[t] = "committed" => t \in Recoverable

\* The bytes the plugin had before the first transaction are never lost, as
\* long as nobody but chim writes it and no two backups share a second
\* ("the backup is left in place so the original is always recoverable").
OriginalRecoverable ==
  {"save", "samesecond"} \cap Faults = {} =>
    \/ file \in {Original, Missing}
    \/ \E s \in Stamps : bak[s] = Original

\* A backup whose copy has ended never changes again ("so repeated backups
\* never collide").
BackupDone(t) ==
  /\ stamp[t] # NoStamp
  /\ pc[t] \notin {"copy", "copying"}
  /\ late[t] # "copy"

FinishedBackupKept ==
  [][\A t \in Txns :
       BackupDone(t) => bak'[stamp[t]] = bak[stamp[t]]]_vars

\* What a transaction is about to overwrite is what its backup holds, so
\* that a rollback or a manual restore loses nothing.
WriteReplacesTheBackup ==
  [][\A t \in Txns :
       pc[t] = "write" /\ pc'[t] = "writing" => file = bak[stamp[t]]]_vars

\* While a locking process runs, neither the plugin nor a backup changes,
\* unless that process saves ("refuse to touch a file while the Creation
\* Kit, the CKPE loader, or the game/launcher is running").
NoTouchWhileRunning ==
  [][running => bak' = bak /\ file' \in {file, copy'}]_vars

\* Once every transaction has ended, the plugin is walk-clean: a failure
\* after the write left nothing behind ("on any failure it restores from the
\* backup and raises").
FailureRestores ==
  (\A t \in Txns : pc[t] \notin Active /\ late[t] = "none") =>
    file = Missing \/ file.clean

\* A transaction that was started ends, whatever fails.
StartedTxnEnds ==
  \A t \in Txns : pc[t] \in Active ~> pc[t] \in Ended

\* A dirty write does not stay: the plugin becomes walk-clean again, without
\* the edit, unless the transaction itself is cut short before it is done.
DirtyWriteUndone ==
  \A t \in Txns :
    pc[t] = "check" /\ ~file.clean ~>
      \/ pc[t] \in {"failed", "unrestored", "killed"}
      \/ file # Missing /\ file.clean /\ t \notin file.edits

-----------------------------------------------------------------------------
(* The inductive invariant behind OriginalRecoverable and                  *)
(* FinishedBackupKept.                                                     *)

BackedUp == Active \ {"exists", "copy", "copying"}

\* No two transactions share a backup, since the clock never turns back.
StampsApart ==
  /\ \A t \in Txns : stamp[t] <= clock
  /\ \A t, u \in Txns : t # u /\ stamp[t] # NoStamp => stamp[t] # stamp[u]

\* A transaction names its backup when it finds the plugin, and a late
\* command is all that is left of the transaction that sent it.
StampHeld ==
  \A t \in Txns :
    /\ pc[t] \in Active \ {"exists"} \/ late[t] # "none" => stamp[t] # NoStamp
    /\ pc[t] \in {"idle", "exists"} => stamp[t] = NoStamp
    /\ late[t] # "none" => pc[t] \in {"failed", "unrestored"}

\* A transaction past a call holds what that call gave it.
Present ==
  \A t \in Txns :
    /\ pc[t] \in Active \ {"exists"} \/ late[t] # "none" => file \in Content
    /\ pc[t] \in BackedUp \/ late[t] = "restore" => bak[stamp[t]] \in Content
    /\ pc[t] \in BackedUp \ {"read"} \/ late[t] = "write" => data[t] \in Content

\* Some finished backup holds the original bytes.
Saved == \E t \in Txns : BackupDone(t) /\ bak[stamp[t]] = Original

\* Nobody writes the plugin before that.
SavedFirst ==
  /\ file \in {Original, Missing} \/ Saved
  /\ \A t \in Txns :
       pc[t] \in BackedUp \/ late[t] \in {"write", "restore"} => Saved

TypeInv == TypeOK /\ StampHeld /\ Present

RecoveryInv == TypeInv /\ StampsApart /\ SavedFirst

-----------------------------------------------------------------------------
(* The abstract specification: what can be recovered is a growing set of   *)
(* edits, to which each transaction adds its own at most once.             *)

StatusOf(t) ==
  CASE pc[t] \in {"idle"} \cup Active -> "pending"
    [] pc[t] = "committed" /\ t \notin Unverified -> "applied"
    [] pc[t] \in {"locked", "absent", "raised", "restored"} -> "refused"
    [] OTHER -> "unknown"

\* The edit of a transaction that has yet to verify it is not counted.
Held == Recoverable \ {t \in Txns : pc[t] = "check"}

Abstract == INSTANCE RecoverableEdits
              WITH held <- Held, status <- [t \in Txns |-> StatusOf(t)]

RefinesRecoverableEdits == Abstract!Spec
=============================================================================
