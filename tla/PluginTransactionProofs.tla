----------------------- MODULE PluginTransactionProofs -----------------------
(***************************************************************************)
(* Theorems about PluginTransaction, for any number of transactions and    *)
(* processes and every combination of faults, unless one says otherwise.   *)
(***************************************************************************)
EXTENDS PluginTransaction, OrderLemmas

LEMMA ContentFacts ==
  /\ Original \in Content
  /\ Torn \subseteq Content
  /\ NoStamp \notin Stamps
  /\ Stamps \subseteq Int /\ NoStamp \in Int
  /\ Missing \notin Content
<1>1. Original \in Content
  BY DEF Original, Content, Marks
<1>2. Torn \subseteq Content
  <2> SUFFICES ASSUME NEW c \in BOOLEAN
               PROVE  [edits |-> {}, clean |-> c] \in Content
    BY DEF Torn
  <2> QED BY DEF Content
<1>3. NoStamp \notin Stamps /\ Stamps \subseteq Int /\ NoStamp \in Int
  BY MaxClockAssumption DEF NoStamp, Stamps
<1> QED BY <1>1, <1>2, <1>3, MissingAssumption

LEMMA EditedContent ==
  ASSUME NEW d \in Content, NEW m \in Marks, NEW c \in BOOLEAN
  PROVE  [edits |-> d.edits \cup {m}, clean |-> c] \in Content
BY DEF Content

LEMMA InitTypeInv == Init => TypeInv
BY ContentFacts, FaultsAssumption
   DEF Init, TypeInv, TypeOK, StampHeld, Present, Active, Ended, BackedUp,
       LateKinds

LEMMA StepTypeInv ==
  ASSUME TypeInv, NEW t \in Txns, Step(t)
  PROVE  TypeInv'
<1> USE ContentFacts DEF TypeInv, TypeOK, StampHeld, Present, Active, Ended,
        BackedUp, LateKinds, Goto
<1>1. CASE LockCheck(t)
  BY <1>1 DEF LockCheck
<1>2. CASE NameBackup(t)
  BY <1>2 DEF NameBackup
<1>3. CASE BackupBegin(t)
  BY <1>3 DEF BackupBegin
<1>4. CASE BackupEnd(t)
  BY <1>4 DEF BackupEnd
<1>5. CASE ReadOriginal(t)
  BY <1>5 DEF ReadOriginal
<1>6. CASE BodyEdits(t)
  <2>1. data[t] \in Content
    BY <1>6 DEF BodyEdits
  <2>2. PICK c \in BOOLEAN :
          data' = [data EXCEPT ![t] =
                     [edits |-> data[t].edits \cup {t}, clean |-> c]]
    BY <1>6 DEF BodyEdits
  <2>3. t \in Marks
    BY DEF Marks
  <2>4. [edits |-> data[t].edits \cup {t}, clean |-> c] \in Content
    BY <2>1, <2>3, EditedContent
  <2> HIDE DEF Content
  <2>5. PICK d \in Content : data' = [data EXCEPT ![t] = d]
    BY <2>2, <2>4
  <2>6. pc' = [pc EXCEPT ![t] = "write"] /\ pc[t] = "body"
    BY <1>6 DEF BodyEdits
  <2>7. UNCHANGED <<file, bak, clock, stamp, late, running, copy>>
    BY <1>6 DEF BodyEdits
  <2> QED BY <2>5, <2>6, <2>7
<1>7. CASE BodyRaises(t)
  BY <1>7 DEF BodyRaises
<1>8. CASE WriteBegin(t)
  BY <1>8 DEF WriteBegin
<1>9. CASE WriteEnd(t)
  BY <1>9 DEF WriteEnd
<1>10. CASE Verify(t)
  BY <1>10 DEF Verify
<1>11. CASE RestoreBegin(t)
  BY <1>11 DEF RestoreBegin
<1>12. CASE RestoreEnd(t)
  BY <1>12 DEF RestoreEnd
<1>13. CASE VerifyRestored(t)
  BY <1>13 DEF VerifyRestored
<1> QED
  BY <1>1, <1>2, <1>3, <1>4, <1>5, <1>6, <1>7, <1>8, <1>9, <1>10, <1>11,
     <1>12, <1>13 DEF Step

LEMMA FaultTypeInv ==
  ASSUME TypeInv, NEW t \in Txns, Fault(t)
  PROVE  TypeInv'
<1> USE DEF TypeInv, TypeOK, StampHeld, Present, Active, Ended, BackedUp,
        LateKinds
<1>1. CASE HostRaises(t)
  BY <1>1 DEF HostRaises, Raised
<1>2. CASE HostTimesOut(t)
  BY <1>2 DEF HostTimesOut, Raised, Replacing
<1>3. CASE LateCommandRuns(t)
  BY <1>3 DEF LateCommandRuns
<1>4. CASE ProcessDies(t)
  BY <1>4 DEF ProcessDies
<1> QED
  BY <1>1, <1>2, <1>3, <1>4 DEF Fault

LEMMA EnvironmentTypeInv ==
  ASSUME TypeInv, Environment
  PROVE  TypeInv'
<1>1. CASE EditorOpens
  BY <1>1 DEF EditorOpens, TypeInv, TypeOK, StampHeld, Present
<1>2. CASE EditorSaves
  <2>1. copy' \in Content
    BY <1>2 DEF EditorSaves, TypeInv, TypeOK, Content, Marks
  <2> QED
    BY <1>2, <2>1 DEF EditorSaves, TypeInv, TypeOK, StampHeld, Present
<1>3. CASE EditorCloses
  BY <1>3 DEF EditorCloses, TypeInv, TypeOK, StampHeld, Present
<1> QED
  BY <1>1, <1>2, <1>3 DEF Environment

LEMMA StutterTypeInv == TypeInv /\ UNCHANGED vars => TypeInv'
BY DEF vars, TypeInv, TypeOK, StampHeld, Present

(***************************************************************************)
(* Type correctness, whatever goes wrong: in particular no step reads the  *)
(* bytes of a file that is not there.                                      *)
(***************************************************************************)
THEOREM AlwaysTypeInv == Spec => []TypeInv
<1>1. Init => TypeInv
  BY InitTypeInv
<1>2. TypeInv /\ [Next]_vars => TypeInv'
  BY StepTypeInv, FaultTypeInv, EnvironmentTypeInv, StutterTypeInv DEF Next
<1> QED BY <1>1, <1>2, PTL DEF Spec

\* The components of the state always have their types.
THEOREM AlwaysTypeOK == Spec => []TypeOK
<1>1. TypeInv => TypeOK
  BY DEF TypeInv
<1> QED BY <1>1, AlwaysTypeInv, PTL

-----------------------------------------------------------------------------
(* Backups, when no two are named in the same second.                      *)

LEMMA StampsApartStep ==
  ASSUME "samesecond" \notin Faults, TypeInv, StampsApart, [Next]_vars
  PROVE  StampsApart'
<1>1. CASE UNCHANGED <<clock, stamp>>
  BY <1>1 DEF StampsApart
<1>2. ASSUME NEW t \in Txns, NameBackup(t) PROVE StampsApart'
  BY <1>2 DEF NameBackup, StampsApart, TypeInv, TypeOK, Stamps, NoStamp
<1>3. UNCHANGED <<clock, stamp>> \/ \E t \in Txns : NameBackup(t)
  BY DEF Next, Step, Fault, Environment, LockCheck, BackupBegin, BackupEnd,
     ReadOriginal, BodyEdits, BodyRaises, WriteBegin, WriteEnd, Verify,
     RestoreBegin, RestoreEnd, VerifyRestored, HostRaises, HostTimesOut,
     LateCommandRuns, ProcessDies, EditorOpens, EditorSaves,
     EditorCloses, vars
<1> QED BY <1>1, <1>2, <1>3

Kept(t) ==
  BackupDone(t)' /\ bak'[stamp[t]] = bak[stamp[t]] /\ stamp'[t] = stamp[t]

\* A finished backup stays finished, and its bytes do not change.
LEMMA BackupDoneStep ==
  ASSUME TypeInv, StampsApart, [Next]_vars, NEW t \in Txns, BackupDone(t)
  PROVE  Kept(t)
<1> USE DEF Kept, TypeInv, TypeOK, StampHeld, StampsApart, BackupDone, Active
<1>1. ASSUME NEW u \in Txns, Step(u) PROVE Kept(t)
  <2>1. CASE LockCheck(u)
    BY <2>1 DEF LockCheck, Goto
  <2>2. CASE NameBackup(u)
    BY <2>2 DEF NameBackup, Goto
  <2>3. CASE BackupBegin(u)
    BY <2>3 DEF BackupBegin, Goto
  <2>4. CASE BackupEnd(u)
    BY <2>4 DEF BackupEnd, Goto
  <2>5. CASE ReadOriginal(u)
    BY <2>5 DEF ReadOriginal, Goto
  <2>6. CASE BodyEdits(u) \/ BodyRaises(u)
    BY <2>6 DEF BodyEdits, BodyRaises, Goto
  <2>7. CASE WriteBegin(u) \/ WriteEnd(u) \/ Verify(u)
    BY <2>7 DEF WriteBegin, WriteEnd, Verify, Goto
  <2>8. CASE RestoreBegin(u) \/ RestoreEnd(u) \/ VerifyRestored(u)
    BY <2>8 DEF RestoreBegin, RestoreEnd, VerifyRestored, Goto
  <2> QED
    BY <1>1, <2>1, <2>2, <2>3, <2>4, <2>5, <2>6, <2>7, <2>8 DEF Step
<1>2. ASSUME NEW u \in Txns, Fault(u) PROVE Kept(t)
  <2>1. CASE HostRaises(u)
    BY <2>1 DEF HostRaises, Raised
  <2>2. CASE HostTimesOut(u)
    BY <2>2 DEF HostTimesOut, Raised, Replacing
  <2>3. CASE LateCommandRuns(u)
    BY <2>3 DEF LateCommandRuns
  <2>4. CASE ProcessDies(u)
    BY <2>4 DEF ProcessDies
  <2> QED
    BY <1>2, <2>1, <2>2, <2>3, <2>4 DEF Fault
<1>3. ASSUME Environment PROVE Kept(t)
  BY <1>3 DEF Environment, EditorOpens, EditorSaves, EditorCloses
<1>4. CASE UNCHANGED vars
  BY <1>4 DEF vars
<1> QED BY <1>1, <1>2, <1>3, <1>4 DEF Next

(***************************************************************************)
(* No transaction, of any process, ever overwrites a backup that another   *)
(* has finished, not even with a copy that outlives its ssh call.          *)
(***************************************************************************)
THEOREM BackupsNeverOverwritten ==
  ASSUME "samesecond" \notin Faults
  PROVE  Spec => FinishedBackupKept
<1>1. Init => StampsApart
  BY DEF Init, StampsApart, NoStamp
<1>2. TypeInv /\ StampsApart /\ [Next]_vars => StampsApart'
  BY StampsApartStep
<1>3. TypeInv /\ StampsApart /\ [Next]_vars =>
        [\A t \in Txns :
           BackupDone(t) => bak'[stamp[t]] = bak[stamp[t]]]_vars
  BY BackupDoneStep DEF Kept
<1> QED
  BY <1>1, <1>2, <1>3, AlwaysTypeInv, PTL DEF Spec, FinishedBackupKept

-----------------------------------------------------------------------------
(* The original bytes, when nobody but chim writes the plugin.             *)

LEMMA SavedStep ==
  ASSUME TypeInv, StampsApart, [Next]_vars, Saved
  PROVE  Saved'
<1>1. PICK t \in Txns : BackupDone(t) /\ bak[stamp[t]] = Original
  BY DEF Saved
<1>2. Kept(t)
  BY <1>1, BackupDoneStep
<1> QED BY <1>1, <1>2 DEF Saved, Kept, Original

\* The step that ends the first backup saves the original.
LEMMA BackupEndSaves ==
  ASSUME TypeInv, SavedFirst, NEW t \in Txns, BackupEnd(t)
  PROVE  Saved \/ Saved'
<1>1. CASE Saved
  BY <1>1
<1>2. CASE ~Saved
  <2>1. file = Original
    BY <1>2, MissingAssumption
       DEF SavedFirst, BackupEnd, Goto, TypeInv, Present, Active
  <2>2. bak'[stamp'[t]] = Original
    BY <2>1 DEF BackupEnd, Goto, TypeInv, TypeOK, StampHeld, Active
  <2>3. BackupDone(t)'
    BY DEF BackupEnd, Goto, BackupDone, TypeInv, TypeOK, StampHeld, Active
  <2> QED BY <2>2, <2>3 DEF Saved, Original
<1> QED BY <1>1, <1>2

LEMMA SavedFirstStep ==
  ASSUME "save" \notin Faults,
         TypeInv, StampsApart, SavedFirst, [Next]_vars
  PROVE  SavedFirst'
<1>1. CASE Saved
  BY <1>1, SavedStep DEF SavedFirst
<1>2. CASE ~Saved
  <2> USE <1>2 DEF TypeInv, TypeOK, StampHeld, SavedFirst, Active, BackedUp
  <2>1. ASSUME NEW t \in Txns, Step(t) PROVE SavedFirst'
    <3>1. CASE BackupEnd(t)
      BY <3>1, BackupEndSaves
    <3>2. CASE LockCheck(t)
      BY <3>2 DEF LockCheck, Goto, Original
    <3>3. CASE NameBackup(t)
      BY <3>3 DEF NameBackup, Goto, Original
    <3>4. CASE BackupBegin(t)
      BY <3>4 DEF BackupBegin, Goto, Original
    <3>5. CASE ReadOriginal(t) \/ BodyEdits(t) \/ BodyRaises(t)
      BY <3>5 DEF ReadOriginal, BodyEdits, BodyRaises, Goto
    <3>6. CASE WriteBegin(t) \/ WriteEnd(t) \/ Verify(t)
      BY <3>6 DEF WriteBegin, WriteEnd, Verify, Goto
    <3>7. CASE RestoreBegin(t) \/ RestoreEnd(t) \/ VerifyRestored(t)
      BY <3>7 DEF RestoreBegin, RestoreEnd, VerifyRestored, Goto
    <3> QED
      BY <2>1, <3>1, <3>2, <3>3, <3>4, <3>5, <3>6, <3>7 DEF Step
  <2>2. ASSUME NEW t \in Txns, Fault(t) PROVE SavedFirst'
    <3>1. CASE HostRaises(t)
      BY <3>1 DEF HostRaises, Raised, Original
    <3>2. CASE HostTimesOut(t)
      BY <3>2 DEF HostTimesOut, Raised, Replacing, Original
    <3>3. CASE LateCommandRuns(t)
      BY <3>3 DEF LateCommandRuns, Original, LateKinds
    <3>4. CASE ProcessDies(t)
      BY <3>4 DEF ProcessDies, Original
    <3> QED
      BY <2>2, <3>1, <3>2, <3>3, <3>4 DEF Fault
  <2>3. ASSUME Environment PROVE SavedFirst'
    BY <2>3 DEF Environment, EditorOpens, EditorSaves, EditorCloses,
       Original
  <2>4. CASE UNCHANGED vars
    BY <2>4 DEF vars, Original
  <2> QED BY <2>1, <2>2, <2>3, <2>4 DEF Next
<1> QED BY <1>1, <1>2

LEMMA AlwaysRecoveryInv ==
  ASSUME {"save", "samesecond"} \cap Faults = {}
  PROVE  Spec => []RecoveryInv
<1>1. "save" \notin Faults /\ "samesecond" \notin Faults
  OBVIOUS
<1>2. Init => StampsApart /\ SavedFirst
  BY DEF Init, StampsApart, SavedFirst, BackedUp, Active, NoStamp
<1>3. TypeInv /\ StampsApart /\ SavedFirst /\ [Next]_vars =>
        StampsApart' /\ SavedFirst'
  BY <1>1, StampsApartStep, SavedFirstStep
<1> QED BY <1>2, <1>3, AlwaysTypeInv, PTL DEF Spec, RecoveryInv

(***************************************************************************)
(* Any number of processes may edit the plugin at once, die, time out and  *)
(* roll back over each other: its original bytes are in the file or in a   *)
(* backup at every moment.                                                 *)
(***************************************************************************)
THEOREM OriginalNeverLost == Spec => []OriginalRecoverable
<1>1. CASE {"save", "samesecond"} \cap Faults = {}
  <2>1. RecoveryInv => OriginalRecoverable
    BY DEF RecoveryInv, TypeInv, TypeOK, SavedFirst, Saved, BackupDone,
       OriginalRecoverable
  <2> QED BY <1>1, <2>1, AlwaysRecoveryInv, PTL
<1>2. CASE {"save", "samesecond"} \cap Faults # {}
  <2>1. OriginalRecoverable
    BY <1>2 DEF OriginalRecoverable
  <2> QED BY <2>1, PTL
<1> QED BY <1>1, <1>2

-----------------------------------------------------------------------------
(* Of which processes and faults the next theorems speak.                  *)

\* One process runs every transaction, so that one at most is under way.
OneProcess == \A t, u \in Txns : ProcOf[t] = ProcOf[u]

\* Whoever saves the plugin from an editor does not have it open while a
\* transaction runs: the lock check sees the editor, which does not open
\* behind it.
EditorKept == "save" \notin Faults \/ {"race", "blind"} \cap Faults = {}

Solo == \A t, u \in Txns : pc[t] \in Active /\ pc[u] \in Active => t = u

NoneLate == \A t \in Txns : late[t] = "none"

Quiet == running => \A t \in Txns : pc[t] \notin Active

\* What the editor holds is what it opened or saved.
CopyHeld == running /\ copy # Missing => copy = file /\ file.clean

LEMMA NoneLateStep ==
  ASSUME "timeout" \notin Faults, NoneLate, [Next]_vars
  PROVE  NoneLate'
<1>1. ~ \E t \in Txns : HostTimesOut(t) \/ LateCommandRuns(t)
  BY DEF NoneLate, HostTimesOut, LateCommandRuns
<1>2. UNCHANGED late
  BY <1>1 DEF Next, Step, Fault, Environment, LockCheck, NameBackup,
     BackupBegin, BackupEnd, ReadOriginal, BodyEdits, BodyRaises, WriteBegin,
     WriteEnd, Verify, RestoreBegin, RestoreEnd, VerifyRestored, HostRaises,
     ProcessDies, EditorOpens, EditorSaves, EditorCloses, vars
<1> QED BY <1>2 DEF NoneLate

\* With no command late, a step of a transaction is one it is at, and leaves
\* the others where they are.
LEMMA StepMoves ==
  ASSUME TypeInv, NoneLate, "timeout" \notin Faults,
         NEW u \in Txns, Step(u) \/ Fault(u)
  PROVE  /\ pc[u] \in Active \/ (pc[u] = "idle" /\ Free(u))
         /\ \A t \in Txns \ {u} : pc'[t] = pc[t]
         /\ UNCHANGED <<running, copy>>
<1> USE DEF TypeInv, TypeOK, NoneLate, Active, Goto
<1>1. CASE Step(u)
  BY <1>1 DEF Step, LockCheck, NameBackup, BackupBegin, BackupEnd,
     ReadOriginal, BodyEdits, BodyRaises, WriteBegin, WriteEnd, Verify,
     RestoreBegin, RestoreEnd, VerifyRestored
<1>2. CASE Fault(u)
  BY <1>2 DEF Fault, HostRaises, HostTimesOut, LateCommandRuns, ProcessDies
<1> QED BY <1>1, <1>2

LEMMA QuietStep ==
  ASSUME {"timeout", "race", "blind"} \cap Faults = {},
         TypeInv, NoneLate, Quiet, [Next]_vars
  PROVE  Quiet'
<1> USE DEF Quiet, TypeInv, TypeOK, Active
<1>1. ASSUME NEW u \in Txns, Step(u) \/ Fault(u) PROVE Quiet'
  <2> SUFFICES ASSUME running, NEW t \in Txns PROVE pc'[t] \notin Active
    BY <1>1, StepMoves
  <2>1. pc[t] \notin Active
    OBVIOUS
  <2>2. CASE t # u
    BY <1>1, <2>1, <2>2, StepMoves
  <2>3. CASE t = u
    <3>1. pc[u] = "idle"
      BY <1>1, <2>1, <2>3, StepMoves
    <3>2. LockCheck(u) \/ HostRaises(u)
      BY <1>1, <3>1 DEF Step, Fault, NameBackup, BackupBegin,
         BackupEnd, ReadOriginal, BodyEdits, BodyRaises, WriteBegin, WriteEnd,
         Verify, RestoreBegin, RestoreEnd, VerifyRestored, HostTimesOut,
         LateCommandRuns, ProcessDies, Goto, NoneLate
    <3>3. pc'[u] \in {"locked", "failed"}
      BY <3>1, <3>2 DEF LockCheck, HostRaises, Raised, Goto
    <3> QED BY <2>3, <3>3
  <2> QED BY <2>2, <2>3
<1>2. CASE Environment
  BY <1>2 DEF Environment, EditorOpens, EditorSaves, EditorCloses
<1>3. CASE UNCHANGED vars
  BY <1>3 DEF vars
<1> QED BY <1>1, <1>2, <1>3 DEF Next

(***************************************************************************)
(* Whatever the number of processes, and whatever fails or dies, nothing   *)
(* is written while a locking process runs, unless the lock check is       *)
(* blind, the editor opens behind it or a command outlives its call.       *)
(***************************************************************************)
THEOREM NothingTouchedWhileRunning ==
  ASSUME {"timeout", "race", "blind"} \cap Faults = {}
  PROVE  Spec => NoTouchWhileRunning
<1>1. Init => NoneLate /\ Quiet
  BY DEF Init, NoneLate, Quiet, Active
<1>2. TypeInv /\ NoneLate /\ Quiet /\ [Next]_vars => NoneLate' /\ Quiet'
  BY NoneLateStep, QuietStep
<1>3. TypeInv /\ NoneLate /\ Quiet /\ [Next]_vars =>
        [running => bak' = bak /\ file' \in {file, copy'}]_vars
  <2> SUFFICES ASSUME TypeInv, NoneLate, Quiet, Next, running
               PROVE  bak' = bak /\ file' \in {file, copy'}
    OBVIOUS
  <2>1. ASSUME NEW u \in Txns, Step(u) \/ Fault(u)
        PROVE  bak' = bak /\ file' = file
    <3>1. pc[u] = "idle"
      BY <2>1, StepMoves DEF Quiet
    <3> QED
      BY <2>1, <3>1 DEF Step, Fault, LockCheck, NameBackup, BackupBegin,
         BackupEnd, ReadOriginal, BodyEdits, BodyRaises, WriteBegin, WriteEnd,
         Verify, RestoreBegin, RestoreEnd, VerifyRestored, HostRaises,
         HostTimesOut, LateCommandRuns, ProcessDies, Goto, NoneLate
  <2>2. CASE Environment
    BY <2>2 DEF Environment, EditorOpens, EditorSaves, EditorCloses
  <2> QED BY <2>1, <2>2 DEF Next
<1> QED
  BY <1>1, <1>2, <1>3, AlwaysTypeInv, PTL DEF Spec, NoTouchWhileRunning

-----------------------------------------------------------------------------
(* One process.                                                            *)

EditorInv == "save" \in Faults => Quiet /\ CopyHeld

\* What a transaction has read is what its backup holds, until it writes.
ReadIsBackup ==
  \A t \in Txns : pc[t] \in {"read", "body", "write"} => bak[stamp[t]] = file

SoloInv == TypeInv /\ Solo /\ NoneLate /\ EditorInv

\* Who moves moves alone.
LEMMA MoverAlone ==
  ASSUME OneProcess, "timeout" \notin Faults, SoloInv,
         NEW u \in Txns, Step(u) \/ Fault(u)
  PROVE  \A t \in Txns \ {u} : pc[t] \notin Active /\ pc'[t] = pc[t]
BY StepMoves DEF SoloInv, Solo, Free, OneProcess

LEMMA EditorInvStep ==
  ASSUME OneProcess, EditorKept, "timeout" \notin Faults,
         SoloInv, [Next]_vars
  PROVE  EditorInv'
<1> SUFFICES ASSUME "save" \in Faults PROVE Quiet' /\ CopyHeld'
  BY DEF EditorInv
<1>1. {"timeout", "race", "blind"} \cap Faults = {}
  BY DEF EditorKept
<1>2. Quiet /\ CopyHeld /\ NoneLate /\ TypeInv
  BY DEF EditorInv, SoloInv
<1>3. Quiet'
  BY <1>1, <1>2, QuietStep
<1>4. CopyHeld'
  <2> USE <1>2 DEF CopyHeld
  <2>1. ASSUME NEW u \in Txns, Step(u) \/ Fault(u), running PROVE CopyHeld'
    <3>1. pc[u] = "idle"
      BY <2>1, <1>1, StepMoves DEF Quiet
    <3>2. UNCHANGED <<file, running, copy>>
      BY <2>1, <3>1 DEF Step, Fault, LockCheck, NameBackup, BackupBegin,
         BackupEnd, ReadOriginal, BodyEdits, BodyRaises, WriteBegin, WriteEnd,
         Verify, RestoreBegin, RestoreEnd, VerifyRestored, HostRaises,
         HostTimesOut, LateCommandRuns, ProcessDies, Goto, NoneLate
    <3> QED BY <3>2
  <2>2. ASSUME NEW u \in Txns, Step(u) \/ Fault(u), ~running PROVE CopyHeld'
    BY <2>2, <1>1, StepMoves
  <2>3. CASE EditorOpens
    BY <2>3 DEF EditorOpens
  <2>4. CASE EditorSaves
    <3>1. copy \in Content /\ copy.clean
      BY <2>4 DEF EditorSaves, TypeInv, TypeOK
    <3>2. copy'.clean
      BY <2>4, <3>1 DEF EditorSaves, Content
    <3> QED BY <2>4, <3>2 DEF EditorSaves
  <2>5. CASE EditorCloses \/ UNCHANGED vars
    BY <2>5 DEF EditorCloses, vars
  <2> QED
    BY <2>1, <2>2, <2>3, <2>4, <2>5 DEF Next, Environment
<1> QED BY <1>3, <1>4

LEMMA SoloInvStep ==
  ASSUME OneProcess, EditorKept, "timeout" \notin Faults,
         SoloInv, TypeInv', [Next]_vars
  PROVE  SoloInv'
<1>1. Solo'
  <2>1. ASSUME NEW u \in Txns, Step(u) \/ Fault(u) PROVE Solo'
    BY <2>1, MoverAlone DEF Solo
  <2>2. CASE Environment \/ UNCHANGED vars
    BY <2>2 DEF Environment, EditorOpens, EditorSaves, EditorCloses, vars,
       Solo, SoloInv
  <2> QED BY <2>1, <2>2 DEF Next
<1>2. NoneLate'
  BY NoneLateStep DEF SoloInv
<1> QED BY <1>1, <1>2, EditorInvStep DEF SoloInv

LEMMA InitSoloInv == Init => SoloInv
<1>1. Init => Solo /\ NoneLate /\ EditorInv
  <2> SUFFICES ASSUME Init PROVE Solo /\ NoneLate /\ EditorInv
    OBVIOUS
  <2>1. CopyHeld
    BY MissingAssumption DEF Init, CopyHeld, Original
  <2> QED BY <2>1 DEF Init, Solo, NoneLate, EditorInv, Quiet, Active
<1> QED BY <1>1, InitTypeInv DEF SoloInv

LEMMA ReadIsBackupStep ==
  ASSUME OneProcess, EditorKept, "timeout" \notin Faults,
         SoloInv, ReadIsBackup, [Next]_vars
  PROVE  ReadIsBackup'
<1> USE DEF ReadIsBackup
<1>1. ASSUME NEW u \in Txns, Step(u) \/ Fault(u) PROVE ReadIsBackup'
  <2> SUFFICES ASSUME NEW t \in Txns, pc'[t] \in {"read", "body", "write"}
               PROVE  bak'[stamp'[t]] = file'
    OBVIOUS
  <2>1. t = u
    BY <1>1, MoverAlone DEF Active
  <2>2. stamp[u] \in Stamps \cup {NoStamp} /\ (pc[u] = "copying" => stamp[u] \in Stamps)
    BY DEF SoloInv, TypeInv, TypeOK, StampHeld, Active
  <2>3. CASE Step(u)
    BY <2>1, <2>2, <2>3 DEF Step, LockCheck, NameBackup, BackupBegin,
       BackupEnd, ReadOriginal, BodyEdits, BodyRaises, WriteBegin, WriteEnd,
       Verify, RestoreBegin, RestoreEnd, VerifyRestored, Goto, SoloInv,
       TypeInv, TypeOK
  <2>4. CASE Fault(u)
    BY <2>1, <2>4 DEF Fault, HostRaises, HostTimesOut, LateCommandRuns,
       ProcessDies, Raised, NoneLate, SoloInv, TypeInv, TypeOK
  <2> QED BY <1>1, <2>3, <2>4
<1>2. CASE EditorSaves
  <2>1. \A t \in Txns : pc'[t] \notin Active
    BY <1>2 DEF EditorSaves, SoloInv, EditorInv, Quiet
  <2> QED BY <2>1 DEF Active
<1>3. CASE EditorOpens \/ EditorCloses \/ UNCHANGED vars
  BY <1>3 DEF EditorOpens, EditorCloses, vars
<1> QED BY <1>1, <1>2, <1>3 DEF Next, Environment

(***************************************************************************)
(* The bytes a transaction overwrites are those of its backup, although    *)
(* the copy and the read that follows it are two calls on the host.        *)
(***************************************************************************)
THEOREM WrittenOverItsBackup ==
  ASSUME OneProcess, EditorKept, "timeout" \notin Faults
  PROVE  Spec => WriteReplacesTheBackup
<1>1. Init => ReadIsBackup
  BY DEF Init, ReadIsBackup
<1>2. SoloInv /\ ReadIsBackup /\ TypeInv' /\ [Next]_vars =>
        SoloInv' /\ ReadIsBackup'
  BY SoloInvStep, ReadIsBackupStep
<1>3. ReadIsBackup =>
        [\A t \in Txns :
           pc[t] = "write" /\ pc'[t] = "writing" => file = bak[stamp[t]]]_vars
  BY DEF ReadIsBackup
<1> QED
  BY <1>1, <1>2, <1>3, InitSoloInv, AlwaysTypeInv, PTL
     DEF Spec, WriteReplacesTheBackup

-----------------------------------------------------------------------------
(* What can be recovered, as a function of the file and of the backups.    *)

IsClean(c) == c # Missing /\ c.clean

CleanOf(b) == {s \in Stamps : IsClean(b[s])}

RecoverableOf(f, b) ==
  IF IsClean(f) THEN f.edits
  ELSE IF CleanOf(b) # {} THEN b[Newest(CleanOf(b))].edits ELSE {}

LEMMA RecoverableIs ==
  /\ Recoverable = RecoverableOf(file, bak)
  /\ Recoverable' = RecoverableOf(file', bak')
<1>1. /\ CleanBackups = CleanOf(bak)
      /\ CleanBackups' = CleanOf(bak')
  BY DEF CleanBackups, CleanOf, IsClean
<1>2. /\ IsClean(file) <=> (file # Missing /\ file.clean)
      /\ IsClean(file') <=> (file' # Missing /\ file'.clean)
  BY DEF IsClean
<1>3. Recoverable = RecoverableOf(file, bak)
  <2>1. CASE file # Missing /\ file.clean
    BY <1>2, <2>1 DEF Recoverable, RecoverableOf
  <2>2. CASE ~(file # Missing /\ file.clean) /\ CleanBackups # {}
    BY <1>1, <1>2, <2>2 DEF Recoverable, RecoverableOf
  <2>3. CASE ~(file # Missing /\ file.clean) /\ CleanBackups = {}
    BY <1>1, <1>2, <2>3 DEF Recoverable, RecoverableOf
  <2> QED BY <2>1, <2>2, <2>3
<1>4. Recoverable' = RecoverableOf(file', bak')
  <2>1. CASE file' # Missing /\ file'.clean
    BY <1>2, <2>1 DEF Recoverable, RecoverableOf
  <2>2. CASE ~(file' # Missing /\ file'.clean) /\ CleanBackups' # {}
    BY <1>1, <1>2, <2>2 DEF Recoverable, RecoverableOf
  <2>3. CASE ~(file' # Missing /\ file'.clean) /\ CleanBackups' = {}
    BY <1>1, <1>2, <2>3 DEF Recoverable, RecoverableOf
  <2> QED BY <2>1, <2>2, <2>3
<1> QED BY <1>3, <1>4

LEMMA NewestIs ==
  ASSUME NEW S \in SUBSET Stamps, NEW s \in S, \A r \in S : r <= s
  PROVE  Newest(S) = s
<1>1. Newest(S) \in S /\ \A r \in S : r <= Newest(S)
  BY DEF Newest
<1>2. s \in Int /\ Newest(S) \in Int
  BY <1>1, ContentFacts
<1>3. s <= Newest(S) /\ Newest(S) <= s
  BY <1>1
<1> QED BY <1>2, <1>3

LEMMA NewestIn ==
  ASSUME NEW S \in SUBSET Stamps, S # {}
  PROVE  Newest(S) \in S
<1>1. MaxClock \in Nat /\ S \subseteq 0 .. MaxClock
  BY MaxClockAssumption DEF Stamps
<1>2. \E m \in S : \A n \in S : n <= m
  BY <1>1, GreatestNatural
<1> QED BY <1>2 DEF Newest

\* It stays while the file stays clean and holds the same edits, or stays
\* unclean and no clean backup comes, goes or changes.
LEMMA SameRecoverable ==
  ASSUME NEW f, NEW g, NEW b, NEW c,
         \/ IsClean(f) /\ IsClean(g) /\ f.edits = g.edits
         \/ /\ ~IsClean(f) /\ ~IsClean(g)
            /\ \A s \in Stamps : IsClean(b[s]) \/ IsClean(c[s]) => b[s] = c[s]
  PROVE  RecoverableOf(f, b) = RecoverableOf(g, c)
<1>1. CASE IsClean(f) /\ IsClean(g) /\ f.edits = g.edits
  BY <1>1 DEF RecoverableOf
<1>2. CASE /\ ~IsClean(f) /\ ~IsClean(g)
           /\ \A s \in Stamps : IsClean(b[s]) \/ IsClean(c[s]) => b[s] = c[s]
  <2>1. CleanOf(b) = CleanOf(c)
    BY <1>2 DEF CleanOf
  <2>2. CleanOf(b) \in SUBSET Stamps
    BY DEF CleanOf
  <2>3. CleanOf(b) # {} =>
          b[Newest(CleanOf(b))] = c[Newest(CleanOf(b))]
    BY <1>2, <2>2, NewestIn DEF CleanOf
  <2> QED BY <1>2, <2>1, <2>3 DEF RecoverableOf
<1> QED BY <1>1, <1>2

\* Without the file, it is the last backup if that one is clean.
LEMMA LastBackupRecovers ==
  ASSUME NEW f, NEW b, NEW s \in Stamps,
         ~IsClean(f), IsClean(b[s]),
         \A r \in Stamps : r > s => b[r] = Missing
  PROVE  RecoverableOf(f, b) = b[s].edits
<1>1. CleanOf(b) \in SUBSET Stamps /\ s \in CleanOf(b)
  BY DEF CleanOf
<1>2. \A r \in CleanOf(b) : r <= s
  BY ContentFacts DEF CleanOf, IsClean
<1>3. Newest(CleanOf(b)) = s
  BY <1>1, <1>2, NewestIs
<1> QED BY <1>1, <1>3 DEF RecoverableOf

-----------------------------------------------------------------------------
(* The stages of a transaction, when no two backups share a second and a   *)
(* torn file is never walk-clean.                                          *)

\* The transaction under way holds the last backup.
LastBackup ==
  /\ \A t \in Txns : pc[t] \in Active \ {"exists"} => stamp[t] = clock
  /\ \A s \in Stamps : s > clock => bak[s] = Missing

\* From the start of the write to the end of the rollback.
AtRisk == {"writing", "check", "restore", "restoring", "recheck"}

\* What the file, the backup and the bytes in memory are to each other.
Stage(t) ==
  /\ pc[t] = "copy" => bak[stamp[t]] = Missing
  /\ pc[t] = "copying" => ~IsClean(bak[stamp[t]])
  /\ pc[t] = "body" => data[t] = file
  /\ pc[t] \in {"write"} \cup AtRisk =>
       /\ bak[stamp[t]].clean
       /\ data[t].edits = bak[stamp[t]].edits \cup {t}
       /\ t \notin bak[stamp[t]].edits
  /\ pc[t] \in {"writing", "restore", "restoring"} => ~file.clean
  /\ pc[t] = "check" => file = data[t]
  /\ pc[t] = "recheck" => file = bak[stamp[t]]

Before == {"idle", "exists", "copy", "copying", "read", "body"}

\* A transaction that has yet to edit is nowhere.
Fresh ==
  \A t \in Txns :
    pc[t] \in Before =>
      /\ file # Missing => t \notin file.edits
      /\ \A s \in Stamps : bak[s] # Missing => t \notin bak[s].edits

StageInv ==
  /\ SoloInv /\ ReadIsBackup /\ LastBackup /\ Fresh
  /\ \A t \in Txns : Stage(t)

OrderlyFaults == {"timeout", "cleancut", "samesecond"} \cap Faults = {}

LEMMA LastBackupStep ==
  ASSUME OneProcess, {"timeout", "samesecond"} \cap Faults = {},
         SoloInv, LastBackup, [Next]_vars
  PROVE  LastBackup'
<1> USE ContentFacts DEF LastBackup, SoloInv, TypeInv, TypeOK, Active
<1>1. ASSUME NEW u \in Txns, Step(u) \/ Fault(u) PROVE LastBackup'
  <2>0. \A t \in Txns \ {u} : pc'[t] \notin Active
    BY <1>1, MoverAlone
  <2>1. CASE NameBackup(u)
    <3>1. CASE file = Missing
      <4>1. pc'[u] = "absent" /\ UNCHANGED <<bak, clock, stamp>>
        BY <2>1, <3>1 DEF NameBackup
      <4> QED BY <2>0, <4>1
    <3>2. CASE file # Missing
      <4>1. clock' = clock + 1 /\ stamp'[u] = clock' /\ UNCHANGED bak
        BY <2>1, <3>2 DEF NameBackup
      <4>2. \A s \in Stamps : s > clock' => s > clock
        BY <4>1
      <4> QED BY <2>0, <4>1, <4>2
    <3> QED BY <3>1, <3>2
  <2>2. CASE BackupBegin(u) \/ BackupEnd(u)
    BY <2>0, <2>2 DEF BackupBegin, BackupEnd, Goto
  <2>3. CASE ~NameBackup(u) /\ UNCHANGED <<bak, clock, stamp>>
    <3>1. pc'[u] \in Active \ {"exists"} => pc[u] \in Active \ {"exists"}
      BY <1>1, <2>3 DEF Step, LockCheck, BackupBegin, BackupEnd,
         ReadOriginal, BodyEdits, BodyRaises, WriteBegin, WriteEnd, Verify,
         RestoreBegin, RestoreEnd, VerifyRestored, Goto, Fault, HostRaises,
         HostTimesOut, LateCommandRuns, ProcessDies, Raised, NoneLate
    <3> QED BY <2>0, <2>3, <3>1
  <2>4. \/ NameBackup(u) \/ BackupBegin(u) \/ BackupEnd(u)
        \/ UNCHANGED <<bak, clock, stamp>>
    BY <1>1 DEF Step, LockCheck, ReadOriginal, BodyEdits, BodyRaises,
       WriteBegin, WriteEnd, Verify, RestoreBegin, RestoreEnd, VerifyRestored,
       Fault, HostRaises, HostTimesOut, LateCommandRuns, ProcessDies, NoneLate
  <2> QED BY <2>1, <2>2, <2>3, <2>4
<1>2. CASE Environment \/ UNCHANGED vars
  BY <1>2 DEF Environment, EditorOpens, EditorSaves, EditorCloses, vars
<1> QED BY <1>1, <1>2 DEF Next

LEMMA TornUnclean ==
  ASSUME OrderlyFaults, NEW c \in Torn
  PROVE  c \in Content /\ ~c.clean /\ c.edits = {} /\ ~IsClean(c)
<1>1. "cleancut" \notin Faults
  BY DEF OrderlyFaults
<1>2. c = [edits |-> {}, clean |-> FALSE]
  BY <1>1 DEF Torn
<1> QED BY <1>2, ContentFacts DEF IsClean

\* What a transaction under way can rely on.
LEMMA AtWork ==
  ASSUME StageInv, NEW t \in Txns, pc[t] \in Active \ {"exists"}
  PROVE  /\ stamp[t] = clock /\ stamp[t] \in Stamps
         /\ file \in Content /\ file # Missing
         /\ pc[t] \in BackedUp => bak[stamp[t]] \in Content
         /\ pc[t] \in BackedUp \ {"read"} => data[t] \in Content
<1> USE ContentFacts
    DEF StageInv, SoloInv, TypeInv, TypeOK, StampHeld, Present, LastBackup
<1>1. stamp[t] = clock /\ stamp[t] \in Stamps
  OBVIOUS
<1>2. file \in Content /\ file # Missing
  OBVIOUS
<1> QED BY <1>1, <1>2

LEMMA EndedStage ==
  ASSUME NEW t \in Txns, pc'[t] \notin Active
  PROVE  Stage(t)'
BY DEF Stage, Active, AtRisk

LEMMA StageStep ==
  ASSUME OrderlyFaults, StageInv, NEW u \in Txns, Step(u)
  PROVE  Stage(u)'
<1>0. StageInv /\ Stage(u) /\ pc \in [Txns -> {"idle"} \cup Active \cup Ended]
  BY DEF StageInv, SoloInv, TypeInv, TypeOK
<1> USE <1>0 DEF Goto, AtRisk
<1>1. CASE LockCheck(u) \/ BodyRaises(u) \/ VerifyRestored(u)
  <2>1. pc'[u] \in {"locked", "exists", "raised", "restored", "unrestored"}
    BY <1>1 DEF LockCheck, BodyRaises, VerifyRestored
  <2> QED BY <2>1 DEF Stage
<1>2. CASE NameBackup(u)
  <2>1. CASE file = Missing
    <3>1. pc'[u] = "absent"
      BY <1>2, <2>1 DEF NameBackup
    <3> QED BY <3>1 DEF Stage
  <2>2. CASE file # Missing
    <3>1. pc'[u] = "copy" /\ clock' \in Stamps /\ clock' = clock + 1
          /\ stamp'[u] = clock' /\ bak' = bak
      BY <1>2, <2>2
         DEF NameBackup, OrderlyFaults, StageInv, SoloInv, TypeInv, TypeOK
    <3>2. clock' > clock
      BY <3>1, ContentFacts DEF StageInv, SoloInv, TypeInv, TypeOK
    <3>3. bak'[stamp'[u]] = Missing
      BY <3>1, <3>2 DEF StageInv, LastBackup
    <3> QED BY <3>1, <3>3 DEF Stage
  <2> QED BY <2>1, <2>2
<1>3. CASE BackupBegin(u)
  <2>1. pc[u] = "copy" /\ pc'[u] = "copying" /\ stamp' = stamp
    BY <1>3 DEF BackupBegin
  <2>2. PICK c \in Torn : bak' = [bak EXCEPT ![stamp[u]] = c]
    BY <1>3 DEF BackupBegin
  <2>3. bak'[stamp[u]] = c
    BY <2>1, <2>2, AtWork DEF Active, SoloInv, TypeInv, TypeOK, StageInv
  <2> QED BY <2>1, <2>3, TornUnclean DEF Stage
<1>4. CASE BackupEnd(u)
  <2>1. pc'[u] = "read"
    BY <1>4 DEF BackupEnd
  <2> QED BY <2>1 DEF Stage
<1>5. CASE ReadOriginal(u)
  <2>1. pc'[u] = "body" /\ data'[u] = file /\ file' = file
    BY <1>5 DEF ReadOriginal, StageInv, SoloInv, TypeInv, TypeOK
  <2> QED BY <2>1 DEF Stage
<1>6. CASE BodyEdits(u)
  <2>1. /\ pc[u] = "body" /\ pc'[u] = "write" /\ data[u].clean
        /\ UNCHANGED <<file, bak, stamp>>
    BY <1>6 DEF BodyEdits
  <2>2. data'[u].edits = data[u].edits \cup {u}
    BY <1>6 DEF BodyEdits, StageInv, SoloInv, TypeInv, TypeOK
  <2>3. data[u] = file /\ bak[stamp[u]] = file
    BY <2>1 DEF Stage, StageInv, ReadIsBackup
  <2>4. u \notin file.edits
    BY <2>1, AtWork DEF StageInv, Fresh, Before, Active
  <2> QED BY <2>1, <2>2, <2>3, <2>4 DEF Stage
<1>7. CASE WriteBegin(u)
  <2>1. /\ pc[u] = "write" /\ pc'[u] = "writing" /\ file' \in Torn
        /\ UNCHANGED <<data, bak, stamp>>
    BY <1>7 DEF WriteBegin
  <2> QED BY <2>1, TornUnclean DEF Stage
<1>8. CASE WriteEnd(u)
  <2>1. /\ pc[u] = "writing" /\ pc'[u] \in {"committed", "check"}
        /\ file' = data[u]
        /\ UNCHANGED <<data, bak, stamp>>
    BY <1>8 DEF WriteEnd
  <2> QED BY <2>1 DEF Stage
<1>9. CASE Verify(u)
  <2>1. /\ pc[u] = "check" /\ UNCHANGED <<file, data, bak, stamp>>
        /\ pc'[u] = IF file.clean THEN "committed" ELSE "restore"
    BY <1>9 DEF Verify
  <2> QED BY <2>1 DEF Stage
<1>10. CASE RestoreBegin(u)
  <2>1. /\ pc[u] = "restore" /\ pc'[u] = "restoring" /\ file' \in Torn
        /\ UNCHANGED <<data, bak, stamp>>
    BY <1>10 DEF RestoreBegin
  <2> QED BY <2>1, TornUnclean DEF Stage
<1>11. CASE RestoreEnd(u)
  <2>1. /\ pc[u] = "restoring" /\ pc'[u] = "recheck"
        /\ file' = bak[stamp[u]]
        /\ UNCHANGED <<data, bak, stamp>>
    BY <1>11 DEF RestoreEnd
  <2> QED BY <2>1 DEF Stage
<1> QED
  BY <1>1, <1>2, <1>3, <1>4, <1>5, <1>6, <1>7, <1>8, <1>9, <1>10, <1>11
     DEF Step

LEMMA FreshStep ==
  ASSUME OneProcess, EditorKept, OrderlyFaults, StageInv, [Next]_vars
  PROVE  Fresh'
<1>0. "timeout" \notin Faults /\ SoloInv /\ NoneLate
  BY DEF OrderlyFaults, StageInv, SoloInv
<1>1. ASSUME NEW u \in Txns, Step(u) \/ Fault(u) PROVE Fresh'
  <2>1. \A t \in Txns : pc'[t] \in Before => pc[t] \in Before
    <3>1. pc'[u] \in Before => pc[u] \in Before
      BY <1>0, <1>1 DEF Before, Step, LockCheck, NameBackup, BackupBegin,
         BackupEnd, ReadOriginal, BodyEdits, BodyRaises, WriteBegin, WriteEnd,
         Verify, RestoreBegin, RestoreEnd, VerifyRestored, Goto, Fault,
         HostRaises, HostTimesOut, LateCommandRuns, ProcessDies, Raised,
         NoneLate, SoloInv, TypeInv, TypeOK
    <3> QED BY <1>0, <1>1, <3>1, MoverAlone
  <2> SUFFICES ASSUME NEW t \in Txns, pc'[t] \in Before
               PROVE  /\ file' # Missing => t \notin file'.edits
                      /\ \A s \in Stamps : bak'[s] # Missing =>
                                             t \notin bak'[s].edits
    BY DEF Fresh
  <2>2. /\ file # Missing => t \notin file.edits
        /\ \A s \in Stamps : bak[s] # Missing => t \notin bak[s].edits
    BY <2>1 DEF StageInv, Fresh
  <2>3. bak \in [Stamps -> Content \cup {Missing}]
    BY <1>0 DEF SoloInv, TypeInv, TypeOK
  <2>4. CASE BackupBegin(u)
    <3>1. PICK c \in Torn : bak' = [bak EXCEPT ![stamp[u]] = c]
      BY <2>4 DEF BackupBegin
    <3>2. file' = file
      BY <2>4 DEF BackupBegin
    <3> QED BY <2>2, <2>3, <3>1, <3>2, TornUnclean
  <2>5. CASE BackupEnd(u)
    BY <2>2, <2>3, <2>5 DEF BackupEnd
  <2>6. CASE WriteBegin(u) \/ RestoreBegin(u)
    <3>1. file' \in Torn /\ bak' = bak
      BY <2>6 DEF WriteBegin, RestoreBegin
    <3> QED BY <2>2, <3>1, TornUnclean
  <2>7. CASE WriteEnd(u)
    <3>1. pc[u] = "writing" /\ pc'[u] \notin Before /\ bak' = bak
          /\ file' = data[u]
      BY <2>7, <1>0 DEF WriteEnd, Goto, Before, SoloInv, TypeInv, TypeOK
    <3>2. data[u].edits = bak[stamp[u]].edits \cup {u}
      BY <3>1 DEF StageInv, Stage, AtRisk
    <3>3. stamp[u] \in Stamps /\ bak[stamp[u]] \in Content
      BY <3>1, AtWork DEF Active, BackedUp
    <3> QED BY <2>2, <3>1, <3>2, <3>3, ContentFacts
  <2>8. CASE RestoreEnd(u)
    <3>1. pc[u] = "restoring" /\ bak' = bak /\ file' = bak[stamp[u]]
      BY <2>8 DEF RestoreEnd, Goto
    <3>2. stamp[u] \in Stamps
      BY <3>1, AtWork DEF Active
    <3> QED BY <2>2, <3>1, <3>2
  <2>9. \/ BackupBegin(u) \/ BackupEnd(u) \/ WriteBegin(u) \/ RestoreBegin(u)
        \/ WriteEnd(u) \/ RestoreEnd(u) \/ UNCHANGED <<file, bak>>
    BY <1>0, <1>1 DEF Step, LockCheck, NameBackup, ReadOriginal, BodyEdits,
       BodyRaises, Verify, VerifyRestored, Fault, HostRaises, HostTimesOut,
       LateCommandRuns, ProcessDies, NoneLate
  <2> QED BY <2>2, <2>4, <2>5, <2>6, <2>7, <2>8, <2>9
<1>2. CASE EditorSaves
  <2>1. file = copy /\ copy \in Content
    BY <1>2, <1>0
       DEF EditorSaves, SoloInv, EditorInv, CopyHeld, TypeInv, TypeOK
  <2>2. file'.edits = file.edits \cup {Editor}
    BY <1>2, <2>1 DEF EditorSaves, Content
  <2> QED
    BY <1>2, <2>1, <2>2, ContentFacts, MarksAssumption
       DEF EditorSaves, StageInv, Fresh
<1>3. CASE EditorOpens \/ EditorCloses \/ UNCHANGED vars
  BY <1>3 DEF EditorOpens, EditorCloses, vars, StageInv, Fresh
<1> QED BY <1>1, <1>2, <1>3 DEF Next, Environment

LEMMA AlwaysStageInv ==
  ASSUME OneProcess, EditorKept, OrderlyFaults
  PROVE  Spec => []StageInv
<1>0. "timeout" \notin Faults /\ {"timeout", "samesecond"} \cap Faults = {}
  BY DEF OrderlyFaults
<1>1. Init => StageInv
  <2> SUFFICES ASSUME Init PROVE StageInv
    OBVIOUS
  <2>1. ReadIsBackup /\ (\A t \in Txns : Stage(t))
    BY DEF Init, ReadIsBackup, Stage, AtRisk
  <2>2. LastBackup
    BY ContentFacts DEF Init, LastBackup, Active
  <2>3. Fresh
    BY MarksAssumption DEF Init, Fresh, Original
  <2> QED BY <2>1, <2>2, <2>3, InitSoloInv DEF StageInv
<1>2. StageInv /\ TypeInv' /\ [Next]_vars => StageInv'
  <2> SUFFICES ASSUME StageInv, TypeInv', [Next]_vars PROVE StageInv'
    OBVIOUS
  <2>1. SoloInv' /\ ReadIsBackup' /\ LastBackup' /\ Fresh'
    BY <1>0, SoloInvStep, ReadIsBackupStep, LastBackupStep, FreshStep
       DEF StageInv
  <2>2. ASSUME NEW t \in Txns PROVE Stage(t)'
    <3>1. ASSUME NEW u \in Txns, Step(u) \/ Fault(u) PROVE Stage(t)'
      <4>1. CASE t # u
        BY <1>0, <3>1, <4>1, MoverAlone, EndedStage DEF StageInv
      <4>2. CASE t = u /\ Step(u)
        BY <4>2, StageStep
      <4>3. CASE t = u /\ Fault(u)
        <5>1. pc'[u] \notin Active
          BY <4>3, <1>0 DEF Fault, HostRaises, HostTimesOut, LateCommandRuns,
             ProcessDies, Raised, Active, StageInv, SoloInv, NoneLate,
             TypeInv, TypeOK
        <5> QED BY <4>3, <5>1, EndedStage
      <4> QED BY <3>1, <4>1, <4>2, <4>3
    <3>2. CASE EditorSaves
      <4>1. pc'[t] \notin Active
        BY <3>2 DEF EditorSaves, StageInv, SoloInv, EditorInv, Quiet
      <4> QED BY <4>1, EndedStage
    <3>3. CASE EditorOpens \/ EditorCloses \/ UNCHANGED vars
      <4>1. UNCHANGED <<file, bak, pc, data, stamp>>
        BY <3>3 DEF EditorOpens, EditorCloses, vars
      <4> QED BY <4>1 DEF StageInv, Stage
    <3> QED BY <3>1, <3>2, <3>3 DEF Next, Environment
  <2> QED BY <2>1, <2>2 DEF StageInv
<1> QED BY <1>1, <1>2, AlwaysTypeInv, PTL DEF Spec

-----------------------------------------------------------------------------
(* The refinement.                                                         *)

Pending == {"idle"} \cup Active
Refused == {"locked", "absent", "raised", "restored"}
BrokenOff == {"failed", "unrestored", "killed"}

\* What a transaction reports, and what that does to the edits held.
Reports(u) ==
  \/ pc'[u] \in Pending /\ Held' = Held
  \/ pc'[u] = "committed" /\ u \notin Unverified /\ Held' = Held \cup {u}
  \/ pc'[u] \in Refused /\ Held' = Held
  \/ /\ pc'[u] \in BrokenOff \/ (pc'[u] = "committed" /\ u \in Unverified)
     /\ Held' \in {Held, Held \cup {u}}

LEMMA StatusFacts ==
  ASSUME NEW t \in Txns
  PROVE  /\ pc[t] \in Pending => StatusOf(t) = "pending"
         /\ pc'[t] \in Pending => StatusOf(t)' = "pending"
         /\ pc'[t] = "committed" /\ t \notin Unverified =>
              StatusOf(t)' = "applied"
         /\ pc'[t] \in Refused => StatusOf(t)' = "refused"
         /\ pc'[t] \in BrokenOff \/ (pc'[t] = "committed" /\ t \in Unverified)
              => StatusOf(t)' = "unknown"
         /\ pc'[t] = pc[t] => StatusOf(t)' = StatusOf(t)
<1> USE DEF StatusOf, Pending, Active, Refused, BrokenOff
<1>1. pc[t] \in Pending => StatusOf(t) = "pending"
  OBVIOUS
<1>2. pc'[t] \in Pending => StatusOf(t)' = "pending"
  OBVIOUS
<1>3. pc'[t] = "committed" /\ t \notin Unverified => StatusOf(t)' = "applied"
  OBVIOUS
<1>4. pc'[t] \in Refused => StatusOf(t)' = "refused"
  OBVIOUS
<1>5. pc'[t] \in BrokenOff \/ (pc'[t] = "committed" /\ t \in Unverified)
        => StatusOf(t)' = "unknown"
  OBVIOUS
<1>6. pc'[t] = pc[t] => StatusOf(t)' = StatusOf(t)
  OBVIOUS
<1> QED BY <1>1, <1>2, <1>3, <1>4, <1>5, <1>6

LEMMA ReportIsAbstract ==
  ASSUME NEW u \in Txns, pc[u] \in Pending, Reports(u),
         \A t \in Txns \ {u} : pc'[t] = pc[t]
  PROVE  [Abstract!Next]_(Abstract!absVars)
<1> DEFINE status == [t \in Txns |-> StatusOf(t)]
<1>1. status[u] = "pending"
  BY StatusFacts
<1>2. \A t \in Txns \ {u} : StatusOf(t)' = StatusOf(t)
  BY StatusFacts
<1>3. status' = [status EXCEPT ![u] = StatusOf(u)']
  BY <1>2
<1> HIDE DEF status
<1>4. CASE pc'[u] \in Pending /\ Held' = Held
  <2>1. status' = status
    BY <1>1, <1>2, <1>4, StatusFacts DEF status
  <2> QED BY <1>4, <2>1 DEF Abstract!absVars, status
<1>5. CASE pc'[u] = "committed" /\ u \notin Unverified /\ Held' = Held \cup {u}
  <2>1. status' = [status EXCEPT ![u] = "applied"]
    BY <1>3, <1>5, StatusFacts
  <2>2. Abstract!Apply(u)
    BY <1>1, <1>5, <2>1 DEF Abstract!Apply, Abstract!Report, status
  <2> QED BY <2>2 DEF Abstract!Next
<1>6. CASE pc'[u] \in Refused /\ Held' = Held
  <2>1. status' = [status EXCEPT ![u] = "refused"]
    BY <1>3, <1>6, StatusFacts
  <2>2. Abstract!Refuse(u)
    BY <1>1, <1>6, <2>1 DEF Abstract!Refuse, Abstract!Report, status
  <2> QED BY <2>2 DEF Abstract!Next
<1>7. CASE /\ \/ pc'[u] \in BrokenOff
              \/ pc'[u] = "committed" /\ u \in Unverified
           /\ Held' \in {Held, Held \cup {u}}
  <2>1. status' = [status EXCEPT ![u] = "unknown"]
    BY <1>3, <1>7, StatusFacts
  <2>2. Abstract!BreakOff(u)
    BY <1>1, <1>7, <2>1 DEF Abstract!BreakOff, Abstract!Report, status
  <2> QED BY <2>2 DEF Abstract!Next
<1> QED BY <1>4, <1>5, <1>6, <1>7 DEF Reports

\* With the file torn or dirty, what is at risk is recovered from the backup.
LEMMA BackupRecovers ==
  ASSUME StageInv, NEW u \in Txns, pc[u] \in {"write"} \cup AtRisk, NEW f
  PROVE  /\ IsClean(bak[stamp[u]])
         /\ ~IsClean(f) => RecoverableOf(f, bak) = bak[stamp[u]].edits
         /\ IsClean(f) => RecoverableOf(f, bak) = f.edits
         /\ data[u].edits = bak[stamp[u]].edits \cup {u}
         /\ u \notin bak[stamp[u]].edits
<1>1. pc[u] \in Active \ {"exists"} /\ pc[u] \in BackedUp
  BY DEF Active, AtRisk, BackedUp
<1>2. stamp[u] \in Stamps /\ stamp[u] = clock /\ bak[stamp[u]] \in Content
  BY <1>1, AtWork
<1>3. /\ bak[stamp[u]].clean
      /\ data[u].edits = bak[stamp[u]].edits \cup {u}
      /\ u \notin bak[stamp[u]].edits
  BY DEF StageInv, Stage
<1>4. IsClean(bak[stamp[u]])
  BY <1>2, <1>3, ContentFacts DEF IsClean
<1>5. \A r \in Stamps : r > stamp[u] => bak[r] = Missing
  BY <1>2 DEF StageInv, LastBackup
<1>6. ~IsClean(f) => RecoverableOf(f, bak) = bak[stamp[u]].edits
  BY <1>2, <1>4, <1>5, LastBackupRecovers
<1> QED BY <1>3, <1>4, <1>6 DEF RecoverableOf

LEMMA HeldIs ==
  ASSUME NEW u \in Txns,
         \A t \in Txns \ {u} : pc[t] \notin Active /\ pc'[t] = pc[t]
  PROVE  /\ Held = Recoverable \ (IF pc[u] = "check" THEN {u} ELSE {})
         /\ Held' = Recoverable' \ (IF pc'[u] = "check" THEN {u} ELSE {})
<1>1. {t \in Txns : pc[t] = "check"} = IF pc[u] = "check" THEN {u} ELSE {}
  BY DEF Active
<1>2. {t \in Txns : pc'[t] = "check"} = IF pc'[u] = "check" THEN {u} ELSE {}
  BY DEF Active
<1> QED BY <1>1, <1>2 DEF Held

LEMMA StepReports ==
  ASSUME OneProcess, OrderlyFaults, StageInv, NEW u \in Txns, Step(u)
  PROVE  Reports(u)
<1>0. /\ \A t \in Txns \ {u} : pc[t] \notin Active /\ pc'[t] = pc[t]
      /\ pc \in [Txns -> {"idle"} \cup Active \cup Ended]
      /\ bak \in [Stamps -> Content \cup {Missing}]
  BY MoverAlone DEF OrderlyFaults, StageInv, SoloInv, TypeInv, TypeOK
<1>a. /\ Held = Recoverable \ (IF pc[u] = "check" THEN {u} ELSE {})
      /\ Held' = Recoverable' \ (IF pc'[u] = "check" THEN {u} ELSE {})
      /\ Recoverable = RecoverableOf(file, bak)
      /\ Recoverable' = RecoverableOf(file', bak')
  BY <1>0, HeldIs, RecoverableIs
<1> HIDE DEF Held, Recoverable
<1> USE DEF Goto
<1>1. CASE \/ LockCheck(u) \/ NameBackup(u) \/ ReadOriginal(u)
           \/ BodyEdits(u) \/ BodyRaises(u) \/ VerifyRestored(u)
  <2>1. UNCHANGED <<file, bak>> /\ pc[u] # "check" /\ pc'[u] # "check"
        /\ pc'[u] \in Pending \cup Refused \cup BrokenOff
    BY <1>0, <1>1 DEF LockCheck, NameBackup, ReadOriginal, BodyEdits,
       BodyRaises, VerifyRestored, Pending, Active, Refused, BrokenOff
  <2>2. Held' = Held
    BY <1>a, <2>1
  <2> QED BY <2>1, <2>2 DEF Reports
<1>2. CASE BackupBegin(u) \/ BackupEnd(u)
  <2>1. /\ pc[u] \in {"copy", "copying"} /\ pc'[u] \in {"copying", "read"}
        /\ file' = file
    BY <1>0, <1>2 DEF BackupBegin, BackupEnd
  <2>2. stamp[u] \in Stamps
    BY <2>1, AtWork DEF Active
  <2>3. PICK c : /\ bak' = [bak EXCEPT ![stamp[u]] = c]
                 /\ IsClean(c) => c = file
    BY <1>2, TornUnclean DEF BackupBegin, BackupEnd
  <2>4. ~IsClean(bak[stamp[u]])
    BY <2>1 DEF StageInv, Stage, IsClean
  <2>5. \A s \in Stamps : s # stamp[u] => bak'[s] = bak[s]
    BY <1>0, <2>3
  <2>6. bak'[stamp[u]] = c
    BY <1>0, <2>2, <2>3
  <2>7. CASE IsClean(file)
    BY <2>1, <2>7, <1>a, SameRecoverable DEF Reports, Pending, Active
  <2>8. CASE ~IsClean(file)
    <3>1. \A s \in Stamps :
            IsClean(bak[s]) \/ IsClean(bak'[s]) => bak[s] = bak'[s]
      BY <2>3, <2>4, <2>5, <2>6, <2>8
    <3>2. RecoverableOf(file, bak) = RecoverableOf(file', bak')
      BY <2>1, <2>8, <3>1, SameRecoverable
    <3> QED BY <2>1, <3>2, <1>a DEF Reports, Pending, Active
  <2> QED BY <2>7, <2>8
<1>3. CASE WriteBegin(u)
  <2>1. /\ pc[u] = "write" /\ pc'[u] = "writing"
        /\ file' \in Torn /\ bak' = bak
    BY <1>0, <1>3 DEF WriteBegin
  <2>2. file = bak[stamp[u]]
    BY <2>1 DEF StageInv, ReadIsBackup
  <2>3. Recoverable' = Recoverable
    BY <2>1, <2>2, <1>a, BackupRecovers, TornUnclean
  <2> QED BY <2>1, <2>3, <1>a DEF Reports, Pending, Active
<1>4. CASE WriteEnd(u)
  <2>1. /\ pc[u] = "writing" /\ file' = data[u] /\ bak' = bak
        /\ pc'[u] = IF u \in Unverified THEN "committed" ELSE "check"
    BY <1>0, <1>4 DEF WriteEnd
  <2>2. ~IsClean(file)
    BY <2>1 DEF StageInv, Stage, IsClean
  <2>3. Held = bak[stamp[u]].edits
    BY <2>1, <2>2, <1>a, BackupRecovers DEF AtRisk
  <2>4. Recoverable' \in {Held, Held \cup {u}} /\ u \notin Held
    BY <2>1, <2>3, <1>a, BackupRecovers DEF AtRisk
  <2>5. CASE u \in Unverified
    BY <2>1, <2>4, <2>5, <1>a DEF Reports
  <2>6. CASE u \notin Unverified
    <3>1. Held' = Held
      BY <2>1, <2>4, <2>6, <1>a
    <3> QED BY <2>1, <2>6, <3>1 DEF Reports, Pending, Active
  <2> QED BY <2>5, <2>6
<1>5. CASE Verify(u)
  <2>1. /\ pc[u] = "check" /\ UNCHANGED <<file, bak>>
        /\ pc'[u] = IF file.clean THEN "committed" ELSE "restore"
    BY <1>0, <1>5 DEF Verify
  <2>2. file = data[u] /\ file # Missing
    BY <2>1, AtWork DEF StageInv, Stage, Active
  <2>3. /\ u \notin bak[stamp[u]].edits
        /\ data[u].edits = bak[stamp[u]].edits \cup {u}
        /\ ~IsClean(file) => Recoverable = bak[stamp[u]].edits
        /\ IsClean(file) => Recoverable = file.edits
    BY <2>1, <1>a, BackupRecovers DEF AtRisk
  <2>4. CASE file.clean
    <3>1. Held' = Held \cup {u}
      BY <2>1, <2>2, <2>3, <2>4, <1>a DEF IsClean
    <3> QED BY <2>1, <2>4, <3>1 DEF Reports
  <2>5. CASE ~file.clean
    <3>1. Held' = Held
      BY <2>1, <2>3, <2>5, <1>a DEF IsClean
    <3> QED BY <2>1, <2>5, <3>1 DEF Reports, Pending, Active
  <2> QED BY <2>4, <2>5
<1>6. CASE RestoreBegin(u)
  <2>1. /\ pc[u] = "restore" /\ pc'[u] = "restoring"
        /\ file' \in Torn /\ bak' = bak
    BY <1>0, <1>6 DEF RestoreBegin
  <2>2. ~IsClean(file) /\ ~IsClean(file')
    BY <2>1, TornUnclean DEF StageInv, Stage, IsClean
  <2>3. Recoverable' = Recoverable
    BY <2>1, <2>2, <1>a, BackupRecovers DEF AtRisk
  <2> QED BY <2>1, <2>3, <1>a DEF Reports, Pending, Active
<1>7. CASE RestoreEnd(u)
  <2>1. /\ pc[u] = "restoring" /\ pc'[u] = "recheck"
        /\ file' = bak[stamp[u]] /\ bak' = bak
    BY <1>0, <1>7 DEF RestoreEnd
  <2>2. ~IsClean(file)
    BY <2>1 DEF StageInv, Stage, IsClean
  <2>3. Recoverable' = Recoverable
    BY <2>1, <2>2, <1>a, BackupRecovers DEF AtRisk
  <2> QED BY <2>1, <2>3, <1>a DEF Reports, Pending, Active
<1> QED BY <1>1, <1>2, <1>3, <1>4, <1>5, <1>6, <1>7 DEF Step

LEMMA FaultReports ==
  ASSUME OneProcess, OrderlyFaults, StageInv, NEW u \in Txns, Fault(u)
  PROVE  Reports(u)
<1>0. \A t \in Txns \ {u} : pc[t] \notin Active /\ pc'[t] = pc[t]
  BY MoverAlone DEF OrderlyFaults, StageInv
<1>1. UNCHANGED <<file, bak>> /\ pc'[u] \in BrokenOff
  BY DEF Fault, HostRaises, HostTimesOut, LateCommandRuns, ProcessDies,
     Raised, BrokenOff, OrderlyFaults, StageInv, SoloInv, NoneLate, TypeInv,
     TypeOK
<1>2. /\ Held = Recoverable \ (IF pc[u] = "check" THEN {u} ELSE {})
      /\ Held' = Recoverable \ (IF pc'[u] = "check" THEN {u} ELSE {})
  BY <1>0, <1>1, HeldIs, RecoverableIs
<1> HIDE DEF Held, Recoverable
<1>3. Held' \in {Held, Held \cup {u}}
  BY <1>1, <1>2 DEF BrokenOff
<1> QED BY <1>1, <1>3 DEF Reports

LEMMA EnvironmentIsAbstract ==
  ASSUME StageInv, Environment \/ UNCHANGED vars
  PROVE  [Abstract!Next]_(Abstract!absVars)
<1> DEFINE status == [t \in Txns |-> StatusOf(t)]
<1>1. pc' = pc /\ status' = status
  BY DEF Environment, EditorOpens, EditorSaves, EditorCloses, vars, StatusOf
<1>2. CASE UNCHANGED <<file, bak>>
  <2>1. Held' = Held
    BY <1>1, <1>2, RecoverableIs DEF Held
  <2> QED BY <1>1, <2>1 DEF Abstract!absVars
<1>3. CASE EditorSaves
  <2>1. /\ \A t \in Txns : pc[t] \notin Active
        /\ file = copy /\ copy \in Content /\ file.clean
    BY <1>3 DEF EditorSaves, StageInv, SoloInv, EditorInv, Quiet, CopyHeld,
       TypeInv, TypeOK
  <2>2. Held = Recoverable /\ Held' = Recoverable'
    BY <1>1, <2>1 DEF Held, Active
  <2>3. /\ file' = [copy EXCEPT !.edits = copy.edits \cup {Editor}]
    BY <1>3 DEF EditorSaves
  <2>4. /\ file'.edits = file.edits \cup {Editor} /\ file'.clean
        /\ file' \in Content
    BY <2>1, <2>3 DEF Content, Marks
  <2>5. IsClean(file) /\ IsClean(file')
    BY <2>1, <2>4, ContentFacts DEF IsClean
  <2>6. Recoverable = file.edits /\ Recoverable' = file'.edits
    BY <2>5, RecoverableIs DEF RecoverableOf
  <2>7. Abstract!EditElsewhere
    BY <1>1, <2>2, <2>4, <2>6 DEF Abstract!EditElsewhere
  <2> QED BY <2>7 DEF Abstract!Next
<1>4. EditorSaves \/ UNCHANGED <<file, bak>>
  BY DEF Environment, EditorOpens, EditorCloses, vars
<1> QED BY <1>2, <1>3, <1>4

LEMMA InitIsAbstract == Init => Abstract!Init
<1> SUFFICES ASSUME Init PROVE Abstract!Init
  OBVIOUS
<1>1. CleanBackups = {}
  BY DEF Init, CleanBackups
<1>2. Recoverable \in {{}, {Base}}
  <2>1. CASE file = Original
    BY <2>1, ContentFacts DEF Recoverable, Original
  <2>2. CASE file = Missing
    BY <1>1, <2>2 DEF Recoverable
  <2> QED BY <2>1, <2>2 DEF Init
<1>3. Held = Recoverable
  BY DEF Init, Held
<1>4. [t \in Txns |-> StatusOf(t)] = [t \in Txns |-> "pending"]
  BY StatusFacts DEF Init, Pending
<1> QED BY <1>2, <1>3, <1>4 DEF Abstract!Init

(***************************************************************************)
(* Through crashes, host failures and dirty writes, the transactions of    *)
(* one process add their edits to what can be recovered, each at most      *)
(* once, and never take one away.                                          *)
(***************************************************************************)
THEOREM TransactionsRefine ==
  ASSUME OneProcess, EditorKept, OrderlyFaults
  PROVE  Spec => RefinesRecoverableEdits
<1>1. Init => Abstract!Init
  BY InitIsAbstract
<1>2. StageInv /\ [Next]_vars => [Abstract!Next]_(Abstract!absVars)
  <2>1. ASSUME StageInv, NEW u \in Txns, Step(u) \/ Fault(u)
        PROVE  [Abstract!Next]_(Abstract!absVars)
    <3>1. /\ pc[u] \in Pending
          /\ \A t \in Txns \ {u} : pc'[t] = pc[t]
      BY <2>1, StepMoves DEF StageInv, SoloInv, OrderlyFaults, Pending
    <3>2. Reports(u)
      BY <2>1, StepReports, FaultReports
    <3> QED BY <3>1, <3>2, ReportIsAbstract
  <2> QED BY <2>1, EnvironmentIsAbstract DEF Next
<1> QED
  BY <1>1, <1>2, AlwaysStageInv, PTL
     DEF Spec, RefinesRecoverableEdits, Abstract!Spec

-----------------------------------------------------------------------------
(* What the abstract specification promises, of the transactions.          *)

LEMMA AbstractPromises ==
  /\ Abstract!Init => Abstract!AppliedIsHeld
  /\ Abstract!AppliedIsHeld /\ [Abstract!Next]_(Abstract!absVars) =>
       Abstract!AppliedIsHeld'
  /\ [Abstract!Next]_(Abstract!absVars) =>
       [Held \subseteq Held']_(Abstract!absVars)
<1> DEFINE status == [t \in Txns |-> StatusOf(t)]
<1>1. Abstract!Init => Abstract!AppliedIsHeld
  <2> SUFFICES ASSUME Abstract!Init, NEW t \in Txns PROVE status[t] = "pending"
    BY DEF Abstract!AppliedIsHeld
  <2>1. status = [u \in Txns |-> "pending"]
    BY DEF Abstract!Init
  <2> QED BY <2>1
<1>2. [Abstract!Next]_(Abstract!absVars) =>
        /\ Held \subseteq Held'
        /\ \A t \in Txns : status'[t] = "applied" =>
                             status[t] = "applied" \/ t \in Held'
  <2> HIDE DEF status, Held
  <2>0. status = [t \in Txns |-> status[t]]
    BY DEF status
  <2>1. CASE Abstract!EditElsewhere
    BY <2>1 DEF Abstract!EditElsewhere, status
  <2>2. ASSUME NEW u \in Txns,
               Abstract!Apply(u) \/ Abstract!Refuse(u) \/ Abstract!BreakOff(u)
        PROVE  /\ Held \subseteq Held'
               /\ \A t \in Txns : status'[t] = "applied" =>
                                    status[t] = "applied" \/ t \in Held'
    <3>1. PICK s : /\ status' = [status EXCEPT ![u] = s]
                   /\ s = "applied" => u \in Held'
      BY <2>2 DEF Abstract!Apply, Abstract!Refuse, Abstract!BreakOff,
         Abstract!Report, status
    <3>2. Held \subseteq Held'
      BY <2>2 DEF Abstract!Apply, Abstract!Refuse, Abstract!BreakOff
    <3> QED BY <2>0, <3>1, <3>2
  <2>3. CASE UNCHANGED (Abstract!absVars)
    BY <2>3 DEF Abstract!absVars, status
  <2> QED BY <2>1, <2>2, <2>3 DEF Abstract!Next
<1> HIDE DEF status
<1>3. Abstract!AppliedIsHeld /\ [Abstract!Next]_(Abstract!absVars) =>
        Abstract!AppliedIsHeld'
  BY <1>2 DEF Abstract!AppliedIsHeld, status
<1> QED BY <1>1, <1>2, <1>3

(***************************************************************************)
(* No step takes an edit out of what can be recovered: not a rollback, not *)
(* a torn write, not the next transaction's backup.                        *)
(***************************************************************************)
THEOREM EditsKept ==
  ASSUME OneProcess, EditorKept, OrderlyFaults
  PROVE  Spec => Abstract!HeldGrows
BY TransactionsRefine, AbstractPromises, PTL
   DEF RefinesRecoverableEdits, Abstract!Spec, Abstract!HeldGrows

(***************************************************************************)
(* An edit whose transaction returned can be recovered ever after.         *)
(***************************************************************************)
THEOREM CommittedNeverLost ==
  ASSUME OneProcess, EditorKept, OrderlyFaults
  PROVE  Spec => []CommittedRecoverable
<1>1. Abstract!AppliedIsHeld => CommittedRecoverable
  <2> SUFFICES ASSUME Abstract!AppliedIsHeld,
                      NEW t \in Txns \ Unverified, pc[t] = "committed"
               PROVE  t \in Recoverable
    BY DEF CommittedRecoverable
  <2>1. StatusOf(t) = "applied"
    BY DEF StatusOf, Active
  <2>2. [u \in Txns |-> StatusOf(u)][t] = "applied"
    BY <2>1
  <2>3. t \in Held
    BY <2>2 DEF Abstract!AppliedIsHeld
  <2> QED BY <2>3 DEF Held
<1> QED
  BY <1>1, TransactionsRefine, AbstractPromises, PTL
     DEF RefinesRecoverableEdits, Abstract!Spec
=============================================================================
