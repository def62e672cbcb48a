SPECIFICATION FairSpec
CONSTANTS
  t1 = t1
  t2 = t2
  t3 = t3
  chim = chim
  other = other
  Base = Base
  Editor = Editor
  Missing = Missing
  Txns <- ThreeTxns
  Procs = {chim}
  ProcOf <- Alone
  Unverified = {t3}
  MaxClock = 3
  Faults = {"dirty", "io", "kill", "save"}
INVARIANTS
  TypeInv
  CommittedRecoverable
PROPERTIES
  WriteReplacesTheBackup
  NoTouchWhileRunning
  RefinesRecoverableEdits
  DirtyWriteUndone
