SPECIFICATION FairSpec
CONSTANTS
  t1 = t1
  t2 = t2
  t3 = t3
  chim = chim
  other = other
  Base = Base
  Editor = Editor
  Missing = Missing
  Txns <- TwoTxns
  Procs = {chim, other}
  ProcOf <- Together
  Unverified = {t2}
  MaxClock = 2
  Faults = {"dirty", "io", "kill", "timeout", "cleancut", "blind", "race"}
INVARIANTS
  OriginalRecoverable
PROPERTIES
  FinishedBackupKept
  StartedTxnEnds
