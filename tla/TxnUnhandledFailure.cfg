SPECIFICATION Spec
CONSTANTS
  t1 = t1
  t2 = t2
  t3 = t3
  chim = chim
  other = other
  Base = Base
  Editor = Editor
  Missing = Missing
  Txns <- TwoTxns
  Procs = {chim}
  ProcOf <- Alone
  Unverified = {}
  MaxClock = 2
  Faults = {"dirty", "io"}
INVARIANTS
  FailureRestores
