------------------------ MODULE MCPluginTransaction ------------------------
(* Instances of PluginTransaction for TLC.                                 *)
EXTENDS PluginTransaction, TLC

CONSTANTS t1, t2, t3, chim, other

ThreeTxns == {t1, t2, t3}
TwoTxns == {t1, t2}

\* One chim process runs every transaction.
Alone == [t \in Txns |-> chim]

\* t1 belongs to another process.
Together == [t \in Txns |-> IF t = t1 THEN other ELSE chim]

=============================================================================
