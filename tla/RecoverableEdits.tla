-------------------------- MODULE RecoverableEdits --------------------------
(***************************************************************************)
(* What the transactions of chim/esp/safety.py promise to whoever edits a  *)
(* plugin: the edits that can be recovered only ever grow, an edit whose   *)
(* transaction returned is among them, one whose transaction was refused   *)
(* or rolled back is not added, and one whose transaction broke off may or *)
(* may not be.                                                             *)
(***************************************************************************)
CONSTANTS Txns, Base, Editor

VARIABLES
  held,    \* the edits that can be recovered
  status   \* what each transaction reported

absVars == <<held, status>>

AbsTypeOK ==
  /\ held \subseteq Txns \cup {Base, Editor}
  /\ status \in [Txns -> {"pending", "applied", "refused", "unknown"}]

Init ==
  /\ held \in {{}, {Base}}
  /\ status = [t \in Txns |-> "pending"]

Report(t, s) ==
  /\ status[t] = "pending"
  /\ status' = [status EXCEPT ![t] = s]

Apply(t) == Report(t, "applied") /\ held' = held \cup {t}

Refuse(t) == Report(t, "refused") /\ UNCHANGED held

BreakOff(t) == Report(t, "unknown") /\ held' \in {held, held \cup {t}}

EditElsewhere == held' = held \cup {Editor} /\ UNCHANGED status

Next ==
  EditElsewhere \/ \E t \in Txns : Apply(t) \/ Refuse(t) \/ BreakOff(t)

Spec == Init /\ [][Next]_absVars

\* An edit reported as applied is held.
AppliedIsHeld == \A t \in Txns : status[t] = "applied" => t \in held

\* Nothing that can be recovered is ever lost.
HeldGrows == [][held \subseteq held']_absVars
=============================================================================
