---------------------------- MODULE MCEditServers ----------------------------
(* Instances of EditServers for TLC.                                       *)
EXTENDS EditServers

CONSTANTS self, game

Override(n) == [index |-> 0, object |-> n]
Own(n) == [index |-> 1, object |-> n]

Cell(id) == [kind |-> "cell", id |-> id, groups |-> <<>>]
Children(id, groups) == [kind |-> "children", id |-> id, groups |-> groups]

\* One master; a cell of it with a temporary reference, an own cell with a
\* persistent one, a cell without children; an own record outside cells.
Patch ==
  [masters |-> <<game>>, nextObject |-> 2, top |-> {Own(0)},
   block |-> <<Cell(Override(0)),
               Children(Override(0), <<[type |-> Temporary, refs |-> {Override(1)}]>>),
               Cell(Own(1)),
               Children(Own(1), <<[type |-> Persistent, refs |-> {}]>>),
               Cell(Override(2))>>]

Patches == {Patch}

\* What a call may do does not depend on the answer to the last one.
PluginView == <<plugin, issued>>
=============================================================================
