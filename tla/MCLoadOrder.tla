----------------------------- MODULE MCLoadOrder -----------------------------
(* Instances of LoadOrder for TLC.                                         *)
EXTENDS LoadOrder, TLC

CONSTANTS a, b, c

AlsoBase == <<"base">>

\* Three plugins in any order, and another configuration that lists two of
\* them the other way round.
Configs ==
  {[f \in {"openmw", "base"} |-> IF f = "openmw" THEN s ELSE <<s[3], s[1]>>] :
     s \in SetToSeqs({a, b, c})}

\* Every graph of masters, and plugins that name only themselves.
Graphs ==
  {h \in [{a, b, c} -> SUBSET {a, b, c}] :
     \/ \A p \in {a, b, c} : p \notin h[p]
     \/ \A p \in {a, b, c} : h[p] \subseteq {p}}

Symmetry == Permutations({a, b, c})
=============================================================================
