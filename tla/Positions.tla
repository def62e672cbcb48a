------------------------------- MODULE Positions -------------------------------
(***************************************************************************)
(* Lists that are filtered by the place of their entries: what a Python    *)
(* comprehension over a list keeps, in the order of the list.              *)
(***************************************************************************)
EXTENDS Naturals, Sequences, FiniteSets

\* The j-th smallest of a set of positions.
NthOf(S, j) == CHOOSE k \in S : Cardinality({i \in S : i <= k}) = j

\* The entries of s at the positions in S.
Sublist(s, S) == [j \in 1 .. Cardinality(S) |-> s[NthOf(S, j)]]
=============================================================================
