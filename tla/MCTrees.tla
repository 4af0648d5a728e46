------------------------------- MODULE MCTrees -------------------------------
(* A small instance of Trees for TLC. *)
EXTENDS Trees, TLC

CONSTANTS p1, p2

\* Two subtrees of two leaves each for either tree.  The nullifiers go in
\* upwards, downwards, between leaves of an earlier block and of the same
\* subtree, next to padding, and twice.
Blocks ==
  {[cs |-> <<1, 2, 3, 0>>, ns |-> ns] :
     ns \in {<<2, 0, 0, 4>>, <<0, 1, 3, 5>>, <<5, 3, 1, 0>>}}
  \cup {[cs |-> <<4, 0, 0, 5>>, ns |-> ns] : ns \in {<<0, 0, 0, 0>>, <<1, 0, 1, 0>>}}

Symmetry == Permutations(Proposers)

=============================================================================
