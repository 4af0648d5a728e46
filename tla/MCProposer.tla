----------------------------- MODULE MCProposer -----------------------------
(* A small proposer for TLC: the values of its constants.                  *)
EXTENDS Proposer

CONSTANTS d1, t1, w1, n1, n2

OwnNullifiers == [t \in Txs |-> IF t = t1 THEN n1 ELSE n2]

=============================================================================
