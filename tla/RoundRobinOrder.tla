--------------------------- MODULE RoundRobinOrder ---------------------------
(***************************************************************************)
(* RoundRobin against the queue that a round-robin of proposers is.  The   *)
(* queue is read off the contract the way its users read it: the list that *)
(* get_proposers returns.                                                  *)
(***************************************************************************)
EXTENDS RoundRobin

Queue == INSTANCE ProposerRing
           WITH Member <- Addr,
                ring <- [i \in 1 .. proposer_count |-> get_proposers[i].addr]

\* The list get_proposers returns behaves as that queue: joining proposers
\* come last, turns are taken in list order, leaving only closes a gap.
TakesTurns == Queue!Spec

=============================================================================
