---------------------------- MODULE ProposerRing ----------------------------
(***************************************************************************)
(* What a round-robin of proposers promises (doc/nf_4.md, "The proposers   *)
(* take turns in a round-robin"): a queue whose head is the current        *)
(* proposer.  Newcomers join at the end, a rotation moves the head to the  *)
(* end, and whoever leaves only closes the gap it leaves.                  *)
(***************************************************************************)
EXTENDS Sequences, Naturals

CONSTANT Member

VARIABLE ring

IsIn(a) == \E i \in DOMAIN ring : ring[i] = a

Init == \E a \in Member : ring = <<a>>

Join(a) ==
  /\ ~IsIn(a)
  /\ ring' = Append(ring, a)

Leave(a) ==
  /\ Len(ring) > 1
  /\ \E i \in DOMAIN ring :
       ring[i] = a /\ ring' = SubSeq(ring, 1, i - 1) \o SubSeq(ring, i + 1, Len(ring))

Rotate == ring' = Append(Tail(ring), Head(ring))

Next == (\E a \in Member : Join(a) \/ Leave(a)) \/ Rotate

Spec == Init /\ [][Next]_ring

=============================================================================
