---------------------------- MODULE MCRoundRobin ----------------------------
(* Small instances of RoundRobin for TLC. *)
EXTENDS RoundRobinOrder, TLC

CONSTANTS a1, a2, a3, u1, u2, u3

TwoAddr   == {a1, a2}
ThreeAddr == {a1, a2, a3}
TwoUrls   == {u1, u2}
ThreeUrls == {u1, u2, u3}

\* Accounts are interchangeable, and so are URLs.
Symmetry == Permutations(Addr) \cup Permutations(Urls)

=============================================================================
