------------------------ MODULE CommitmentSelection ------------------------
(***************************************************************************)
(* The choice of the commitments a transfer or withdraw spends:            *)
(* services/commitment_selection.rs.  An entry is [key, value]; a list is  *)
(* sorted by value, the order among equal values being the store's.        *)
(***************************************************************************)
EXTENDS Integers, Sequences, FiniteSets, Functions, SequencesExt

MAX_POSSIBLE_COMMITMENTS == 2

\* The lists that sorting by value can give, and one of them.
Orders(entries) ==
  {list \in SetToSeqs(entries) :
     \A i, j \in DOMAIN list : i < j => list[i].value <= list[j].value}
Sorted(entries) == CHOOSE list \in Orders(entries) : TRUE

SumOf(list) == SumFunctionOnSet([i \in DOMAIN list |-> list[i].value], DOMAIN list)

\* How many of the largest entries it takes to cover the target; 0 when the
\* two largest do not.
calculate_minimum_commitments(list, target) ==
  LET taken(n) == SubSeq(Reverse(list), 1, n)
      enough == {n \in 1 .. MAX_POSSIBLE_COMMITMENTS :
                   n <= Len(list) /\ SumOf(taken(n)) >= target}
  IN IF enough = {} THEN 0 ELSE Min(enough)

-----------------------------------------------------------------------------
(* Two pointers move towards each other over the entries below the target. *)

\* Mutant: the pair found last wins, whatever change it leaves.
LastPair(here, rest) == IF rest = <<>> THEN here ELSE rest

\* The pair found first wins unless a later one leaves less change.
BetterPair(here, rest) ==
  IF rest = <<>> \/ SumOf(rest) >= SumOf(here) THEN here ELSE rest

\* What is found from the pointers w on, where rest is what is found from any
\* pointers closer together.
Visit(target, below, rest, w) ==
  LET here == <<below[w[1]], below[w[2]]>>
  IN IF w[1] >= w[2] THEN <<>>
     ELSE IF SumOf(here) = target THEN here
     ELSE IF SumOf(here) > target THEN BetterPair(here, rest[<<w[1], w[2] - 1>>])
     ELSE rest[<<w[1] + 1, w[2]>>]

find_subset_two_commitments(target, below) ==
  LET n == Len(below)
      pair[w \in (1 .. n) \X (1 .. n)] == Visit(target, below, pair, w)
  IN pair[<<1, n>>]

\* Mutant: a commitment that covers the target alone may be one of a pair.
AtMost(e, target) == e.value <= target

Below(e, target) == e.value < target

\* The list is sorted, so the values below the target come first, and the
\* first one that covers it after those.
find_subset_commitments(list, target, n) ==
  LET below == SubSeq(list, 1, Cardinality({i \in DOMAIN list : Below(list[i], target)}))
      short == Cardinality({i \in DOMAIN list : list[i].value < target})
      covering == IF short < Len(list) THEN <<list[short + 1]>> ELSE <<>>
  IN IF Len(below) <= 1 \/ n = 1 THEN covering
     ELSE IF SumOf(below) >= target THEN find_subset_two_commitments(target, below)
     ELSE <<>>

\* Less change first, then more commitments.
Preferred(a, b) ==
  \/ SumOf(a) < SumOf(b)
  \/ SumOf(a) = SumOf(b) /\ Len(a) >= Len(b)

select_commitment(list, target, min) ==
  LET one == find_subset_commitments(list, target, 1)
      two == find_subset_commitments(list, target, 2)
  IN IF min = MAX_POSSIBLE_COMMITMENTS THEN two
     ELSE IF Len(list) = 1 \/ two = <<>> \/ Preferred(one, two) THEN one
     ELSE two

\* The commitments find_usable_commitments spends for the target, or none.
UsableFrom(list, target) ==
  LET min == calculate_minimum_commitments(list, target)
  IN IF min = 0 THEN <<>> ELSE select_commitment(list, target, min)

Usable(entries, target) == UsableFrom(Sorted(entries), target)

=============================================================================
