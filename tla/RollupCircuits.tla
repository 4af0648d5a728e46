---------------------------- MODULE RollupCircuits ----------------------------
(***************************************************************************)
(* The circuits of the rollup proof, rollup_prover.rs: a base circuit for  *)
(* every four transactions, circuits on two curves in turn that merge two  *)
(* outputs each, and the decider, whose outputs are the public inputs the  *)
(* contract verifies.  An output is [ok, commitments, nullifiers, fee,     *)
(* shas]: whether the constraints hold, the first and the last root of     *)
(* each tree, the sum of the fees and the hashes of the public data.       *)
(*                                                                         *)
(* The gadgets for membership and insertion and the recursion itself are   *)
(* in the proving library.                                                 *)
(***************************************************************************)
EXTENDS IndexedTree

\* sha256, shifted to fit the field; the hash of a transaction's commitments,
\* nullifiers and public data.
sha(left, right) == <<left, right>>
hash_transaction(tx) == <<tx>>

-----------------------------------------------------------------------------
(* Gadgets *)

\* The place was empty under the old root and the subtree leads to the new.
InsertionHolds(i, height) ==
  /\ RootOf(Zero, i.path) = i.old_root
  /\ RootOf(make_complete_tree(height, i.leaves)[0], i.path) = i.new_root

\* Each low leaf is under the root that the one before left, or is a value
\* inserted before it, and has the value in its gap.
LowHolds(info, k, root) ==
  LET l == info.lows[k]
  IN \/ l.value = 0
     \/ /\ l.low < l.value /\ (l.entry.next_value = 0 \/ l.value < l.entry.next_value)
        /\ IF l.pending THEN \E j \in 1 .. k - 1 : info.lows[j].value = l.low
                        ELSE RootOf(leaf_hash(l.low, l.entry), l.path) = root
RootAfter(info, k, root) ==
  LET l == info.lows[k]
  IN IF l.value = 0 \/ l.pending THEN root
     ELSE RootOf(<<l.low, info.first_index + k - 1, l.value>>, l.path)
NullifiersHold(info, height) ==
  LET after[k \in 0 .. Len(info.lows)] ==
        IF k = 0 THEN info.old_root ELSE RootAfter(info, k, after[k - 1])
  IN /\ \A k \in DOMAIN info.lows : LowHolds(info, k, after[k - 1])
     /\ info.insertion[1].old_root = after[Len(info.lows)]
     /\ InsertionHolds(info.insertion[1], height)

-----------------------------------------------------------------------------
(* The circuits *)

Roots(first, last) == [first |-> first, last |-> last]

\* Two subtrees for either tree; every root a transaction names is in the
\* historic root tree.
base_bn254_extra_checks(height, rootProofs, historic, cs, ns) ==
  [ok |-> /\ \A m \in rootProofs : verify(m, historic)
          /\ \A h \in {1, 2} : InsertionHolds(cs[h], height) /\ NullifiersHold(ns[h], height)
          /\ cs[2].old_root = cs[1].new_root
          /\ ns[2].old_root = ns[1].insertion[1].new_root,
   commitments |-> Roots(cs[1].old_root, cs[2].new_root),
   nullifiers |-> Roots(ns[1].old_root, ns[2].insertion[1].new_root)]

\* Four transactions.
base_bn254_checks(txs) ==
  [fee |-> FoldLeft(LAMBDA sum, tx : sum + tx.fee, 0, txs),
   sha |-> sha(sha(hash_transaction(txs[1].data), hash_transaction(txs[2].data)),
               sha(hash_transaction(txs[3].data), hash_transaction(txs[4].data)))]

BaseOutput(extra, checks) ==
  [ok |-> extra.ok, commitments |-> extra.commitments, nullifiers |-> extra.nullifiers,
   fee |-> checks.fee, shas |-> <<checks.sha>>]

\* The second output starts from the roots the first ends with.
Follows(a, b) ==
  /\ b.commitments.first = a.commitments.last
  /\ b.nullifiers.first = a.nullifiers.last

Merged(a, b, shas) ==
  [ok |-> a.ok /\ b.ok /\ Follows(a, b),
   commitments |-> Roots(a.commitments.first, b.commitments.last),
   nullifiers |-> Roots(a.nullifiers.first, b.nullifiers.last),
   fee |-> a.fee + b.fee, shas |-> shas]

\* This curve does no hashing: the hashes go on side by side.
grumpkin_merge_circuit_checks(a, b) == Merged(a, b, <<a.shas[1], b.shas[1]>>)

FourShas(a, b) == sha(sha(a.shas[1], a.shas[2]), sha(b.shas[1], b.shas[2]))

bn254_merge_circuit_checks(a, b) == Merged(a, b, <<FourShas(a, b)>>)

\* The path of the new commitment root in the historic root tree leads, with
\* zero in its place, to the old root.
decider_circuit_checks(a, b, historicProof, old_historic) ==
  LET m == Merged(a, b, <<FourShas(a, b)>>)
  IN [ok |-> m.ok /\ RootOf(Zero, historicProof.sibling_path) = old_historic,
      fee |-> m.fee, public_hash |-> m.shas[1],
      old |-> [commitments |-> m.commitments.first, nullifiers |-> m.nullifiers.first,
               historic |-> old_historic],
      new |-> [commitments |-> m.commitments.last, nullifiers |-> m.nullifiers.last,
               historic |-> RootOf(m.commitments.last, historicProof.sibling_path)]]

-----------------------------------------------------------------------------
(* The recursion, for blocks of 64, 256 or 1024 transactions *)

Log2(n) == CHOOSE k \in 0 .. n : 2 ^ k = n

\* The two curves take turns, and the decider follows outputs of the first.
prove(bases, historicProof, old_historic) ==
  LET rows == Log2(Len(bases)) - 1
      out[k \in 0 .. rows, i \in 0 .. Len(bases) - 1] ==
        CASE k = 0 -> bases[i + 1]
          [] k % 2 = 1 -> grumpkin_merge_circuit_checks(out[k - 1, 2 * i], out[k - 1, 2 * i + 1])
          [] OTHER -> bn254_merge_circuit_checks(out[k - 1, 2 * i], out[k - 1, 2 * i + 1])
  IN decider_circuit_checks(out[rows, 0], out[rows, 1], historicProof, old_historic)

-----------------------------------------------------------------------------
(* The contract's side *)

\* propose_block hashes the transactions' hashes in pairs, in place, until
\* one is left.
PublicHash(txs) ==
  LET hash[k \in 0 .. Log2(Len(txs)), i \in 0 .. Len(txs) - 1] ==
        IF k = 0 THEN hash_transaction(txs[i + 1].data)
        ELSE sha(hash[k - 1, 2 * i], hash[k - 1, 2 * i + 1])
  IN hash[Log2(Len(txs)), 0]

=============================================================================
