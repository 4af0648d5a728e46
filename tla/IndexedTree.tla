----------------------------- MODULE IndexedTree -----------------------------
(***************************************************************************)
(* The indexed Merkle tree of lib/src/merkle_trees/indexed.rs: a mutable   *)
(* tree whose leaves are hashes of (value, next_index, next_value), and    *)
(* the leaf database that holds what was hashed.  The leaves form a list   *)
(* in the order of their values, so that the leaf before the place where   *)
(* a value would be shows that the value is not in the tree.               *)
(*                                                                         *)
(* An indexed tree is [tree, leaves]: the mutable tree and the database as *)
(* a function from values to [id, next_index, next_value].                 *)
(***************************************************************************)
EXTENDS MutableTree, FiniteSets

leaf_hash(v, entry) == <<v, entry.next_index, entry.next_value>>

-----------------------------------------------------------------------------
(* The leaf database *)

new_indexed_leaves_db == [v \in {0} |-> [id |-> 0, next_index |-> 0, next_value |-> 0]]

Lower(db, v) == {u \in DOMAIN db : u < v}
get_low_leaf(db, v) == Max(Lower(db, v))

\* The identifier is the key of the collection.
store_leaf(db, v, index) ==
  LET low == get_low_leaf(db, v)
  IN CASE v \in DOMAIN db \/ Lower(db, v) = {} -> [err |-> "LeafExists", db |-> db]
       [] v \notin DOMAIN db /\ \E u \in DOMAIN db : db[u].id = index ->
            [err |-> "DatabaseError", db |-> db]
       [] OTHER ->
            [err |-> "none",
             db |-> [u \in DOMAIN db \cup {v} |->
                       CASE u = v -> [db[low] EXCEPT !.id = index]
                         [] u = low -> [db[u] EXCEPT !.next_index = index, !.next_value = v]
                         [] OTHER -> db[u]]]

-----------------------------------------------------------------------------
(* The tree *)

new_indexed_tree(height, sub_height) ==
  [tree |-> insert_leaf(new_mutable_tree(height, sub_height),
                        leaf_hash(0, new_indexed_leaves_db[0]), TRUE).tree,
   leaves |-> new_indexed_leaves_db]

\* Mutant: a value that is there is not refused.
non_membership_unchecked(n, v) ==
  LET low == get_low_leaf(n.leaves, v)
  IN ProofAt(n.tree, 2 ^ Height(n.tree) - 1 + n.leaves[low].id, leaf_hash(low, n.leaves[low]))

get_non_membership_proof(n, v) ==
  LET low == get_low_leaf(n.leaves, v)
  IN IF v \in DOMAIN n.leaves THEN NoProof("LeafExists")
     ELSE ProofAt(n.tree, 2 ^ Height(n.tree) - 1 + n.leaves[low].id,
                  leaf_hash(low, n.leaves[low]))

FirstFree(n) == n.tree.sub_tree_count * Capacity(n.tree)

\* What goes into the tree for a value that the database has.
LeafOf(db, v) == IF v = 0 THEN Zero ELSE leaf_hash(v, db[v])

\* Writes the hash of a leaf that is in the tree again.
Refresh(n, v) ==
  [n EXCEPT !.tree = update_sub_tree(@, n.leaves[v].id, leaf_hash(v, n.leaves[v]), TRUE).tree]

\* Mutant: padding takes no index.
StorePacked(db, values, first) ==
  LET new == SelectSeq(values, LAMBDA v : v # 0)
      Store(acc, k) ==
        IF acc.err # "none" THEN acc ELSE store_leaf(acc.db, new[k], first + k - 1)
  IN FoldLeft(Store, [err |-> "none", db |-> db], [k \in DOMAIN new |-> k])

\* Stores the values that are not zero at consecutive indices and stops at
\* the first refusal, keeping what is stored.
StoreAll(db, values, first) ==
  LET Store(acc, k) ==
        IF acc.err # "none" \/ values[k] = 0 THEN acc
        ELSE store_leaf(acc.db, values[k], first + k - 1)
  IN FoldLeft(Store, [err |-> "none", db |-> db], [k \in DOMAIN values |-> k])

\* The low leaves are written again once the new leaves are in the tree, in
\* the order of their values.
Relinked(db, lows, appended) ==
  [err |-> appended.err,
   n |-> IF appended.err # "none" THEN [tree |-> appended.tree, leaves |-> db]
         ELSE MapThenFoldSet(LAMBDA v, n : Refresh(n, v), [tree |-> appended.tree, leaves |-> db],
                             LAMBDA v : v, Max, lows)]
InsertStored(n, values, lows, stored) ==
  IF stored.err # "none" THEN [err |-> stored.err, n |-> [n EXCEPT !.leaves = stored.db]]
  ELSE Relinked(stored.db, lows,
         append_sub_trees(n.tree, [k \in DOMAIN values |-> LeafOf(stored.db, values[k])], TRUE))

\* Used for blocks of other proposers.  The low leaves are those of before,
\* each once, in the order of their values.
insert_leaves(n, values) ==
  LET new == ToSet(values) \ {0}
      lows == {get_low_leaf(n.leaves, v) : v \in new}
  IN CASE values = <<>> -> [err |-> "none", n |-> n]
       [] values # <<>> /\ new \cap DOMAIN n.leaves # {} -> [err |-> "LeafExists", n |-> n]
       [] OTHER -> InsertStored(n, values, lows, StoreAll(n.leaves, values, FirstFree(n)))

\* Mutant: the first leaf of the subtree counts as being in the tree.
InTreeOrFirst(entry, first) == entry.id <= first

\* Whether a leaf is in the tree or among those being inserted.
InTree(entry, first) == entry.id < first

\* Hooks the subtree in after its values are in the database.
HookIn(n, done, hooked) ==
  [err |-> hooked.err, n |-> [done.n EXCEPT !.tree = hooked.tree],
   info |-> <<[old_root |-> n.tree.root, first_index |-> FirstFree(n), lows |-> done.lows,
               insertion |-> hooked.info]>>]
InsertSubTree(n, values, done) ==
  IF done.err # "none" THEN [err |-> done.err, n |-> done.n, info |-> <<>>]
  ELSE HookIn(n, done,
         insert_for_circuit(done.n.tree,
                            [k \in DOMAIN values |-> LeafOf(done.n.leaves, values[k])]))

\* Used for a block of ours, one subtree at a time, with what the circuit
\* checks: for each value the low leaf as it was and the path to it.  A low
\* leaf that is in this subtree itself has no path.
insert_nullifiers_for_circuit(n, values) ==
  LET first == FirstFree(n)
      NoPath == [k \in 1 .. Height(n.tree) |-> [on |-> "left", value |-> Zero]]
      Padding == [value |-> 0, low |-> 0, entry |-> new_indexed_leaves_db[0],
                  pending |-> FALSE, path |-> NoPath]
      Insert(acc, k) ==
        LET v == values[k]
            db == acc.n.leaves
            low == get_low_leaf(db, v)
            stored == store_leaf(db, v, first + k - 1)
            inTree == InTree(db[low], first)
            proof == get_non_membership_proof(acc.n, v)
            next == [acc.n EXCEPT !.leaves = stored.db]
        IN CASE acc.err # "none" -> acc
             [] acc.err = "none" /\ v = 0 -> [acc EXCEPT !.lows = Append(@, Padding)]
             [] acc.err = "none" /\ v # 0 /\ stored.err # "none" -> [acc EXCEPT !.err = stored.err]
             [] OTHER ->
                  [err |-> "none",
                   n |-> IF inTree THEN Refresh(next, low) ELSE next,
                   lows |-> Append(acc.lows,
                              [value |-> v, low |-> low, entry |-> db[low],
                               pending |-> ~inTree,
                               path |-> IF inTree THEN proof.sibling_path ELSE NoPath])]
      start == [err |-> "none", n |-> n, lows |-> <<>>]
  IN IF Len(values) # Capacity(n.tree) THEN [err |-> "IncorrectBatchSize", n |-> n, info |-> <<>>]
     ELSE InsertSubTree(n, values, FoldLeft(Insert, start, [k \in DOMAIN values |-> k]))

\* The batch stops at a chunk that fails and keeps the chunks before it.
batch_insert_nullifiers_with_circuit_info(n, values) ==
  LET Insert(acc, chunk) ==
        LET one == insert_nullifiers_for_circuit(acc.n, chunk)
        IN IF acc.err # "none" THEN acc ELSE [one EXCEPT !.info = acc.info \o @]
  IN FoldLeft(Insert, [err |-> "none", n |-> n, info |-> <<>>],
              Chunks(values, Capacity(n.tree)))

=============================================================================
