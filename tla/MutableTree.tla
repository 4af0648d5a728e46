----------------------------- MODULE MutableTree -----------------------------
(***************************************************************************)
(* The Merkle trees of lib/src/merkle_trees: the mutable tree, which keeps *)
(* every node in a database, and the append-only tree, which keeps a       *)
(* frontier.  A mutable tree is the record of its metadata document, its   *)
(* node collection and its cache collection; a missing node is zero.       *)
(*                                                                         *)
(* Hashes are symbolic and have no collisions: zero is the empty tuple, a  *)
(* leaf a tuple of one, a node a tuple of its two children and an indexed  *)
(* leaf a tuple of three.                                                  *)
(***************************************************************************)
EXTENDS Integers, Sequences, SequencesExt

Zero == <<>>

\* A field element as a leaf.
Leaf(x) == IF x = 0 THEN Zero ELSE <<x>>

\* The hasher keeps zero subtrees zero.
tree_hash(left, right) == IF left = Zero /\ right = Zero THEN Zero ELSE <<left, right>>

\* Outcomes of an operation on a tree.
Done(t, root) == [err |-> "none", tree |-> t, root |-> root]
Refused(t, why) == [err |-> why, tree |-> t, root |-> Zero]

-----------------------------------------------------------------------------
(* Helpers *)

\* Node i has the children 2i + 1 and 2i + 2; the leaves are the last row,
\* filled from the left.
make_complete_tree(height, leaves) ==
  LET first == 2 ^ height - 1
      node[i \in 0 .. 2 * first] ==
        CASE i < first -> tree_hash(node[2 * i + 1], node[2 * i + 2])
          [] i - first \in 0 .. Len(leaves) - 1 -> leaves[i - first + 1]
          [] OTHER -> Zero
  IN [i \in 0 .. 2 * first |-> node[i]]

\* The ancestor of node i that is k rows up.
Ancestor(i, k) == (i + 1) \div 2 ^ k - 1

\* The leaves in batches of n.
Chunks(leaves, n) ==
  [k \in 1 .. Len(leaves) \div n |-> SubSeq(leaves, (k - 1) * n + 1, k * n)]

-----------------------------------------------------------------------------
(* The mutable tree *)

new_mutable_tree(height, sub_height) ==
  [tree_height |-> height, sub_tree_height |-> sub_height, sub_tree_count |-> 0,
   root |-> Zero, nodes |-> <<>>, cache |-> <<>>]

\* The collections are dropped; the caller makes the metadata again, with the
\* same heights.
reset_mutable_tree(t) ==
  [t EXCEPT !.sub_tree_count = 0, !.root = Zero, !.nodes = <<>>, !.cache = <<>>]

Height(t) == t.tree_height + t.sub_tree_height
Capacity(t) == 2 ^ t.sub_tree_height

get_node(t, i) ==
  CASE i \in DOMAIN t.cache -> t.cache[i]
    [] i \notin DOMAIN t.cache /\ i \in DOMAIN t.nodes -> t.nodes[i]
    [] OTHER -> Zero

\* Updates win over what is stored.
Over(new, old) ==
  [i \in DOMAIN new \cup DOMAIN old |-> IF i \in DOMAIN new THEN new[i] ELSE old[i]]

set_nodes(t, new, update_tree) ==
  IF update_tree THEN [t EXCEPT !.nodes = Over(new, @)]
                 ELSE [t EXCEPT !.cache = Over(new, @)]

flush_cache(t) == [t EXCEPT !.nodes = Over(t.cache, @), !.cache = <<>>]

\* The value v at node i and the hashes of its ancestors, n rows up.
\* Siblings are read before anything is written.
PathUp(t, i, v, n) ==
  LET up[k \in 0 .. n] ==
        IF k = 0 THEN v
        ELSE LET below == Ancestor(i, k - 1)
             IN IF below % 2 = 0 THEN tree_hash(get_node(t, below - 1), up[k - 1])
                                 ELSE tree_hash(up[k - 1], get_node(t, below + 1))
  IN [k \in 0 .. n |-> up[k]]

AsNodes(i, path) ==
  [j \in {Ancestor(i, k) : k \in DOMAIN path} |->
     path[CHOOSE k \in DOMAIN path : Ancestor(i, k) = j]]

\* The nodes of a complete tree that hangs at node i, its root left out.
Below(sub, i, height) ==
  LET start == [r \in 1 .. height |-> (i + 1) * 2 ^ r - 1]
  IN [j \in UNION {start[r] .. start[r] + 2 ^ r - 1 : r \in 1 .. height} |->
        LET r == CHOOSE q \in 1 .. height : j \in start[q] .. start[q] + 2 ^ q - 1
        IN sub[2 ^ r - 1 + j - start[r]]]

\* Hooks a complete tree into the tree at node i, which is n rows below the
\* root; the new root is the last hash of the path.
HookAlong(path, t, sub, height, i, n, update_tree) ==
  Done(set_nodes(t, Over(AsNodes(i, path), Below(sub, i, height)), update_tree), path[n])
Hook(t, sub, height, i, n, update_tree) ==
  HookAlong(PathUp(t, i, sub[0], n), t, sub, height, i, n, update_tree)

insert_leaf(t, leaf, update_tree) ==
  LET n == Height(t)
      at == 2 ^ n - 1 + t.sub_tree_count * Capacity(t)
      path == PathUp(t, at, leaf, n)
      set == set_nodes(t, AsNodes(at, path), update_tree)
  IN IF update_tree
     THEN Done(flush_cache([set EXCEPT !.sub_tree_count = @ + 1, !.root = path[n]]),
               path[n])
     ELSE Done(set, path[n])

\* Without update_tree subtrees go to the cache and the metadata stays; with
\* it whatever the cache holds is written over the nodes.
Appended(t, added, update_tree) ==
  IF update_tree
  THEN Done(flush_cache([added.tree EXCEPT !.root = added.root]), added.root)
  ELSE Done([added.tree EXCEPT !.sub_tree_count = t.sub_tree_count], added.root)

Counted(hooked) == Done([hooked.tree EXCEPT !.sub_tree_count = @ + 1], hooked.root)

\* Subtrees go in one after the other, each at the next place of row
\* tree_height.
append_sub_trees(t, leaves, update_tree) ==
  LET Add(acc, batch) ==
        Counted(Hook(acc.tree, make_complete_tree(t.sub_tree_height, batch), t.sub_tree_height,
                     2 ^ t.tree_height - 1 + acc.tree.sub_tree_count, t.tree_height,
                     update_tree))
  IN CASE Len(leaves) % Capacity(t) # 0 -> Refused(t, "IncorrectBatchSize")
       [] leaves = <<>> -> Done(t, t.root)
       [] t.sub_tree_count > 2 ^ t.tree_height -> Refused(t, "TreeIsFull")
       [] OTHER -> Appended(t, FoldLeft(Add, Done(t, Zero), Chunks(leaves, Capacity(t))),
                            update_tree)

\* Replaces the leaf at an index; the metadata's root changes either way.
update_sub_tree(t, leaf_index, leaf, update_tree) ==
  LET n == Height(t)
      at == 2 ^ n - 1 + leaf_index
      path == PathUp(t, at, leaf, n)
      set == set_nodes(t, AsNodes(at, path), update_tree)
      out == IF update_tree THEN flush_cache(set) ELSE set
  IN IF leaf_index >= 2 ^ n THEN Refused(t, "InvalidIndex")
     ELSE Done([out EXCEPT !.root = path[n]], path[n])

IsLeafIndex(t, i) == i >= 2 ^ Height(t) - 1 /\ i <= 2 ^ (Height(t) + 1) - 2

\* A node that holds the value; two that do would be told apart by nothing.
NodesWith(t, value) == {i \in DOMAIN t.nodes : t.nodes[i] = value}
is_leaf(t, value) ==
  NodesWith(t, value) # {} /\ IsLeafIndex(t, CHOOSE i \in NodesWith(t, value) : TRUE)

\* The sibling and its side at each row from node i up.
SiblingPath(t, i) ==
  [k \in 1 .. Height(t) |->
     LET at == Ancestor(i, k - 1)
     IN IF at % 2 = 0 THEN [on |-> "left", value |-> get_node(t, at - 1)]
                      ELSE [on |-> "right", value |-> get_node(t, at + 1)]]

ProofAt(t, i, value) ==
  [err |-> "none", leaf_index |-> i - 2 ^ Height(t) + 1, node_value |-> value,
   sibling_path |-> SiblingPath(t, i)]
NoProof(why) == [err |-> why]

\* A proof for the leaf with a value, or for the leaf at an index.
membership_proof_of(t, value) ==
  LET i == CHOOSE j \in NodesWith(t, value) : TRUE
  IN CASE value = Zero -> NoProof("zero leaf")
       [] value # Zero /\ NodesWith(t, value) = {} -> NoProof("ItemNotFound")
       [] OTHER -> IF IsLeafIndex(t, i) THEN ProofAt(t, i, value) ELSE NoProof("InvalidProof")
membership_proof_at(t, leaf_index) ==
  LET i == leaf_index + 2 ^ Height(t) - 1
  IN IF IsLeafIndex(t, i) THEN ProofAt(t, i, get_node(t, i)) ELSE NoProof("InvalidProof")

\* The root a sibling path leads to.
RootOf(value, path) ==
  FoldLeft(LAMBDA h, s : IF s.on = "left" THEN tree_hash(s.value, h) ELSE tree_hash(h, s.value),
           value, path)
verify(proof, root) == RootOf(proof.node_value, proof.sibling_path) = root

\* One subtree, with what a circuit needs to check its insertion: the place
\* was empty before, and the same path leads to the new root.
InsertedFor(t, leaves, at, empty, added) ==
  [err |-> added.err, tree |-> added.tree,
   info |-> <<[old_root |-> t.root, new_root |-> added.root,
               path |-> SubSeq(empty.sibling_path, t.sub_tree_height + 1, Height(t)),
               leaf_count |-> at + Len(leaves), leaves |-> leaves]>>]
insert_for_circuit(t, leaves) ==
  LET at == t.sub_tree_count * Capacity(t)
      empty == membership_proof_at(t, at)
      Fail(why) == [err |-> why, tree |-> t, info |-> <<>>]
  IN CASE Len(leaves) # Capacity(t) -> Fail("IncorrectBatchSize")
       [] Len(leaves) = Capacity(t) /\ empty.err # "none" -> Fail(empty.err)
       [] OTHER -> InsertedFor(t, leaves, at, empty, append_sub_trees(t, leaves, TRUE))

batch_insert_with_circuit_info(t, leaves) ==
  LET Insert(acc, batch) ==
        LET one == insert_for_circuit(acc.tree, batch)
        IN IF acc.err # "none" THEN acc ELSE [one EXCEPT !.info = acc.info \o @]
      start == [err |-> "none", tree |-> t, info |-> <<>>]
  IN IF Len(leaves) % Capacity(t) # 0 THEN [start EXCEPT !.err = "IncorrectBatchSize"]
     ELSE FoldLeft(Insert, start, Chunks(leaves, Capacity(t)))

-----------------------------------------------------------------------------
(* The append-only tree keeps, for each row, the last node that will be a  *)
(* left sibling.                                                           *)

new_append_only_tree(height, sub_height) ==
  [tree_height |-> height, sub_tree_height |-> sub_height, sub_tree_count |-> 0,
   root |-> Zero, frontier |-> [k \in 0 .. height - 1 |-> Zero]]

\* The side of the node at each row above a leaf: bit i of its index.
index_to_directions(index, height) ==
  [k \in 0 .. height - 1 |-> IF (index \div 2 ^ k) % 2 = 0 THEN "right" ELSE "left"]

\* The row of the highest node a leaf completes, and row 0 for a left leaf.
get_frontier_index(leaf_index) ==
  IF leaf_index % 2 = 0 THEN 0
  ELSE CHOOSE e \in 1 .. leaf_index + 1 :
         /\ (leaf_index + 1 - 2 ^ e) % 2 ^ (e + 1) = 0
         /\ \A d \in 1 .. e - 1 : (leaf_index + 1 - 2 ^ d) % 2 ^ (d + 1) # 0

\* The metadata's root is never written.
append_to_frontier(t, leaves) ==
  LET Add(acc, batch) ==
        LET sub == make_complete_tree(t.sub_tree_height, batch)
            index == acc.tree.sub_tree_count
            on == index_to_directions(index, t.tree_height)
            path[k \in 0 .. t.tree_height] ==
              CASE k = 0 -> sub[0]
                [] k > 0 /\ on[k - 1] = "left" -> tree_hash(acc.tree.frontier[k - 1], path[k - 1])
                [] OTHER -> tree_hash(path[k - 1], Zero)
            row == get_frontier_index(index)
        IN Done([acc.tree EXCEPT !.frontier[row] = path[row], !.sub_tree_count = @ + 1],
                path[t.tree_height])
  IN CASE Len(leaves) % Capacity(t) # 0 -> Refused(t, "IncorrectBatchSize")
       [] leaves = <<>> -> Done(t, t.root)
       [] t.sub_tree_count > 2 ^ t.tree_height -> Refused(t, "TreeIsFull")
       [] OTHER -> FoldLeft(Add, Done(t, Zero), Chunks(leaves, Capacity(t)))

=============================================================================
