-------------------------------- MODULE Trees --------------------------------
(***************************************************************************)
(* Proposers keep the three trees of the rollup: the commitments, the      *)
(* nullifiers and the historic roots of the commitment tree.  A proposer   *)
(* that assembles a block inserts with circuit information; every other    *)
(* proposer, and the contract through the proof it verifies, must come to  *)
(* the same roots from the block alone.                                    *)
(*                                                                         *)
(* The mempool, the trigger and the listener's retries are modelled in     *)
(* BlockAssembly and EventListener: here a block holds any commitments and *)
(* nullifiers, and events arrive in order.                                 *)
(***************************************************************************)
EXTENDS RollupCircuits

CONSTANTS
  Proposers,
  TreeHeight,        \* of the commitment and nullifier trees, in subtrees
  SubTreeHeight,
  HistoricHeight,
  Contents,          \* [cs, ns]: what a block may be made of
  BlockSize,         \* transactions in a block, padding included
  MaxChain,          \* bound on the blocks of the chain
  MaxQueue,          \* bound on the blocks a proposer has assembled ahead
  MaxSpoils          \* bound on the proposers that go wrong: an assembly fails, or
                     \* a block is refused; they assemble no more

ASSUME HeightsAssumption ==
  /\ {TreeHeight, SubTreeHeight, HistoricHeight, MaxChain, MaxQueue, MaxSpoils} \subseteq Nat
  /\ BlockSize \in {64, 256, 1024}

\* Blocks are padded: a nullifier for each commitment, and whole subtrees.
ASSUME ContentsAssumption ==
  \A c \in Contents :
    /\ c.cs \in Seq(Nat) /\ c.ns \in Seq(Nat)
    /\ Len(c.cs) = Len(c.ns) /\ Len(c.ns) % 2 ^ SubTreeHeight = 0

VARIABLES
  chain,             \* the contract's blocks
  commitment_tree, nullifier_tree, historic_root_tree,   \* per proposer
  expected,          \* the number of the block a proposer expects next
  synchronised,
  stored,            \* its documents of blocks: [number, cs, by]
  queue,             \* its assembled blocks
  spoiled            \* history: whether its trees hold what the chain has not

treeVars == <<commitment_tree, nullifier_tree, historic_root_tree>>
vars == <<chain, treeVars, expected, synchronised, stored, queue, spoiled>>

-----------------------------------------------------------------------------
(* The trees of a proposer, as get_db_connection makes them and as a reset *)
(* makes them again: the historic root tree's zero leaf is not put back.   *)

append_historic_commitment_root(t, root, update_tree) == append_sub_trees(t, <<root>>, update_tree)

new_commitment_tree == new_mutable_tree(TreeHeight, SubTreeHeight)
new_nullifier_tree == new_indexed_tree(TreeHeight, SubTreeHeight)
new_historic_root_tree == new_mutable_tree(HistoricHeight, 0)
reset_commitment_tree(t) == reset_mutable_tree(t)
reset_nullifier_tree == new_nullifier_tree
reset_historic_root_tree(t) == reset_mutable_tree(t)

\* With the zero leaf that a proposer starts with.
FirstHistoricRootTree == append_historic_commitment_root(new_historic_root_tree, Zero, TRUE).tree

\* A zero root is looked up at index 0.
historic_membership_proof(t, root) ==
  IF root = Zero THEN membership_proof_at(t, 0) ELSE membership_proof_of(t, root)

-----------------------------------------------------------------------------
(* The contract's roots *)

RootsAt(n) ==
  IF n = 0
  THEN [commitments |-> Zero, nullifiers |-> new_nullifier_tree.tree.root, historic |-> Zero]
  ELSE chain[n].new
ContractRoots == RootsAt(Len(chain))

Spoils == Cardinality({p \in Proposers : spoiled[p]})

Init ==
  /\ chain = <<>>
  /\ commitment_tree = [p \in Proposers |-> new_commitment_tree]
  /\ nullifier_tree = [p \in Proposers |-> new_nullifier_tree]
  /\ historic_root_tree = [p \in Proposers |-> FirstHistoricRootTree]
  /\ expected = [p \in Proposers |-> 0]
  /\ synchronised = [p \in Proposers |-> FALSE]
  /\ stored = [p \in Proposers |-> <<>>]
  /\ queue = [p \in Proposers |-> <<>>]
  /\ spoiled = [p \in Proposers |-> FALSE]

-----------------------------------------------------------------------------
(* Assembly: prepare_state_transition.  The commitments and the nullifiers *)
(* are inserted for good, the new historic root only in the cache, and     *)
(* nothing is undone when a later part fails.                              *)

Assembling(p) ==
  /\ synchronised[p] \/ chain = <<>>
  /\ synchronised' = [synchronised EXCEPT ![p] = TRUE]
  /\ Len(queue[p]) < MaxQueue /\ Len(chain) < MaxChain /\ ~spoiled[p]
  /\ commitment_tree[p].sub_tree_count < 2 ^ TreeHeight - 2

\* The transactions in a block name roots that the intake has looked up.
KnownRoots(p) ==
  {Zero} \cup {r \in {chain[i].new.commitments : i \in DOMAIN chain} :
                 is_leaf(historic_root_tree[p], r)}

Insertion(p, c) ==
  [cs |-> batch_insert_with_circuit_info(commitment_tree[p],
            [k \in DOMAIN c.cs |-> Leaf(c.cs[k])]),
   ns |-> batch_insert_nullifiers_with_circuit_info(nullifier_tree[p], c.ns)]

assemble_block(p, c, ins, rootProof, preview) ==
  LET old == [commitments |-> commitment_tree[p].root,
              nullifiers |-> nullifier_tree[p].tree.root,
              historic |-> historic_root_tree[p].root]
      index == historic_root_tree[p].sub_tree_count
  IN /\ ins.ns.err = "none" /\ rootProof.err = "none"
     /\ commitment_tree' = [commitment_tree EXCEPT ![p] = ins.cs.tree]
     /\ nullifier_tree' = [nullifier_tree EXCEPT ![p] = ins.ns.n]
     /\ historic_root_tree' = [historic_root_tree EXCEPT ![p] = preview.tree]
     /\ queue' = [queue EXCEPT ![p] =
          Append(@, [by |-> p, content |-> c, old |-> old,
                     new |-> [commitments |-> ins.cs.tree.root,
                              nullifiers |-> ins.ns.n.tree.root,
                              historic |-> preview.root],
                     cs |-> ins.cs.info, ns |-> ins.ns.info, rootProof |-> rootProof,
                     historicProof |-> membership_proof_at(preview.tree, index)])]
     /\ stored' = [stored EXCEPT ![p] =
          Append(@, [number |-> Len(stored[p]), cs |-> c.cs, by |-> p])]
     /\ UNCHANGED <<chain, expected, spoiled>>

\* A nullifier that is in the tree already, or twice in the block.
assembly_fails(p, ins) ==
  /\ Spoils < MaxSpoils
  /\ ins.ns.err # "none"
  /\ commitment_tree' = [commitment_tree EXCEPT ![p] = ins.cs.tree]
  /\ nullifier_tree' = [nullifier_tree EXCEPT ![p] = ins.ns.n]
  /\ spoiled' = [spoiled EXCEPT ![p] = TRUE]
  /\ UNCHANGED <<chain, historic_root_tree, expected, stored, queue>>

Transition(p, c, ins) ==
  \/ \E root \in KnownRoots(p) :
       assemble_block(p, c, ins, historic_membership_proof(historic_root_tree[p], root),
         append_historic_commitment_root(historic_root_tree[p], ins.cs.tree.root, FALSE))
  \/ assembly_fails(p, ins)
prepare_state_transition(p, c) == Transition(p, c, Insertion(p, c))

-----------------------------------------------------------------------------
(* The contract takes a block when its proof verifies for the roots the    *)
(* contract has; a block that is refused is gone.                          *)

propose_block(p) ==
  /\ queue[p] # <<>>
  /\ queue' = [queue EXCEPT ![p] = Tail(@)]
  /\ LET b == Head(queue[p])
     IN \/ /\ b.old = ContractRoots
           /\ chain' = Append(chain, [by |-> b.by, content |-> b.content, new |-> b.new])
           /\ UNCHANGED spoiled
        \/ /\ b.old # ContractRoots
           /\ Spoils < MaxSpoils \/ spoiled[p]
           /\ spoiled' = [spoiled EXCEPT ![p] = TRUE]
           /\ UNCHANGED chain
  /\ UNCHANGED <<treeVars, expected, synchronised, stored>>

-----------------------------------------------------------------------------
(* process_nightfall_event, a block that was proposed                      *)

EventOf(p) == chain[expected[p] + 1]
NextEvent(p) == expected[p] < Len(chain)
DocsOf(p, n) == {i \in DOMAIN stored[p] : stored[p][i].number = n}
Mismatch(p) ==
  LET docs == DocsOf(p, expected[p])
      doc == stored[p][CHOOSE i \in docs : \A j \in docs : i <= j]
  IN docs # {} /\ (doc.cs # EventOf(p).content.cs \/ doc.by # EventOf(p).by)

\* The document goes, and the restart that follows resets the trees.
block_hash_error(p) ==
  LET docs == DocsOf(p, expected[p])
      gone == CHOOSE i \in docs : \A j \in docs : i <= j
  IN /\ NextEvent(p) /\ Mismatch(p)
     /\ Spoils < MaxSpoils \/ spoiled[p]
     /\ stored' = [stored EXCEPT ![p] = RemoveAt(@, gone)]
     /\ synchronised' = [synchronised EXCEPT ![p] = FALSE]
     /\ commitment_tree' = [commitment_tree EXCEPT ![p] = reset_commitment_tree(@)]
     /\ nullifier_tree' = [nullifier_tree EXCEPT ![p] = reset_nullifier_tree]
     /\ historic_root_tree' = [historic_root_tree EXCEPT ![p] = reset_historic_root_tree(@)]
     /\ spoiled' = [spoiled EXCEPT ![p] = TRUE]
     /\ UNCHANGED <<chain, expected, queue>>

\* Our own block is in the trees already, unless we are catching up.
NeedsUpdate(p) ==
  \/ EventOf(p).by # p
  \/ ~synchronised[p] /\ Len(chain) # 1
  \/ commitment_tree[p].root = Zero

process_block_proposed(p) ==
  LET b == EventOf(p)
      leaves == [k \in DOMAIN b.content.cs |-> Leaf(b.content.cs[k])]
      ns == insert_leaves(nullifier_tree[p], b.content.ns)
      cs == append_sub_trees(commitment_tree[p], leaves, TRUE)
  IN /\ NextEvent(p) /\ ~Mismatch(p)
     /\ NeedsUpdate(p) => ns.err = "none"
     /\ expected' = [expected EXCEPT ![p] = @ + 1]
     /\ commitment_tree' =
          IF NeedsUpdate(p) THEN [commitment_tree EXCEPT ![p] = cs.tree] ELSE commitment_tree
     /\ nullifier_tree' =
          IF NeedsUpdate(p) THEN [nullifier_tree EXCEPT ![p] = ns.n] ELSE nullifier_tree
     /\ historic_root_tree' = [historic_root_tree EXCEPT ![p] =
          append_historic_commitment_root(@, b.new.commitments, TRUE).tree]
     /\ synchronised' = [synchronised EXCEPT ![p] = (Len(chain) = expected[p] + 1)]
     /\ stored' = IF DocsOf(p, expected[p]) # {} THEN stored
                  ELSE [stored EXCEPT ![p] =
                          Append(@, [number |-> expected[p], cs |-> b.content.cs, by |-> b.by])]
     /\ UNCHANGED <<chain, queue, spoiled>>

Next ==
  \E p \in Proposers :
    \/ Assembling(p) /\ \E c \in Contents : prepare_state_transition(p, c)
    \/ propose_block(p)
    \/ block_hash_error(p)
    \/ process_block_proposed(p)

Spec == Init /\ [][Next]_vars

-----------------------------------------------------------------------------
(* Properties *)

\* What the blocks of a proposer hold that are in its trees and not yet behind
\* expected.
Ahead(p) ==
  {queue[p][i].content : i \in DOMAIN queue[p]}
  \cup {chain[i].content : i \in {j \in expected[p] + 1 .. Len(chain) : chain[j].by = p}}

CommitmentsOfChain(n) ==
  FlattenSeq([i \in 1 .. n |-> [k \in DOMAIN chain[i].content.cs |-> Leaf(chain[i].content.cs[k])]])

NodesAre(t, leaves) ==
  LET all == make_complete_tree(Height(t), leaves)
  IN t.root = all[0] /\ \A i \in DOMAIN all : get_node(t, i) = all[i]

\* A proposer that has handled n blocks, its own among them or not, holds the
\* trees of those n blocks: the roots the contract had, which it got from the
\* circuit's insertions of whoever assembled them, every node where a tree
\* built from the leaves alone has it, nothing left in a cache, and the root
\* that an append-only tree of the same leaves has.
ReplicasHoldTheChain ==
  \A p \in Proposers :
    ~spoiled[p] /\ Ahead(p) = {} =>
      LET n == expected[p]
          leaves == CommitmentsOfChain(n)
          frontier == append_to_frontier(new_append_only_tree(TreeHeight, SubTreeHeight), leaves)
      IN /\ commitment_tree[p].root = RootsAt(n).commitments
         /\ nullifier_tree[p].tree.root = RootsAt(n).nullifiers
         /\ historic_root_tree[p].root = RootsAt(n).historic
         /\ NodesAre(commitment_tree[p], leaves)
         /\ NodesAre(historic_root_tree[p], [i \in 1 .. n + 1 |-> RootsAt(i - 1).commitments])
         /\ historic_root_tree[p].cache = <<>>
         /\ frontier.root = RootsAt(n).commitments

\* The block's transactions: its leaves, and padding up to the size.
TransactionsOf(b) ==
  [i \in 1 .. BlockSize |->
     IF i <= Len(b.content.cs)
     THEN [fee |-> 1, data |-> <<b.content.cs[i], b.content.ns[i]>>]
     ELSE [fee |-> 0, data |-> <<0, 0>>]]

\* Padding leaves the roots as they are.
PaddingOutput(b) ==
  BaseOutput([ok |-> TRUE, commitments |-> Roots(b.new.commitments, b.new.commitments),
              nullifiers |-> Roots(b.new.nullifiers, b.new.nullifiers)],
             base_bn254_checks(SubSeq(TransactionsOf(b), 5, 8)))

RollupOf(b) ==
  LET first == BaseOutput(base_bn254_extra_checks(SubTreeHeight, {b.rootProof}, b.old.historic,
                                                  b.cs, b.ns),
                          base_bn254_checks(SubSeq(TransactionsOf(b), 1, 4)))
      padding == PaddingOutput(b)
  IN prove([i \in 1 .. BlockSize \div 4 |-> IF i = 1 THEN first ELSE padding],
           b.historicProof, b.old.historic)

\* What the contract's verifier compares.
Verifies(b, rollup) ==
  /\ rollup.ok
  /\ rollup.old = b.old /\ rollup.new = b.new
  /\ rollup.public_hash = PublicHash(TransactionsOf(b))

\* A block in a proposer's queue that starts from the contract's roots has a
\* proof that the contract verifies: prepare_state_transition's paths, read
\* while the trees change under them, satisfy the rollup's circuits, and the
\* circuits come to the roots in the block and to the hash of the public data
\* that propose_block computes from its transactions.
AssemblyIsProvable ==
  \A p \in Proposers : \A i \in DOMAIN queue[p] :
    queue[p][i].old = ContractRoots => Verifies(queue[p][i], RollupOf(queue[p][i]))

Values == (UNION {ToSet(c.ns) : c \in Contents}) \ {0}
SpentFor(p) ==
  (UNION {ToSet(chain[i].content.ns) : i \in 1 .. expected[p]})
  \cup (UNION {ToSet(c.ns) : c \in Ahead(p)})

\* The leaf database is a list in the order of the values.
ListIsSorted(db) ==
  \A u \in DOMAIN db :
    LET above == {v \in DOMAIN db : v > u}
    IN IF above = {} THEN db[u].next_value = 0 /\ db[u].next_index = 0
       ELSE /\ db[u].next_value = CHOOSE v \in above : \A w \in above : v <= w
            /\ db[u].next_index = db[db[u].next_value].id

\* The list survives insertions that stop half way.
ListsAreSorted == \A p \in Proposers : ListIsSorted(nullifier_tree[p].leaves)

\* As long as no insertion has stopped, get_non_membership_proof refuses
\* exactly the values that a block in the trees has nullified.
SpentAreRefused ==
  \A p \in Proposers : ~spoiled[p] =>
    \A v \in Values :
      get_non_membership_proof(nullifier_tree[p], v).err
        = IF v \in SpentFor(p) THEN "LeafExists" ELSE "none"

\* And what it answers for the others verifies.
AnswersVerify ==
  \A p \in Proposers : ~spoiled[p] =>
    \A v \in Values \ SpentFor(p) :
      verify(get_non_membership_proof(nullifier_tree[p], v), nullifier_tree[p].tree.root)

\* Proofs of non-membership are had for exactly the values that no block in the
\* trees has nullified, and every database is a list in order, so that the low
\* leaf such a proof is about is the only one.
NonMembershipIsExact == ListsAreSorted /\ SpentAreRefused

\* Every proof that the trees give verifies: the circuits accept what an
\* assembly read from them, and a verifier the low leaf of a value.
ProofsVerify == AssemblyIsProvable /\ AnswersVerify

=============================================================================
