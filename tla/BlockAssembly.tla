---------------------------- MODULE BlockAssembly ----------------------------
(***************************************************************************)
(* The proposer's intake of client transactions, its assembly of blocks    *)
(* and the finality checker that proposes them.                            *)
(***************************************************************************)
EXTENDS ProposerState

-----------------------------------------------------------------------------
(* Intake: process_nightfall_client_transaction checks a transaction and   *)
(* then stores it, with the database shared with everyone in between.  A   *)
(* client sends to every proposer and sends again when it hears no answer. *)

CheckTx(t) ==
  /\ sent[t] < MaxSends
  /\ transactions[t] = 0
  /\ \E i \in DOMAIN roots : roots[i] = SpendRoot
  /\ NullifierOf[t] \notin nullifiers
  /\ sent' = [sent EXCEPT ![t] = @ + 1]
  /\ checked' = [checked EXCEPT ![t] = @ + 1]
  /\ UNCHANGED <<chainVars, listenerVars, treeVars, mempoolVars, assemblyVars,
                 synchronised, stored, faulty>>

StoreTx(t) ==
  /\ checked[t] > 0
  /\ checked' = [checked EXCEPT ![t] = @ - 1]
  /\ transactions' = [transactions EXCEPT ![t] = @ + 1]
  /\ UNCHANGED <<chainVars, listenerVars, treeVars, deposits, sent, assemblyVars,
                 synchronised, stored, faulty>>

-----------------------------------------------------------------------------
(* The trigger *)

\* Deposits fill an entry in groups, the last one padded.
Groups(n) == (n + GROUP - 1) \div GROUP

break_pause == Groups(Count(deposits)) + Count(transactions) >= BLOCK_SIZE

SetRunning(r) ==
  /\ running' = r
  /\ UNCHANGED <<chainVars, listenerVars, treeVars, mempoolVars, intakeVars, assembler,
                 assembled, pending_blocks, draining, synchronised, stored, faulty>>

\* Only await_trigger reads the status, so a pause while a block is assembled
\* is taken to come when the trigger is next awaited.
pause_block_assembly == assembler = "waiting" /\ running /\ SetRunning(FALSE)
resume_block_assembly == ~running /\ SetRunning(TRUE)

\* A running trigger fires when the block is full enough or, in any case,
\* after max_wait_secs.
await_trigger ==
  /\ assembler = "waiting"
  /\ ourTurn
  /\ running \/ break_pause
  /\ running' = TRUE
  /\ assembler' = "triggered"
  /\ UNCHANGED <<chainVars, listenerVars, treeVars, mempoolVars, intakeVars, assembled,
                 pending_blocks, draining, synchronised, stored, faulty>>

-----------------------------------------------------------------------------
(* Assembly, under the lock on the synchronisation status.                 *)

SyncedNow == synchronised \/ layer2_block_number = 0

\* Mutant: nothing counts as being in a block already.
NoOnchainCommitments == [deps |-> {}, txs |-> {}]

\* all_commitments_onchain: the commitments of the stored documents, among
\* them those of blocks of ours that are not on the chain.
OnchainCommitments ==
  [deps |-> UNION {Support(stored[i].commitments.deps) : i \in DOMAIN stored},
   txs  |-> UNION {Support(stored[i].commitments.txs) : i \in DOMAIN stored}]

\* A withdraw without commitments is never stale.
PendingDeposits ==
  [d \in Deposits |-> IF d \in OnchainCommitments.deps THEN 0 ELSE deposits[d]]
PendingTxs ==
  [t \in Txs |-> IF t \in OnchainCommitments.txs THEN 0 ELSE transactions[t]]

\* The block takes the BLOCK_SIZE entries with the highest fees; fees are not
\* modelled, so that may be any of them.  Deposits go in whole groups.
Selections ==
  LET all == Groups(Count(PendingDeposits)) + Count(PendingTxs)
  IN {s \in [deps : {f \in [Deposits -> 0 .. Count(PendingDeposits)] :
                       \A d \in Deposits : f[d] <= PendingDeposits[d]},
             txs  : {f \in [Txs -> 0 .. Count(PendingTxs)] :
                       \A t \in Txs : f[t] <= PendingTxs[t]}] :
        /\ s.deps = PendingDeposits \/ Count(s.deps) % GROUP = 0
        /\ Groups(Count(s.deps)) + Count(s.txs) = Min({BLOCK_SIZE, all})}

\* What stays in the mempool.  Deposits are deleted by their secret hash and
\* transactions marked by their hash, so every copy goes.
Left(bag, pending, chosen) ==
  [x \in DOMAIN bag |-> IF chosen[x] > 0 THEN 0 ELSE pending[x]]

\* Insertion into the nullifier tree refuses a nullifier that is there.
Insertable(s) ==
  /\ \A t \in Support(s.txs) : s.txs[t] = 1 /\ NullifierOf[t] \notin nullifiers
  /\ \A t, u \in Support(s.txs) : NullifierOf[t] = NullifierOf[u] => t = u

\* Each root a transaction names must be in the historic root tree.
RootsKnown(s) == Support(s.txs) # {} => \E i \in DOMAIN roots : roots[i] = SpendRoot

\* The zero root of padding and of deposits is looked up at index 0.  When
\* another root is there the prover fails and the mock prover does not.
ZeroLeaf == roots = <<>> \/ roots[1] = 0

GoAround ==
  /\ assembler' = "waiting"
  /\ UNCHANGED <<running, assembled, pending_blocks, draining>>

NotAssembling ==
  /\ assembler = "triggered"
  /\ \/ ~ourTurn /\ UNCHANGED synchronised
     \/ ourTurn /\ ~SyncedNow /\ UNCHANGED synchronised
  /\ GoAround
  /\ UNCHANGED <<chainVars, listenerVars, treeVars, mempoolVars, intakeVars, stored, faulty>>

Assembling == assembler = "triggered" /\ ourTurn /\ SyncedNow /\ synchronised' = TRUE

\* Only stale entries, or none: they are cleaned out of the mempool.
InsufficientTransactions ==
  /\ Assembling
  /\ Count(PendingDeposits) + Count(PendingTxs) = 0
  /\ deposits' = NoDeposits /\ transactions' = NoTxs
  /\ GoAround
  /\ UNCHANGED <<chainVars, listenerVars, treeVars, intakeVars, stored, faulty>>

\* The mempool is emptied of the selection and the commitments are inserted
\* before anything can fail.
Prepare(s) ==
  /\ Assembling
  /\ Count(PendingDeposits) + Count(PendingTxs) > 0
  /\ s \in Selections
  /\ deposits' = Left(deposits, PendingDeposits, s.deps)
  /\ transactions' = Left(transactions, PendingTxs, s.txs)
  /\ leaves' = Append(leaves, Commitments(s))
  /\ UNCHANGED <<chainVars, listenerVars, roots, intakeVars>>

\* Nothing is rolled back.  Nullifiers are inserted in batches of eight: some
\* may be in when one is refused.
AssemblyFails(s) ==
  /\ Prepare(s)
  /\ \/ ~Insertable(s) /\ \E N \in SUBSET Nullifiers(s) : nullifiers' = nullifiers \cup N
     \/ /\ Insertable(s) /\ ~(RootsKnown(s) /\ ZeroLeaf)
        /\ nullifiers' = nullifiers \cup Nullifiers(s)
  /\ faulty' = TRUE
  /\ GoAround
  /\ UNCHANGED stored

\* The block's number is the number of documents.  The historic root is
\* computed and not kept: it comes with the BlockProposed event.
assemble_block(s) ==
  LET k == Len(roots) - 1
      b == [by |-> Us, deps |-> s.deps, txs |-> s.txs,
            onto |-> IF TreesAreAt(k) THEN k ELSE Nowhere]
  IN /\ Prepare(s)
     /\ Insertable(s) /\ RootsKnown(s)
     /\ nullifiers' = nullifiers \cup Nullifiers(s)
     /\ stored' = Append(stored, [number |-> Len(stored), commitments |-> Commitments(b),
                                  by |-> Us])
     /\ assembled' = b
     /\ assembler' = "push"
     /\ UNCHANGED <<running, pending_blocks, draining, faulty>>

\* The block is queued, for which the queue's lock is needed, and with that
\* the lock on the synchronisation status is released.
QueueBlock ==
  /\ assembler = "push"
  /\ draining = <<>>
  /\ pending_blocks' = Append(pending_blocks, assembled)
  /\ assembled' = NoBlock
  /\ assembler' = "waiting"
  /\ UNCHANGED <<chainVars, listenerVars, treeVars, mempoolVars, intakeVars, running,
                 draining, synchronised, stored, faulty>>

-----------------------------------------------------------------------------
(* The finality checker *)

DrainPending ==
  /\ draining = <<>>
  /\ pending_blocks # <<>>
  /\ draining' = pending_blocks
  /\ pending_blocks' = <<>>
  /\ UNCHANGED <<chainVars, listenerVars, treeVars, mempoolVars, intakeVars, running,
                 assembler, assembled, synchronised, stored, faulty>>

\* A refused block is logged and dropped.
AfterProposal(accepted) == Tail(draining)

propose_block ==
  LET b == Head(draining)
      accepted == ourTurn /\ Acceptable(b)
  IN /\ draining # <<>>
     /\ draining' = AfterProposal(accepted)
     /\ log' = IF accepted THEN Append(log, BlockProposed(b)) ELSE log
     /\ faulty' = (faulty \/ ~accepted)
     /\ UNCHANGED <<ourTurn, listenerVars, treeVars, mempoolVars, intakeVars, running,
                    assembler, assembled, pending_blocks, synchronised, stored>>

=============================================================================
