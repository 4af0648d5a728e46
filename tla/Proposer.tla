------------------------------ MODULE Proposer ------------------------------
(***************************************************************************)
(* One proposer: its event listener, its intake, its assembler and its     *)
(* finality checker, interleaved with each other and with the chain.       *)
(***************************************************************************)
EXTENDS EventListener, BlockAssembly

Environment ==
  \/ \E d \in Deposits : EscrowDeposit(d)
  \/ ~ourTurn /\ \E D \in SUBSET Deposits, T \in SUBSET Txs : OtherProposes(D, T)
  \/ PassTurn
  \/ StreamTerminated
  \/ LoseLog
  \/ pause_block_assembly
  \/ resume_block_assembly

Intake == \E t \in Txs : CheckTx(t) \/ StoreTx(t)

Assembly ==
  \/ await_trigger
  \/ NotAssembling
  \/ InsufficientTransactions
  \/ assembler = "triggered" /\ \E s \in Selections : AssemblyFails(s) \/ assemble_block(s)

FinalityChecker == DrainPending \/ propose_block

Next ==
  \/ Environment
  \/ ListenerStep
  \/ Intake
  \/ Assembly
  \/ QueueBlock
  \/ FinalityChecker

Spec == Init /\ [][Next]_vars

\* Each task is a tokio task that runs whenever it can.  Nothing is assumed
\* of the chain, of clients, or of the operator who pauses and resumes.
FairSpec ==
  /\ Spec
  /\ WF_vars(ListenerStep)
  /\ WF_vars(QueueBlock)
  /\ WF_vars(FinalityChecker)

-----------------------------------------------------------------------------
(* Properties *)

StoredBlock == [number : Nat, by : {Us, Other},
                commitments : [deps : [Deposits -> Nat], txs : [Txs -> Nat]]]

TypeOK ==
  /\ \A i \in DOMAIN log : \/ log[i].kind = "deposit" /\ log[i].deposit \in Deposits
                           \/ log[i].kind = "block" /\ log[i].block \in Block
  /\ ourTurn \in BOOLEAN
  /\ attempts \in Seq(0 .. MaxAttempts)
  /\ listener \in {"retry", "listening", "restart", "stopped", "panicked"}
  /\ pos \in 0 .. Len(log)
  /\ expected \in 0 .. layer2_block_number
  /\ synchronised \in BOOLEAN /\ running \in BOOLEAN
  /\ nullifiers \subseteq {NullifierOf[t] : t \in Txs}
  /\ roots \in Seq(Nat)
  /\ stored \in Seq(StoredBlock)
  /\ deposits \in [Deposits -> Nat]
  /\ transactions \in [Txs -> Nat] /\ checked \in [Txs -> Nat]
  /\ assembler \in {"waiting", "triggered", "push"}
  /\ assembled \in Block
  /\ pending_blocks \in Seq(Block) /\ draining \in Seq(Block)

\* restart_event_listener never finds the proposer synchronised, so it never
\* panics, though the assembler can set the status between the failed event
\* and the restart.
RestartIsNeverSynchronised == listener = "restart" => ~synchronised

\* The historic root tree, which intake and provers consult, holds roots of
\* consecutive blocks, each once, ending at the last block handled, however
\* events are replayed, lost and skipped: no root is missed or repeated
\* except from the front, by a reset.
RootsFollowTheChain ==
  listener # "panicked" =>
    \A i \in DOMAIN roots : roots[i] = expected - (Len(roots) - i)

\* No transaction or deposit is in two documents of ours: what a lost
\* connection or a retry puts in the mempool again is not put in a second
\* block, as long as the first one is remembered.
OwnBlocksAreDisjoint ==
  \A i, j \in DOMAIN stored :
    i # j /\ stored[i].by = Us /\ stored[j].by = Us =>
      /\ Support(stored[i].commitments.deps) \cap Support(stored[j].commitments.deps) = {}
      /\ Support(stored[i].commitments.txs) \cap Support(stored[j].commitments.txs) = {}

\* Every block of ours is on the chain or refused.
NothingQueued == assembler # "push" /\ pending_blocks = <<>> /\ draining = <<>>

\* A proposer that says it is synchronised and has handled every block has
\* the chain's trees, so the next block it assembles is computed on them.
SyncedStateIsTheChain ==
  /\ synchronised /\ NothingQueued /\ expected = layer2_block_number /\ listener # "panicked"
  => TreesAreAt(layer2_block_number)

\* The same as long as no block event was lost, no assembly failed and no
\* block of ours was refused, whoever proposed which block and however often
\* the stream was interrupted and replayed.
FaultFreeStateIsTheChain == ~faulty => SyncedStateIsTheChain

\* A proposer that missed blocks, or whose block lost against another one of
\* the same number, re-synchronises: once it has restarted its listener, the
\* replay has run to the end and it says it is synchronised, it has every
\* commitment and nullifier of the chain.
ResynchronisedHasTheChain ==
  /\ Len(attempts) > 1 /\ listener = "listening" /\ pos = Len(log)
  /\ synchronised /\ expected = layer2_block_number
  => /\ \A i \in DOMAIN Blocks : \E j \in DOMAIN leaves : leaves[j] = Commitments(Blocks[i])
     /\ ChainNullifiers(layer2_block_number) \subseteq nullifiers

NewestNotLost == lost > 0 => \E i \in lost + 1 .. Len(log) : log[i].kind = "block"

\* Once the newest block's event is not among those its subscription lost, and
\* unless the listener gives up or panics, it handles every block of the chain:
\* that event shows the gap and a replay fills it.  Nor is it locked out by
\* the assembler, which keeps the event handler out until its block is queued,
\* for which it needs the finality checker's lock: every assembled block is
\* queued in the end.
CatchesUp ==
  <>[](NewestNotLost /\ listener \notin {"stopped", "panicked"})
    => <>[](expected = layer2_block_number /\ assembler # "push")

=============================================================================
