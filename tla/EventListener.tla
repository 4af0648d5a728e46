---------------------------- MODULE EventListener ----------------------------
(***************************************************************************)
(* The proposer's event listener: nightfall_event_listener.rs subscribes,  *)
(* retries and restarts; nightfall_event.rs handles the events.            *)
(***************************************************************************)
EXTENDS ProposerState

-----------------------------------------------------------------------------
(* Subscriptions *)

\* The filter asks for every event from the genesis block on.
SubscribeAt == 0

Tick(stack) == [stack EXCEPT ![Len(stack)] = @ + 1]

\* listen_for_events returned an error: every start_event_listener that has
\* used its attempts up returns, and with it the listen_for_events of the
\* loop around it.
AfterError(stack) ==
  SubSeq(stack, 1, Max({0} \cup {i \in DOMAIN stack : stack[i] < MaxAttempts}))

Subscribe ==
  /\ listener = "retry"
  /\ attempts' = Tick(attempts)
  /\ listener' = "listening" /\ pos' = SubscribeAt /\ lost' = 0
  /\ UNCHANGED <<chainVars, expected, faults, treeVars, mempoolVars, intakeVars,
                 assemblyVars, synchronised, stored, faulty>>

\* The subscription cannot be made, or its stream ends.
StreamTerminated ==
  /\ listener \in {"retry", "listening"}
  /\ faults < MaxFaults
  /\ faults' = faults + 1
  /\ pos' = 0 /\ lost' = 0
  /\ LET stack == AfterError(IF listener = "retry" THEN Tick(attempts) ELSE attempts)
     IN /\ attempts' = stack
        /\ listener' = IF stack = <<>> THEN "stopped" ELSE "retry"
  /\ UNCHANGED <<chainVars, expected, treeVars, mempoolVars, intakeVars,
                 assemblyVars, synchronised, stored, faulty>>

NextEvent(kind) ==
  /\ listener = "listening"
  /\ pos < Len(log)
  /\ log[pos + 1].kind = kind

LoseLog ==
  /\ listener = "listening" /\ pos < Len(log)
  /\ faults < MaxFaults
  /\ faults' = faults + 1
  /\ pos' = pos + 1
  /\ lost' = IF log[pos + 1].kind = "block" THEN pos + 1 ELSE lost
  /\ faulty' = (faulty \/ log[pos + 1].kind = "block")
  /\ UNCHANGED <<chainVars, attempts, listener, expected, treeVars, mempoolVars,
                 intakeVars, assemblyVars, synchronised, stored>>

-----------------------------------------------------------------------------
(* DepositEscrowed *)

\* find_deposit looks for the deposit among the client transactions and never
\* finds one, so every delivery of the event adds a deposit to the mempool.
process_deposit_escrowed_event ==
  /\ NextEvent("deposit")
  /\ pos' = pos + 1
  /\ deposits' = [deposits EXCEPT ![log[pos + 1].deposit] = @ + 1]
  /\ UNCHANGED <<chainVars, attempts, listener, expected, faults, lost, treeVars,
                 transactions, intakeVars, assemblyVars, synchronised, stored, faulty>>

-----------------------------------------------------------------------------
(* BlockProposed.  The handler holds the lock on the synchronisation       *)
(* status throughout, and the assembler holds it until its block is        *)
(* queued, so the handler waits for that.                                  *)

HeadBlock == log[pos + 1].block
HeadNumber == BlocksIn(pos)

NextBlockEvent == NextEvent("block") /\ assembler # "push"

\* Ways out that restart the listener.  Mutant: the status is left as it is.
AskRestartSynchronised ==
  /\ listener' = "restart"
  /\ pos' = 0 /\ lost' = 0
  /\ UNCHANGED synchronised

AskRestart ==
  /\ synchronised' = FALSE
  /\ listener' = "restart"
  /\ pos' = 0 /\ lost' = 0

\* Mutant: a block number that skips some is not noticed.
MissedNever == FALSE

Missed == expected < HeadNumber

MissingBlocks ==
  /\ NextBlockEvent
  /\ Missed
  /\ AskRestart
  /\ UNCHANGED <<chainVars, attempts, expected, faults, treeVars, mempoolVars,
                 intakeVars, assemblyVars, stored, faulty>>

\* Mutant: a block that was processed before is processed again.
SeenNever == FALSE

Seen == expected > HeadNumber

SkipBlock ==
  /\ NextBlockEvent
  /\ Seen
  /\ pos' = pos + 1
  /\ UNCHANGED <<chainVars, attempts, listener, expected, faults, lost, treeVars,
                 mempoolVars, intakeVars, assemblyVars, synchronised, stored, faulty>>

\* get_block_by_number finds the first document with the number.
DocsOf(n) == {i \in DOMAIN stored : stored[i].number = n}
FirstDoc(n) == stored[Min(DocsOf(n))]
Doc(b, n) == [number |-> n, commitments |-> Commitments(b), by |-> b.by]
SameHash(x, y) == x.commitments = y.commitments /\ x.by = y.by

Mismatch ==
  DocsOf(HeadNumber) # {} /\ ~SameHash(FirstDoc(HeadNumber), Doc(HeadBlock, HeadNumber))

BlockHashError ==
  /\ NextBlockEvent
  /\ expected = HeadNumber
  /\ Mismatch
  /\ LET gone == Min(DocsOf(HeadNumber))
     IN stored' = SubSeq(stored, 1, gone - 1) \o SubSeq(stored, gone + 1, Len(stored))
  /\ AskRestart
  /\ UNCHANGED <<chainVars, attempts, expected, faults, treeVars, mempoolVars,
                 intakeVars, assemblyVars, faulty>>

\* Mutant: the trees are updated for a block of ours as for any other.
NeedsUpdateAlways == TRUE

\* The trees already hold a block of ours, unless they are being rebuilt.  A
\* chain of one block counts as synchronised.
NeedsUpdate ==
  \/ HeadBlock.by # Us
  \/ ~synchronised /\ layer2_block_number # 1
  \/ leaves = <<>>

AcceptBlock ==
  LET n == HeadNumber
      clash == NeedsUpdate /\ Nullifiers(HeadBlock) \cap nullifiers # {}
  IN /\ NextBlockEvent
     /\ ~Missed /\ ~Seen
     /\ ~Mismatch
     /\ expected' = expected + 1
     /\ leaves' = IF NeedsUpdate THEN Append(leaves, Commitments(HeadBlock)) ELSE leaves
     /\ \/ /\ ~clash
           /\ nullifiers' = IF NeedsUpdate THEN nullifiers \cup Nullifiers(HeadBlock)
                            ELSE nullifiers
           /\ roots' = Append(roots, n + 1)
           /\ synchronised' = (layer2_block_number - n - 1 = 0)
           /\ stored' = IF DocsOf(n) = {} THEN Append(stored, Doc(HeadBlock, n)) ELSE stored
           /\ pos' = pos + 1
           /\ UNCHANGED listener
        \/ \* insert_leaves refuses a nullifier it has: the task panics
           /\ clash
           /\ listener' = "panicked"
           /\ synchronised' = (synchronised \/ layer2_block_number = 1)
           /\ UNCHANGED <<nullifiers, roots, stored, pos>>
     /\ UNCHANGED <<chainVars, attempts, faults, lost, mempoolVars, intakeVars,
                    assemblyVars, faulty>>

-----------------------------------------------------------------------------
(* restart_event_listener, which panics if the status says synchronised.   *)
(* LAYER2_BLOCKNUMBER and the stored blocks are kept, and the historic     *)
(* root tree does not get back the zero leaf it starts with.               *)

restart_event_listener ==
  /\ listener = "restart"
  /\ assembler # "push"
  /\ IF synchronised
     THEN /\ listener' = "panicked"
          /\ UNCHANGED <<attempts, treeVars, mempoolVars>>
     ELSE /\ listener' = "retry"
          /\ attempts' = Append(attempts, 0)
          /\ leaves' = <<>> /\ nullifiers' = {} /\ roots' = <<>>
          /\ deposits' = NoDeposits /\ transactions' = NoTxs
  /\ UNCHANGED <<chainVars, pos, expected, faults, lost, intakeVars, assemblyVars,
                 synchronised, stored, faulty>>

ListenerStep ==
  \/ Subscribe
  \/ process_deposit_escrowed_event
  \/ MissingBlocks \/ SkipBlock \/ BlockHashError \/ AcceptBlock
  \/ restart_event_listener

=============================================================================
