--------------------------- MODULE ProposerProofs ---------------------------
(***************************************************************************)
(* Proofs about Proposer for any deposits, transactions, block size and    *)
(* bounds: what a restart finds, the historic roots, the types, the        *)
(* documents of the proposer's own blocks, and the trees of a proposer to  *)
(* which nothing went wrong.                                               *)
(***************************************************************************)
EXTENDS Proposer, SumTheorems

-----------------------------------------------------------------------------
(* The log *)

LogIsSeq == \E S : log \in Seq(S)

HasBlock == \E i \in 1 .. Len(log) : log[i].kind = "block"

\* The only way the log changes.
LogKeptOrExtended == log' = log \/ \E e : log' = Append(log, e)

\* Whatever is appended, a sequence stays one and keeps its blocks.
LEMMA LogGrows ==
  ASSUME LogIsSeq, LogKeptOrExtended
  PROVE  LogIsSeq' /\ (HasBlock => HasBlock')
<1>1. PICK S : log \in Seq(S)
  BY DEF LogIsSeq
<1>2. CASE log' = log
  BY <1>1, <1>2 DEF LogIsSeq, HasBlock
<1>3. ASSUME NEW e, log' = Append(log, e)
      PROVE  LogIsSeq' /\ (HasBlock => HasBlock')
  <2>1. log \in Seq(S \cup {e})
    BY <1>1
  <2>2. log' \in Seq(S \cup {e}) /\ Len(log') = Len(log) + 1
        /\ \A i \in 1 .. Len(log) : log'[i] = log[i]
    BY <2>1, <1>3
  <2>3. Len(log) \in Nat
    BY <2>1
  <2>4. HasBlock => HasBlock'
    BY <2>2, <2>3 DEF HasBlock
  <2> QED
    BY <2>2, <2>4 DEF LogIsSeq
<1> QED
  BY <1>2, <1>3 DEF LogKeptOrExtended

-----------------------------------------------------------------------------
(* Counting blocks *)

CountIn(L, n) == Cardinality({i \in 1 .. n : L[i].kind = "block"})

LEMMA CountIsFinite ==
  ASSUME NEW L, NEW n \in Nat
  PROVE  IsFiniteSet({i \in 1 .. n : L[i].kind = "block"}) /\ CountIn(L, n) \in Nat
<1> DEFINE B == {i \in 1 .. n : L[i].kind = "block"}
<1>1. IsFiniteSet(1 .. n)
  BY FS_Interval
<1>2. IsFiniteSet(B)
  BY <1>1, FS_Subset
<1>3. Cardinality(B) \in Nat
  BY <1>2, FS_CardinalityType
<1> QED
  BY <1>2, <1>3 DEF CountIn

LEMMA CountNext ==
  ASSUME NEW L, NEW n \in Nat
  PROVE  CountIn(L, n + 1) = IF L[n + 1].kind = "block" THEN CountIn(L, n) + 1 ELSE CountIn(L, n)
<1> DEFINE B == {i \in 1 .. n : L[i].kind = "block"}
           C == {i \in 1 .. n + 1 : L[i].kind = "block"}
<1>1. IsFiniteSet(B) /\ CountIn(L, n) = Cardinality(B) /\ CountIn(L, n + 1) = Cardinality(C)
  BY CountIsFinite DEF CountIn
<1>2. C = IF L[n + 1].kind = "block" THEN B \cup {n + 1} ELSE B
  OBVIOUS
<1>3. n + 1 \notin B
  OBVIOUS
<1> HIDE DEF B, C
<1>4. Cardinality(B \cup {n + 1}) = Cardinality(B) + 1
  BY <1>1, <1>3, FS_AddElement
<1> QED
  BY <1>1, <1>2, <1>4

LEMMA CountGrows ==
  ASSUME NEW L, NEW m \in Nat, NEW n \in Nat, m <= n
  PROVE  CountIn(L, m) <= CountIn(L, n)
<1> DEFINE B == {i \in 1 .. m : L[i].kind = "block"}
           C == {i \in 1 .. n : L[i].kind = "block"}
<1>1. IsFiniteSet(C) /\ B \subseteq C
  BY CountIsFinite
<1> HIDE DEF B, C
<1>2. Cardinality(B) <= Cardinality(C)
  BY <1>1, FS_Subset
<1> QED
  BY <1>2 DEF CountIn, B, C

LEMMA CountOfNone ==
  ASSUME NEW L
  PROVE  CountIn(L, 0) = 0
<1>1. {i \in 1 .. 0 : L[i].kind = "block"} = {}
  OBVIOUS
<1> QED
  BY <1>1, FS_EmptySet DEF CountIn

LEMMA CountSame ==
  ASSUME NEW L, NEW M, NEW n \in Nat, \A i \in 1 .. n : L[i] = M[i]
  PROVE  CountIn(L, n) = CountIn(M, n)
<1>1. {i \in 1 .. n : L[i].kind = "block"} = {i \in 1 .. n : M[i].kind = "block"}
  OBVIOUS
<1> QED
  BY <1>1 DEF CountIn

\* The event of every block, and that it has no other.
LEMMA EventExists ==
  ASSUME NEW L, NEW m \in Nat, NEW k \in 1 .. CountIn(L, m)
  PROVE  \E i \in 1 .. m : L[i].kind = "block" /\ CountIn(L, i) = k
<1> DEFINE Found(n, c) == \E i \in 1 .. n : L[i].kind = "block" /\ CountIn(L, i) = c
           T == {n \in Nat : \A c \in 1 .. CountIn(L, n) : Found(n, c)}
<1>1. 0 \in T
  BY CountOfNone
<1>2. ASSUME NEW n \in Nat, n \in T PROVE n + 1 \in T
  <2>1. CountIn(L, n) \in Nat /\ CountIn(L, n + 1) \in Nat
    <3>1. n + 1 \in Nat
      OBVIOUS
    <3> QED
      BY <3>1, CountIsFinite
  <2> SUFFICES ASSUME NEW c \in 1 .. CountIn(L, n + 1) PROVE Found(n + 1, c)
    OBVIOUS
  <2>2. CASE c \in 1 .. CountIn(L, n)
    BY <1>2, <2>2
  <2>3. CASE c \notin 1 .. CountIn(L, n)
    <3>1. L[n + 1].kind = "block" /\ CountIn(L, n + 1) = c
      BY <2>1, <2>3, CountNext
    <3> QED
      BY <3>1
  <2> QED
    BY <2>2, <2>3
<1>3. m \in T
  <2> HIDE DEF T
  <2> QED
    BY <1>1, <1>2, Induction
<1> QED
  BY <1>3

LEMMA EventIsUnique ==
  ASSUME NEW L, NEW i \in Nat \ {0}, NEW j \in Nat \ {0},
         L[i].kind = "block", L[j].kind = "block", CountIn(L, i) = CountIn(L, j)
  PROVE  i = j
<1>1. ASSUME NEW a \in Nat \ {0}, NEW b \in Nat \ {0}, L[b].kind = "block", a < b
      PROVE  CountIn(L, a) < CountIn(L, b)
  <2>1. b - 1 \in Nat /\ a <= b - 1 /\ (b - 1) + 1 = b
    BY <1>1
  <2>2. CountIn(L, a) <= CountIn(L, b - 1)
    BY <2>1, CountGrows
  <2>3. CountIn(L, b) = CountIn(L, b - 1) + 1
    BY <1>1, <2>1, CountNext
  <2>4. CountIn(L, b - 1) \in Nat /\ CountIn(L, a) \in Nat
    BY <2>1, CountIsFinite
  <2> QED
    BY <2>2, <2>3, <2>4
<1>2. CountIn(L, i) \in Nat
  BY CountIsFinite
<1> QED
  BY <1>1, <1>2

LEMMA BlocksInIs ==
  ASSUME NEW n
  PROVE  BlocksIn(n) = CountIn(log, n) /\ BlocksIn(n)' = CountIn(log', n)
BY DEF BlocksIn, CountIn

\* A log with a block makes the contract's count nonzero.
LEMMA BlockIsCounted ==
  ASSUME LogIsSeq, HasBlock
  PROVE  layer2_block_number # 0
<1>1. Len(log) \in Nat
  BY DEF LogIsSeq
<1>2. PICK i \in 1 .. Len(log) : log[i].kind = "block"
  BY DEF HasBlock
<1>3. i - 1 \in Nat /\ (i - 1) + 1 = i /\ i \in Nat /\ i <= Len(log)
  BY <1>1
<1>4. CountIn(log, i) = CountIn(log, i - 1) + 1 /\ CountIn(log, i - 1) \in Nat
  BY <1>2, <1>3, CountNext, CountIsFinite
<1>5. CountIn(log, i) <= CountIn(log, Len(log)) /\ CountIn(log, Len(log)) \in Nat
  BY <1>1, <1>3, CountGrows, CountIsFinite
<1> QED
  BY <1>4, <1>5, BlocksInIs DEF layer2_block_number

\* The number of a delivered block is a natural.
LEMMA HeadNumberType ==
  ASSUME pos \in Nat
  PROVE  HeadNumber \in Nat
BY CountIsFinite, BlocksInIs DEF HeadNumber

\* Blocks and the events they come from.
BlocksAreListed ==
  \A i \in 1 .. Len(log) :
    log[i].kind = "block" => /\ BlocksIn(i) \in 1 .. layer2_block_number
                             /\ Blocks[BlocksIn(i)] = log[i].block

LEMMA BlockOf == LogIsSeq => BlocksAreListed
<1> SUFFICES ASSUME LogIsSeq, NEW i \in 1 .. Len(log), log[i].kind = "block"
             PROVE  /\ BlocksIn(i) \in 1 .. layer2_block_number
                    /\ Blocks[BlocksIn(i)] = log[i].block
  BY DEF BlocksAreListed
<1> DEFINE k == CountIn(log, i)
<1>1. Len(log) \in Nat
  BY DEF LogIsSeq
<1>2. i \in Nat \ {0} /\ i <= Len(log) /\ i - 1 \in Nat /\ (i - 1) + 1 = i
  BY <1>1
<1>3. k = CountIn(log, i - 1) + 1 /\ CountIn(log, i - 1) \in Nat
  BY <1>2, CountNext, CountIsFinite
<1>4. k <= CountIn(log, Len(log)) /\ CountIn(log, Len(log)) \in Nat
  BY <1>1, <1>2, CountGrows, CountIsFinite
<1>5. layer2_block_number = CountIn(log, Len(log)) /\ BlocksIn(i) = k
  BY BlocksInIs DEF layer2_block_number
<1>6. k \in 1 .. layer2_block_number
  BY <1>3, <1>4, <1>5
<1> HIDE DEF k
<1>7. EventOf(k) = i
  <2>1. /\ EventOf(k) \in 1 .. Len(log) /\ log[EventOf(k)].kind = "block"
        /\ BlocksIn(EventOf(k)) = k
    BY <1>5 DEF EventOf
  <2>2. CountIn(log, EventOf(k)) = CountIn(log, i)
    BY <2>1, BlocksInIs DEF k
  <2>3. EventOf(k) \in Nat \ {0}
    BY <1>1, <2>1
  <2> QED
    BY <1>2, <2>1, <2>2, <2>3, EventIsUnique
<1> QED
  BY <1>5, <1>6, <1>7 DEF Blocks

LEMMA EventOfIs ==
  ASSUME LogIsSeq, NEW k \in 1 .. layer2_block_number
  PROVE  /\ EventOf(k) \in 1 .. Len(log) /\ log[EventOf(k)].kind = "block"
         /\ BlocksIn(EventOf(k)) = k /\ Blocks[k] = log[EventOf(k)].block
<1>1. Len(log) \in Nat
  BY DEF LogIsSeq
<1>2. k \in 1 .. CountIn(log, Len(log))
  BY BlocksInIs DEF layer2_block_number
<1>3. \E i \in 1 .. Len(log) : log[i].kind = "block" /\ CountIn(log, i) = k
  BY <1>1, <1>2, EventExists
<1>4. \E i \in 1 .. Len(log) : log[i].kind = "block" /\ BlocksIn(i) = k
  BY <1>3, BlocksInIs
<1> QED
  BY <1>4 DEF EventOf, Blocks

LEMMA CountType ==
  ASSUME LogIsSeq
  PROVE  layer2_block_number \in Nat
<1>1. Len(log) \in Nat
  BY DEF LogIsSeq
<1> QED
  BY <1>1, CountIsFinite, BlocksInIs DEF layer2_block_number

\* What one more event does to the blocks.
LEMMA EventAdded ==
  ASSUME LogIsSeq, NEW e, log' = Append(log, e)
  PROVE  /\ e.kind # "block" => layer2_block_number' = layer2_block_number
         /\ e.kind = "block" => /\ layer2_block_number' = layer2_block_number + 1
                                /\ Blocks'[layer2_block_number + 1] = e.block
         /\ \A k \in 1 .. layer2_block_number : Blocks'[k] = Blocks[k]
         /\ \A n \in 0 .. Len(log) : BlocksIn(n)' = BlocksIn(n)
<1> DEFINE m == Len(log)
<1>1. PICK S : log \in Seq(S)
  BY DEF LogIsSeq
<1>2. /\ m \in Nat /\ Len(log') = m + 1 /\ log'[m + 1] = e
      /\ \A i \in 1 .. m : log'[i] = log[i]
  <2>1. log \in Seq(S \cup {e})
    BY <1>1
  <2> QED
    BY <2>1
<1> HIDE DEF m
<1>3. \A n \in 0 .. m : CountIn(log', n) = CountIn(log, n)
  <2> SUFFICES ASSUME NEW n \in 0 .. m PROVE CountIn(log', n) = CountIn(log, n)
    OBVIOUS
  <2>1. n \in Nat /\ \A i \in 1 .. n : log'[i] = log[i]
    BY <1>2
  <2> QED
    BY <2>1, CountSame
<1>4. layer2_block_number = CountIn(log, m) /\ layer2_block_number' = CountIn(log', m + 1)
  BY <1>2, BlocksInIs DEF layer2_block_number, m
<1>5. CountIn(log', m + 1) = IF e.kind = "block" THEN CountIn(log', m) + 1 ELSE CountIn(log', m)
  BY <1>2, CountNext
<1>6. CountIn(log', m) = CountIn(log, m)
  BY <1>2, <1>3
<1>7. /\ e.kind # "block" => layer2_block_number' = layer2_block_number
      /\ e.kind = "block" => layer2_block_number' = layer2_block_number + 1
  BY <1>4, <1>5, <1>6
<1>8. LogIsSeq'
  BY LogGrows DEF LogKeptOrExtended
<1>9. ASSUME NEW i \in 1 .. m + 1, log'[i].kind = "block"
      PROVE  Blocks'[CountIn(log', i)] = log'[i].block
  <2>1. LogIsSeq' => BlocksAreListed'
    BY BlockOf, PTL
  <2>2. Blocks'[BlocksIn(i)'] = log'[i].block
    BY <1>2, <1>8, <1>9, <2>1 DEF BlocksAreListed
  <2> QED
    BY <2>2, BlocksInIs
<1>10. ASSUME NEW k \in 1 .. layer2_block_number PROVE Blocks'[k] = Blocks[k]
  <2>1. PICK i \in 1 .. m : log[i].kind = "block" /\ CountIn(log, i) = k /\ Blocks[k] = log[i].block
    BY EventOfIs, BlocksInIs DEF m
  <2>2. i \in 1 .. m + 1 /\ i \in 0 .. m /\ log'[i] = log[i]
    BY <1>2
  <2>3. CountIn(log', i) = k
    BY <1>3, <2>1, <2>2
  <2> QED
    BY <1>9, <2>1, <2>2, <2>3
<1>11. ASSUME e.kind = "block" PROVE Blocks'[layer2_block_number + 1] = e.block
  BY <1>2, <1>4, <1>7, <1>9, <1>11
<1>12. \A n \in 0 .. m : BlocksIn(n)' = BlocksIn(n)
  BY <1>3, BlocksInIs
<1> QED
  BY <1>7, <1>10, <1>11, <1>12 DEF m

-----------------------------------------------------------------------------
(* What the steps of each task may touch. *)

\* A step that leaves the listener's state, the status and the roots alone.
Bystander == LogKeptOrExtended /\ UNCHANGED <<listener, synchronised, expected, roots, pos>>

LEMMA EnvironmentIsBystander ==
  ASSUME Environment
  PROVE  \/ Bystander
         \/ StreamTerminated
         \/ LoseLog
<1>1. ASSUME NEW d \in Deposits, EscrowDeposit(d)
      PROVE  Bystander
  BY <1>1 DEF EscrowDeposit, Bystander, LogKeptOrExtended, listenerVars, treeVars
<1>2. ASSUME NEW D \in SUBSET Deposits, NEW T \in SUBSET Txs, OtherProposes(D, T)
      PROVE  Bystander
  BY <1>2 DEF OtherProposes, Bystander, LogKeptOrExtended, listenerVars, treeVars
<1>3. CASE PassTurn
  BY <1>3 DEF PassTurn, Bystander, LogKeptOrExtended, listenerVars, treeVars
<1>4. CASE pause_block_assembly \/ resume_block_assembly
  BY <1>4 DEF pause_block_assembly, resume_block_assembly, SetRunning, Bystander,
              LogKeptOrExtended, chainVars, listenerVars, treeVars
<1> QED
  BY <1>1, <1>2, <1>3, <1>4 DEF Environment

LEMMA IntakeIsBystander ==
  ASSUME Intake
  PROVE  Bystander
BY DEF Intake, CheckTx, StoreTx, Bystander, LogKeptOrExtended, chainVars, listenerVars, treeVars

LEMMA QueueIsBystander ==
  ASSUME QueueBlock \/ DrainPending \/ propose_block
  PROVE  Bystander
<1>1. CASE QueueBlock
  BY <1>1 DEF QueueBlock, Bystander, LogKeptOrExtended, chainVars, listenerVars, treeVars
<1>2. CASE DrainPending
  BY <1>2 DEF DrainPending, Bystander, LogKeptOrExtended, chainVars, listenerVars, treeVars
<1>3. CASE propose_block
  BY <1>3 DEF propose_block, Bystander, LogKeptOrExtended, listenerVars, treeVars
<1> QED
  BY <1>1, <1>2, <1>3

\* Assembly sets the status only when it is set or the chain is empty.
LEMMA AssemblyEffect ==
  ASSUME Assembly
  PROVE  /\ log' = log
         /\ UNCHANGED <<listener, expected, roots, pos>>
         /\ synchronised' = synchronised \/ SyncedNow
<1>1. CASE await_trigger
  BY <1>1 DEF await_trigger, chainVars, listenerVars, treeVars
<1>2. CASE NotAssembling
  BY <1>2 DEF NotAssembling, chainVars, listenerVars, treeVars
<1>3. CASE InsufficientTransactions
  BY <1>3 DEF InsufficientTransactions, Assembling, chainVars, listenerVars, treeVars
<1>4. ASSUME NEW s \in Selections, AssemblyFails(s) \/ assemble_block(s)
      PROVE  /\ log' = log
             /\ UNCHANGED <<listener, expected, roots, pos>>
             /\ synchronised' = synchronised \/ SyncedNow
  <2>1. Prepare(s)
    BY <1>4 DEF AssemblyFails, assemble_block
  <2> QED
    BY <2>1 DEF Prepare, Assembling, chainVars, listenerVars
<1> QED
  BY <1>1, <1>2, <1>3, <1>4 DEF Assembly

-----------------------------------------------------------------------------
(* The restart *)

\* RestartIsNeverSynchronised is preserved because a restart follows a block
\* event, and the assembler sets the status by itself only before the first
\* block.
RestartInv ==
  /\ LogIsSeq
  /\ pos \in Nat
  /\ listener = "restart" => ~synchronised /\ HasBlock

LEMMA InitRestart == Init => RestartInv
<1> SUFFICES ASSUME Init PROVE RestartInv
  OBVIOUS
<1>1. <<>> \in Seq({})
  OBVIOUS
<1> QED
  BY <1>1 DEF Init, RestartInv, LogIsSeq

LEMMA NextRestart == RestartInv /\ [Next]_vars => RestartInv'
<1> SUFFICES ASSUME RestartInv, [Next]_vars PROVE RestartInv'
  OBVIOUS
<1> USE DEF RestartInv
<1>1. ASSUME Bystander
      PROVE  RestartInv'
  BY <1>1, LogGrows DEF Bystander
<1>2. CASE StreamTerminated
  <2>1. log' = log /\ pos' = 0 /\ listener' \in {"stopped", "retry"}
    BY <1>2 DEF StreamTerminated, chainVars
  <2> QED
    BY <2>1, LogGrows DEF LogKeptOrExtended
<1>3. CASE LoseLog
  BY <1>3, LogGrows DEF LoseLog, chainVars, LogKeptOrExtended
<1>4. CASE Assembly
  <2>1. log' = log /\ listener' = listener /\ pos' = pos
        /\ (synchronised' = synchronised \/ SyncedNow)
    BY <1>4, AssemblyEffect
  <2>2. LogIsSeq' /\ (HasBlock => HasBlock')
    BY <2>1, LogGrows DEF LogKeptOrExtended
  <2>3. ASSUME listener = "restart"
        PROVE  ~synchronised'
    BY <2>1, <2>3, BlockIsCounted DEF SyncedNow
  <2> QED
    BY <2>1, <2>2, <2>3
<1>5. CASE ListenerStep
  <2>1. log' = log
    BY <1>5 DEF ListenerStep, Subscribe, process_deposit_escrowed_event, MissingBlocks,
                SkipBlock, BlockHashError, AcceptBlock, restart_event_listener, chainVars
  <2>2. LogIsSeq' /\ (HasBlock => HasBlock')
    BY <2>1, LogGrows DEF LogKeptOrExtended
  <2>3. CASE Subscribe
    BY <2>2, <2>3 DEF Subscribe, SubscribeAt
  <2>4. CASE process_deposit_escrowed_event \/ SkipBlock
    BY <2>2, <2>4 DEF process_deposit_escrowed_event, SkipBlock, NextBlockEvent, NextEvent
  <2>5. CASE MissingBlocks \/ BlockHashError
    <3>1. NextEvent("block") /\ AskRestart
      BY <2>5 DEF MissingBlocks, BlockHashError, NextBlockEvent
    <3>2. Len(log) \in Nat
      BY DEF LogIsSeq
    <3>3. HasBlock
      BY <3>1, <3>2 DEF NextEvent, HasBlock
    <3> QED
      BY <2>2, <3>1, <3>3 DEF AskRestart
  <2>6. CASE AcceptBlock
    <3>1. listener = "listening" /\ listener' \in {"listening", "panicked"}
          /\ pos' \in {pos, pos + 1}
      BY <2>6 DEF AcceptBlock, NextBlockEvent, NextEvent
    <3> QED
      BY <2>2, <3>1
  <2>7. CASE restart_event_listener
    BY <2>2, <2>7 DEF restart_event_listener
  <2> QED
    BY <1>5, <2>3, <2>4, <2>5, <2>6, <2>7 DEF ListenerStep
<1>6. CASE UNCHANGED vars
  BY <1>6, LogGrows DEF vars, chainVars, listenerVars, LogKeptOrExtended
<1> QED
  BY <1>1, <1>2, <1>3, <1>4, <1>5, <1>6, EnvironmentIsBystander, IntakeIsBystander,
     QueueIsBystander DEF Next, FinalityChecker

\* restart_event_listener never panics: whatever is lost, replayed, assembled
\* or refused, a listener about to restart is not synchronised.
THEOREM RestartCorrect == Spec => []RestartIsNeverSynchronised
<1>1. RestartInv => RestartIsNeverSynchronised
  BY DEF RestartInv, RestartIsNeverSynchronised
<1> QED
  BY <1>1, InitRestart, NextRestart, PTL DEF Spec

-----------------------------------------------------------------------------
(* The historic roots *)

RootsInv ==
  /\ roots \in Seq(Int)
  /\ expected \in Int
  /\ pos \in Nat
  /\ RootsFollowTheChain

LEMMA InitRoots == Init => RootsInv
BY DEF Init, RootsInv, RootsFollowTheChain

\* The two guards leave only the block whose number is expected.
LEMMA AcceptIsExpected ==
  ASSUME pos \in Nat, expected \in Int, AcceptBlock
  PROVE  expected = HeadNumber
<1>1. HeadNumber \in Nat
  BY HeadNumberType
<1>2. ~(expected < HeadNumber) /\ ~(expected > HeadNumber)
  BY DEF AcceptBlock, Seen, Missed
<1> QED
  BY <1>1, <1>2

LEMMA NextRoots == RootsInv /\ [Next]_vars => RootsInv'
<1> SUFFICES ASSUME RootsInv, [Next]_vars PROVE RootsInv'
  OBVIOUS
<1> USE DEF RootsInv, RootsFollowTheChain
<1>1. ASSUME UNCHANGED <<roots, expected, pos>>, listener' # "panicked" => listener # "panicked"
      PROVE  RootsInv'
  BY <1>1
<1>2. ASSUME UNCHANGED <<roots, expected>>, listener # "panicked", pos' \in Nat
      PROVE  RootsInv'
  BY <1>2
<1>3. CASE StreamTerminated
  BY <1>1, <1>3 DEF StreamTerminated, treeVars
<1>4. CASE LoseLog
  BY <1>2, <1>4 DEF LoseLog, treeVars
<1>5. CASE Assembly
  BY <1>1, <1>5, AssemblyEffect
<1>6. CASE ListenerStep
  <2>1. CASE Subscribe
    BY <1>2, <2>1 DEF Subscribe, SubscribeAt, treeVars
  <2>2. CASE process_deposit_escrowed_event \/ SkipBlock
    BY <1>2, <2>2 DEF process_deposit_escrowed_event, SkipBlock, NextBlockEvent, NextEvent,
                      treeVars
  <2>3. CASE MissingBlocks \/ BlockHashError
    BY <1>2, <2>3 DEF MissingBlocks, BlockHashError, AskRestart, NextBlockEvent, NextEvent,
                      treeVars
  <2>4. CASE AcceptBlock
    <3>1. expected = HeadNumber /\ expected' = expected + 1 /\ listener = "listening"
      BY <2>4, AcceptIsExpected DEF AcceptBlock, NextBlockEvent, NextEvent
    <3>2. \/ roots' = Append(roots, HeadNumber + 1) /\ pos' = pos + 1
          \/ listener' = "panicked" /\ UNCHANGED <<roots, pos>>
      BY <2>4 DEF AcceptBlock
    <3>3. CASE roots' = Append(roots, HeadNumber + 1) /\ pos' = pos + 1
      <4>1. /\ roots' \in Seq(Int) /\ Len(roots') = Len(roots) + 1
            /\ \A i \in 1 .. Len(roots) : roots'[i] = roots[i]
            /\ roots'[Len(roots) + 1] = expected + 1
        BY <3>1, <3>3
      <4>2. \A i \in DOMAIN roots' : roots'[i] = expected' - (Len(roots') - i)
        <5> SUFFICES ASSUME NEW i \in DOMAIN roots'
                     PROVE  roots'[i] = expected' - (Len(roots') - i)
          OBVIOUS
        <5>1. /\ Len(roots) \in Nat /\ DOMAIN roots = 1 .. Len(roots)
              /\ i \in 1 .. Len(roots) + 1
          BY <4>1
        <5>2. CASE i \in 1 .. Len(roots)
          <6>1. roots[i] = expected - (Len(roots) - i)
            BY <3>1, <5>1, <5>2
          <6> QED
            BY <3>1, <4>1, <5>1, <5>2, <6>1
        <5>3. CASE i = Len(roots) + 1
          BY <3>1, <4>1, <5>1, <5>3
        <5> QED
          BY <5>1, <5>2, <5>3
      <4> QED
        BY <3>1, <3>3, <4>1, <4>2
    <3>4. CASE listener' = "panicked" /\ UNCHANGED <<roots, pos>>
      BY <3>1, <3>4
    <3> QED
      BY <3>2, <3>3, <3>4
  <2>5. CASE restart_event_listener
    <3>1. expected' = expected /\ pos' = pos
      BY <2>5 DEF restart_event_listener
    <3>2. roots' = <<>> \/ (listener' = "panicked" /\ roots' = roots)
      BY <2>5 DEF restart_event_listener, treeVars
    <3>3. CASE roots' = <<>>
      <4>1. <<>> \in Seq(Int) /\ DOMAIN <<>> = {}
        OBVIOUS
      <4> QED
        BY <3>1, <3>3, <4>1
    <3>4. CASE listener' = "panicked" /\ roots' = roots
      BY <3>1, <3>4
    <3> QED
      BY <3>2, <3>3, <3>4
  <2> QED
    BY <1>6, <2>1, <2>2, <2>3, <2>4, <2>5 DEF ListenerStep
<1>7. CASE Bystander
  BY <1>1, <1>7 DEF Bystander
<1>8. CASE UNCHANGED vars
  BY <1>1, <1>8 DEF vars, listenerVars, treeVars
<1> QED
  BY <1>3, <1>4, <1>5, <1>6, <1>7, <1>8, EnvironmentIsBystander, IntakeIsBystander,
     QueueIsBystander DEF Next, FinalityChecker

\* The historic root tree never misses, repeats or reorders a root of the
\* blocks handled since it was last emptied, for any number of blocks,
\* losses, replays and restarts.
THEOREM RootsCorrect == Spec => []RootsFollowTheChain
<1>1. RootsInv => RootsFollowTheChain
  BY DEF RootsInv
<1> QED
  BY <1>1, InitRoots, NextRoots, PTL DEF Spec

-----------------------------------------------------------------------------
(* Types *)

Event == [kind : {"deposit"}, deposit : Deposits] \cup [kind : {"block"}, block : Block]
Batch == [deps : [Deposits -> Nat], txs : [Txs -> Nat]]
KnownNullifiers == {NullifierOf[t] : t \in Txs}

ChainTypes == log \in Seq(Event) /\ ourTurn \in BOOLEAN

\* A loop that is about to try again has attempts left.
AttemptTypes ==
  /\ listener \in {"retry", "listening", "restart", "stopped", "panicked"}
  /\ attempts \in Seq(0 .. MaxAttempts)
  /\ listener \in {"retry", "listening", "restart"} => attempts # <<>>
  /\ listener = "retry" => attempts[Len(attempts)] < MaxAttempts

PlaceTypes == pos \in 0 .. Len(log) /\ expected \in 0 .. layer2_block_number

TreeTypes ==
  /\ nullifiers \subseteq KnownNullifiers
  /\ roots \in Seq(Nat) /\ leaves \in Seq(Batch) /\ stored \in Seq(StoredBlock)

PoolTypes ==
  /\ deposits \in [Deposits -> Nat]
  /\ transactions \in [Txs -> Nat] /\ checked \in [Txs -> Nat]

AssemblyTypes ==
  /\ synchronised \in BOOLEAN /\ running \in BOOLEAN
  /\ assembler \in {"waiting", "triggered", "push"}
  /\ assembled \in Block
  /\ pending_blocks \in Seq(Block) /\ draining \in Seq(Block)

TypeInv ==
  ChainTypes /\ AttemptTypes /\ PlaceTypes /\ TreeTypes /\ PoolTypes /\ AssemblyTypes

LEMMA LogIsTyped ==
  ASSUME ChainTypes
  PROVE  /\ LogIsSeq /\ Len(log) \in Nat /\ layer2_block_number \in Nat
         /\ \A i \in DOMAIN log : \/ log[i].kind = "deposit" /\ log[i].deposit \in Deposits
                                  \/ log[i].kind = "block" /\ log[i].block \in Block
<1>1. log \in Seq(Event)
  BY DEF ChainTypes
<1>2. LogIsSeq
  BY <1>1 DEF LogIsSeq
<1>3. \A i \in DOMAIN log : log[i] \in Event
  BY <1>1
<1> QED
  BY <1>1, <1>2, <1>3, CountType DEF Event

LEMMA EmptyBags == NoDeposits \in [Deposits -> Nat] /\ NoTxs \in [Txs -> Nat] /\ NoBlock \in Block
BY DEF NoDeposits, NoTxs, NoBlock, Block, Us, Other, Nowhere

LEMMA BatchOf ==
  ASSUME NEW b, b.deps \in [Deposits -> Nat], b.txs \in [Txs -> Nat]
  PROVE  Commitments(b) \in Batch /\ Nullifiers(b) \subseteq KnownNullifiers
BY DEF Commitments, Batch, Nullifiers, KnownNullifiers, Support

LEMMA BlockIsTyped ==
  ASSUME NEW b \in Block
  PROVE  /\ b.by \in {Us, Other} /\ b.deps \in [Deposits -> Nat] /\ b.txs \in [Txs -> Nat]
         /\ b.onto \in Nat \cup {Nowhere}
BY DEF Block

\* What is selected is of the mempool and not in a stored document.
LEMMA SelectionIs ==
  ASSUME PoolTypes, NEW s \in Selections
  PROVE  /\ s.deps \in [Deposits -> Nat] /\ s.txs \in [Txs -> Nat]
         /\ \A d \in Support(s.deps) : d \notin OnchainCommitments.deps
         /\ \A t \in Support(s.txs) : t \notin OnchainCommitments.txs
<1>1. /\ s.deps \in [Deposits -> 0 .. Count(PendingDeposits)]
      /\ \A d \in Deposits : s.deps[d] <= PendingDeposits[d]
      /\ s.txs \in [Txs -> 0 .. Count(PendingTxs)]
      /\ \A t \in Txs : s.txs[t] <= PendingTxs[t]
  BY DEF Selections
<1>2. s.deps \in [Deposits -> Nat] /\ s.txs \in [Txs -> Nat]
  BY <1>1
<1>3. ASSUME NEW d \in Support(s.deps) PROVE d \notin OnchainCommitments.deps
  <2>1. d \in Deposits /\ s.deps[d] \in Nat /\ s.deps[d] > 0
    BY <1>2 DEF Support
  <2>2. PendingDeposits[d] = IF d \in OnchainCommitments.deps THEN 0 ELSE deposits[d]
    BY <2>1 DEF PendingDeposits
  <2> QED
    BY <1>1, <2>1, <2>2
<1>4. ASSUME NEW t \in Support(s.txs) PROVE t \notin OnchainCommitments.txs
  <2>1. t \in Txs /\ s.txs[t] \in Nat /\ s.txs[t] > 0
    BY <1>2 DEF Support
  <2>2. PendingTxs[t] = IF t \in OnchainCommitments.txs THEN 0 ELSE transactions[t]
    BY <2>1 DEF PendingTxs
  <2> QED
    BY <1>1, <2>1, <2>2
<1> QED
  BY <1>2, <1>3, <1>4

LEMMA InitTypes == Init => TypeInv
<1> SUFFICES ASSUME Init PROVE TypeInv
  OBVIOUS
<1>1. <<>> \in Seq(Event) /\ <<>> \in Seq(Batch) /\ <<>> \in Seq(StoredBlock) /\ <<>> \in Seq(Block)
      /\ <<0>> \in Seq(Nat) /\ <<0>> \in Seq(0 .. MaxAttempts) /\ 0 < MaxAttempts
  BY ProposerAssumption
<1>2. ChainTypes
  BY <1>1 DEF Init, ChainTypes
<1>3. layer2_block_number \in Nat
  BY <1>2, LogIsTyped
<1>4. AttemptTypes
  BY <1>1 DEF Init, AttemptTypes
<1>5. PlaceTypes
  BY <1>3 DEF Init, PlaceTypes
<1>6. TreeTypes
  BY <1>1 DEF Init, TreeTypes
<1>7. PoolTypes
  BY EmptyBags DEF Init, PoolTypes
<1>8. AssemblyTypes
  BY <1>1, EmptyBags DEF Init, AssemblyTypes
<1> QED
  BY <1>2, <1>4, <1>5, <1>6, <1>7, <1>8 DEF TypeInv

\* The actions that touch the chain.
LEMMA NextChain ==
  ASSUME TypeInv, [Next]_vars
  PROVE  /\ ChainTypes'
         /\ \/ log' = log
            \/ \E d \in Deposits : log' = Append(log, DepositEscrowed(d))
            \/ \E b \in Block : log' = Append(log, BlockProposed(b))
<1> USE DEF TypeInv, ChainTypes
<1> DEFINE Goal ==
      /\ ChainTypes'
      /\ \/ log' = log
         \/ \E d \in Deposits : log' = Append(log, DepositEscrowed(d))
         \/ \E b \in Block : log' = Append(log, BlockProposed(b))
<1> SUFFICES Goal
  OBVIOUS
<1>1. ASSUME log' = log, ourTurn' \in BOOLEAN PROVE Goal
  BY <1>1
<1>2. ASSUME ourTurn' = ourTurn, NEW d \in Deposits, log' = Append(log, DepositEscrowed(d))
      PROVE  Goal
  <2>1. DepositEscrowed(d) \in Event
    BY DEF DepositEscrowed, Event
  <2> QED
    BY <1>2, <2>1
<1>3. ASSUME ourTurn' = ourTurn, NEW b \in Block, log' = Append(log, BlockProposed(b))
      PROVE  Goal
  <2>1. BlockProposed(b) \in Event
    BY DEF BlockProposed, Event
  <2> QED
    BY <1>3, <2>1
<1>4. ASSUME NEW D \in SUBSET Deposits, NEW T \in SUBSET Txs, OtherProposes(D, T) PROVE Goal
  <2> DEFINE b == [by |-> Other, deps |-> Once(Deposits, D), txs |-> Once(Txs, T),
                   onto |-> layer2_block_number]
  <2>1. b \in Block
    <3>1. layer2_block_number \in Nat
      BY LogIsTyped
    <3> QED
      BY <3>1 DEF Block, Once
  <2> QED
    BY <1>3, <1>4, <2>1 DEF OtherProposes
<1>5. CASE propose_block
  <2>1. draining # <<>> /\ draining \in Seq(Block)
    BY <1>5 DEF propose_block, AssemblyTypes
  <2>2. Head(draining) \in Block
    BY <2>1
  <2>3. ourTurn' = ourTurn /\ (log' = log \/ log' = Append(log, BlockProposed(Head(draining))))
    BY <1>5 DEF propose_block
  <2> QED
    BY <1>1, <1>3, <2>2, <2>3
<1>6. ASSUME NEW d \in Deposits, EscrowDeposit(d) PROVE Goal
  BY <1>2, <1>6 DEF EscrowDeposit
<1>7. CASE PassTurn
  BY <1>1, <1>7 DEF PassTurn
<1>8. ASSUME UNCHANGED chainVars PROVE Goal
  BY <1>1, <1>8 DEF chainVars
<1>9. CASE StreamTerminated \/ LoseLog \/ pause_block_assembly \/ resume_block_assembly
  BY <1>8, <1>9 DEF StreamTerminated, LoseLog, pause_block_assembly, resume_block_assembly,
                    SetRunning
<1>10. CASE ListenerStep
  BY <1>8, <1>10 DEF ListenerStep, Subscribe, process_deposit_escrowed_event, MissingBlocks,
                     SkipBlock, BlockHashError, AcceptBlock, restart_event_listener
<1>11. CASE Intake
  BY <1>8, <1>11 DEF Intake, CheckTx, StoreTx
<1>12. CASE Assembly
  <2>1. ASSUME NEW s \in Selections, AssemblyFails(s) \/ assemble_block(s) PROVE Goal
    <3>1. Prepare(s)
      BY <2>1 DEF AssemblyFails, assemble_block
    <3> QED
      BY <1>8, <3>1 DEF Prepare
  <2> QED
    BY <1>8, <1>12, <2>1 DEF Assembly, await_trigger, NotAssembling, InsufficientTransactions
<1>13. CASE QueueBlock \/ DrainPending
  BY <1>8, <1>13 DEF QueueBlock, DrainPending
<1>14. CASE UNCHANGED vars
  BY <1>8, <1>14 DEF vars
<1> HIDE DEF Goal
<1> QED
  BY <1>4, <1>5, <1>6, <1>7, <1>9, <1>10, <1>11, <1>12, <1>13, <1>14
     DEF Next, Environment, FinalityChecker

\* The chain's count never goes down, nor does the log shrink.
LEMMA ChainGrows ==
  ASSUME TypeInv, [Next]_vars
  PROVE  /\ Len(log') \in Nat /\ Len(log) <= Len(log')
         /\ layer2_block_number' \in Nat /\ layer2_block_number <= layer2_block_number'
         /\ \A n \in 0 .. Len(log) : BlocksIn(n)' = BlocksIn(n)
         /\ \A k \in 1 .. layer2_block_number : Blocks'[k] = Blocks[k]
<1>1. ChainTypes /\ ChainTypes'
  BY NextChain DEF TypeInv
<1>2. LogIsSeq /\ Len(log) \in Nat /\ layer2_block_number \in Nat
  BY <1>1, LogIsTyped
<1>3. CASE log' = log
  BY <1>2, <1>3 DEF layer2_block_number, BlocksIn, Blocks, EventOf
<1>4. ASSUME NEW e, e \in Event, log' = Append(log, e)
      PROVE  /\ Len(log') \in Nat /\ Len(log) <= Len(log')
             /\ layer2_block_number' \in Nat /\ layer2_block_number <= layer2_block_number'
             /\ \A n \in 0 .. Len(log) : BlocksIn(n)' = BlocksIn(n)
             /\ \A k \in 1 .. layer2_block_number : Blocks'[k] = Blocks[k]
  <2>1. Len(log') = Len(log) + 1
    BY <1>1, <1>4 DEF ChainTypes
  <2>2. /\ e.kind # "block" => layer2_block_number' = layer2_block_number
        /\ e.kind = "block" => layer2_block_number' = layer2_block_number + 1
        /\ \A k \in 1 .. layer2_block_number : Blocks'[k] = Blocks[k]
        /\ \A n \in 0 .. Len(log) : BlocksIn(n)' = BlocksIn(n)
    BY <1>2, <1>4, EventAdded
  <2> QED
    BY <1>2, <2>1, <2>2
<1>5. /\ \A d \in Deposits : DepositEscrowed(d) \in Event
      /\ \A b \in Block : BlockProposed(b) \in Event
  BY DEF DepositEscrowed, BlockProposed, Event
<1> QED
  BY <1>3, <1>4, <1>5, NextChain

\* The ends of a finite set of naturals.
LEMMA EndsExist ==
  ASSUME NEW k \in Nat, NEW U \in SUBSET (0 .. k), U # {}
  PROVE  /\ Max(U) \in U /\ \A y \in U : Max(U) >= y
         /\ Min(U) \in U /\ \A y \in U : Min(U) <= y
<1> DEFINE Ends(V) == /\ \E x \in V : \A y \in V : x >= y
                      /\ \E x \in V : \A y \in V : x <= y
           T == {n \in Nat : \A V \in SUBSET (0 .. n) : V # {} => Ends(V)}
<1>1. 0 \in T
  <2> SUFFICES ASSUME NEW V \in SUBSET (0 .. 0), V # {} PROVE Ends(V)
    OBVIOUS
  <2>1. \A y \in V : y = 0
    OBVIOUS
  <2>2. 0 \in V
    BY <2>1
  <2> QED
    BY <2>1, <2>2
<1>2. ASSUME NEW n \in Nat, n \in T PROVE n + 1 \in T
  <2> SUFFICES ASSUME NEW V \in SUBSET (0 .. n + 1), V # {} PROVE Ends(V)
    OBVIOUS
  <2> DEFINE W == V \ {n + 1}
  <2>1. W \in SUBSET (0 .. n) /\ \A y \in V : y = n + 1 \/ (y \in W /\ y <= n + 1 /\ y \in Nat)
    OBVIOUS
  <2>2. W # {} => Ends(W)
    BY <1>2, <2>1
  <2>3. CASE W = {}
    <3>1. V = {n + 1}
      BY <2>3
    <3> QED
      BY <3>1
  <2>4. CASE W # {}
    <3>1. PICK x \in W : \A y \in W : x <= y
      BY <2>2, <2>4
    <3>2. x \in V /\ \A y \in V : x <= y
      BY <2>1, <3>1
    <3>3. \E z \in V : \A y \in V : z >= y
      <4>1. CASE n + 1 \in V
        BY <2>1, <4>1
      <4>2. CASE n + 1 \notin V
        BY <2>2, <2>4, <4>2
      <4> QED
        BY <4>1, <4>2
    <3> QED
      BY <3>2, <3>3
  <2> QED
    BY <2>3, <2>4
<1>3. k \in T
  <2> HIDE DEF T
  <2> QED
    BY <1>1, <1>2, Induction
<1>4. Ends(U)
  BY <1>3
<1> QED
  BY <1>4 DEF Max, Min

LEMMA AfterErrorIs ==
  ASSUME NEW stack \in Seq(0 .. MaxAttempts)
  PROVE  LET rest == AfterError(stack)
         IN /\ rest \in Seq(0 .. MaxAttempts)
            /\ rest # <<>> => rest[Len(rest)] < MaxAttempts
<1> DEFINE U == {0} \cup {i \in DOMAIN stack : stack[i] < MaxAttempts}
           m == Max(U)
           rest == AfterError(stack)
<1>1. Len(stack) \in Nat /\ DOMAIN stack = 1 .. Len(stack)
  OBVIOUS
<1>2. U \in SUBSET (0 .. Len(stack)) /\ U # {}
  BY <1>1
<1>3. m \in U
  <2> HIDE DEF U
  <2> QED
    BY <1>1, <1>2, EndsExist
<1>4. rest = SubSeq(stack, 1, m)
  BY DEF AfterError
<1>5. m \in 0 .. Len(stack) /\ (m # 0 => m \in DOMAIN stack /\ stack[m] < MaxAttempts)
  BY <1>1, <1>3
<1> HIDE DEF m, rest
<1>6. /\ rest \in Seq(0 .. MaxAttempts) /\ Len(rest) = m
      /\ \A i \in 1 .. m : rest[i] = stack[i]
  <2>1. \A i \in 1 .. m : stack[i] \in 0 .. MaxAttempts
    <3> SUFFICES ASSUME NEW i \in 1 .. m PROVE stack[i] \in 0 .. MaxAttempts
      OBVIOUS
    <3>1. i \in 1 .. Len(stack)
      BY <1>1, <1>5
    <3> QED
      BY <3>1, ElementOfSeq
  <2>2. /\ SubSeq(stack, 1, m) \in Seq(0 .. MaxAttempts)
        /\ Len(SubSeq(stack, 1, m)) = IF 1 <= m THEN m - 1 + 1 ELSE 0
        /\ \A i \in 1 .. m - 1 + 1 : SubSeq(stack, 1, m)[i] = stack[1 + i - 1]
    BY <1>5, <2>1, SubSeqProperties
  <2> QED
    BY <1>4, <1>5, <2>2
<1>7. rest # <<>> => m # 0
  BY <1>5, <1>6
<1>8. rest # <<>> => rest[Len(rest)] < MaxAttempts
  BY <1>1, <1>5, <1>6, <1>7
<1> QED
  BY <1>6, <1>8 DEF rest

\* Another try counts.
LEMMA TickIs ==
  ASSUME NEW stack \in Seq(0 .. MaxAttempts), stack # <<>>, stack[Len(stack)] < MaxAttempts
  PROVE  Tick(stack) \in Seq(0 .. MaxAttempts) /\ Tick(stack) # <<>>
<1>1. Len(stack) \in 1 .. Len(stack) /\ stack[Len(stack)] \in 0 .. MaxAttempts
  <2>1. Len(stack) \in 1 .. Len(stack)
    BY EmptySeq, LenProperties
  <2> QED
    BY <2>1, ElementOfSeq
<1>2. stack[Len(stack)] + 1 \in 0 .. MaxAttempts
  BY <1>1, ProposerAssumption
<1>3. Tick(stack) = [stack EXCEPT ![Len(stack)] = stack[Len(stack)] + 1]
  BY DEF Tick
<1> QED
  BY <1>1, <1>2, <1>3, ExceptSeq

LEMMA NextAttempts ==
  ASSUME TypeInv, [Next]_vars
  PROVE  AttemptTypes'
<1> USE DEF AttemptTypes
<1>0. AttemptTypes
  BY DEF TypeInv
<1>1. ASSUME UNCHANGED <<listener, attempts>> PROVE AttemptTypes'
  BY <1>0, <1>1
<1>2. ASSUME attempts' = attempts, listener = "listening", listener' \in {"restart", "panicked", "listening"}
      PROVE  AttemptTypes'
  BY <1>0, <1>2
<1>3. CASE Subscribe
  <2>1. listener = "retry" /\ attempts' = Tick(attempts) /\ listener' = "listening"
    BY <1>3 DEF Subscribe
  <2>2. Tick(attempts) \in Seq(0 .. MaxAttempts) /\ Tick(attempts) # <<>>
    BY <1>0, <2>1, TickIs
  <2> QED
    BY <2>1, <2>2
<1>4. CASE StreamTerminated
  <2> DEFINE before == IF listener = "retry" THEN Tick(attempts) ELSE attempts
             stack == AfterError(before)
  <2>1. before \in Seq(0 .. MaxAttempts)
    BY <1>0, TickIs
  <2>2. stack \in Seq(0 .. MaxAttempts) /\ (stack # <<>> => stack[Len(stack)] < MaxAttempts)
    <3> HIDE DEF before
    <3> QED
      BY <2>1, AfterErrorIs
  <2>3. attempts' = stack /\ listener' = IF stack = <<>> THEN "stopped" ELSE "retry"
    BY <1>4 DEF StreamTerminated
  <2> HIDE DEF stack
  <2> QED
    BY <2>2, <2>3
<1>5. CASE restart_event_listener
  <2>1. listener = "restart"
    BY <1>5 DEF restart_event_listener
  <2>2. CASE synchronised
    BY <1>0, <1>5, <2>2 DEF restart_event_listener
  <2>3. CASE ~ synchronised
    <3>1. listener' = "retry" /\ attempts' = Append(attempts, 0)
      BY <1>5, <2>3 DEF restart_event_listener
    <3>2. 0 \in 0 .. MaxAttempts /\ 0 < MaxAttempts
      BY ProposerAssumption
    <3> QED
      BY <1>0, <3>1, <3>2
  <2> QED
    BY <2>2, <2>3
<1>6. CASE MissingBlocks \/ BlockHashError \/ AcceptBlock
  BY <1>2, <1>6 DEF MissingBlocks, BlockHashError, AcceptBlock, AskRestart, NextBlockEvent,
                    NextEvent
<1>7. CASE process_deposit_escrowed_event \/ SkipBlock \/ LoseLog
  BY <1>1, <1>7 DEF process_deposit_escrowed_event, SkipBlock, LoseLog
<1>8. ASSUME UNCHANGED listenerVars PROVE AttemptTypes'
  BY <1>1, <1>8 DEF listenerVars
<1>9. ASSUME NEW d \in Deposits, EscrowDeposit(d) PROVE AttemptTypes'
  BY <1>8, <1>9 DEF EscrowDeposit
<1>10. ASSUME NEW D \in SUBSET Deposits, NEW T \in SUBSET Txs, OtherProposes(D, T)
       PROVE  AttemptTypes'
  BY <1>8, <1>10 DEF OtherProposes
<1>11. CASE PassTurn \/ pause_block_assembly \/ resume_block_assembly
  BY <1>8, <1>11 DEF PassTurn, pause_block_assembly, resume_block_assembly, SetRunning
<1>12. CASE Intake \/ QueueBlock \/ DrainPending \/ propose_block
  BY <1>8, <1>12 DEF Intake, CheckTx, StoreTx, QueueBlock, DrainPending, propose_block
<1>13. CASE Assembly
  <2>1. ASSUME NEW s \in Selections, AssemblyFails(s) \/ assemble_block(s) PROVE AttemptTypes'
    <3>1. Prepare(s)
      BY <2>1 DEF AssemblyFails, assemble_block
    <3> QED
      BY <1>8, <3>1 DEF Prepare
  <2> QED
    BY <1>8, <1>13, <2>1 DEF Assembly, await_trigger, NotAssembling, InsufficientTransactions
<1>14. CASE UNCHANGED vars
  BY <1>8, <1>14 DEF vars
<1> QED
  BY <1>3, <1>4, <1>5, <1>6, <1>7, <1>9, <1>10, <1>11, <1>12, <1>13, <1>14
     DEF Next, Environment, ListenerStep, FinalityChecker

\* The event that the listener is about to take, if it is a block.
LEMMA HeadBlockIs ==
  ASSUME ChainTypes, PlaceTypes, NextEvent("block")
  PROVE  /\ HeadBlock \in Block /\ pos \in Nat /\ pos + 1 <= Len(log)
         /\ HeadNumber \in Nat /\ HeadNumber + 1 <= layer2_block_number
         /\ BlocksIn(pos + 1) = HeadNumber + 1
         /\ Blocks[HeadNumber + 1] = HeadBlock
<1>1. LogIsSeq /\ Len(log) \in Nat /\ layer2_block_number \in Nat
  BY LogIsTyped
<1>2. pos \in Nat /\ pos + 1 \in 1 .. Len(log) /\ log[pos + 1].kind = "block"
  BY <1>1 DEF PlaceTypes, NextEvent
<1>3. HeadBlock \in Block
  <2>1. pos + 1 \in DOMAIN log
    BY <1>1, <1>2 DEF ChainTypes
  <2> QED
    BY <1>2, <2>1, LogIsTyped DEF HeadBlock
<1>4. HeadNumber \in Nat /\ BlocksIn(pos + 1) = HeadNumber + 1
  BY <1>2, HeadNumberType, CountNext, BlocksInIs DEF HeadNumber
<1>5. BlocksIn(pos + 1) \in 1 .. layer2_block_number /\ Blocks[BlocksIn(pos + 1)] = log[pos + 1].block
  BY <1>1, <1>2, BlockOf DEF BlocksAreListed
<1> QED
  BY <1>1, <1>2, <1>3, <1>4, <1>5 DEF HeadBlock

LEMMA NextPlace ==
  ASSUME TypeInv, [Next]_vars
  PROVE  PlaceTypes'
<1> USE DEF PlaceTypes
<1>0. ChainTypes /\ PlaceTypes /\ layer2_block_number \in Nat /\ Len(log) \in Nat
  BY LogIsTyped DEF TypeInv
<1>1. /\ Len(log') \in Nat /\ Len(log) <= Len(log')
      /\ layer2_block_number' \in Nat /\ layer2_block_number <= layer2_block_number'
  BY ChainGrows
<1>2. ASSUME expected' = expected, pos' \in 0 .. Len(log) PROVE PlaceTypes'
  BY <1>0, <1>1, <1>2
<1>3. CASE StreamTerminated \/ Subscribe
  BY <1>0, <1>2, <1>3 DEF StreamTerminated, Subscribe, SubscribeAt
<1>4. CASE LoseLog \/ process_deposit_escrowed_event \/ SkipBlock
  BY <1>0, <1>2, <1>4 DEF LoseLog, process_deposit_escrowed_event, SkipBlock, NextBlockEvent,
                          NextEvent
<1>5. CASE MissingBlocks \/ BlockHashError \/ restart_event_listener
  <2>1. expected' = expected /\ pos' \in {0, pos}
    BY <1>5 DEF MissingBlocks, BlockHashError, AskRestart, restart_event_listener
  <2> QED
    BY <1>0, <1>2, <2>1
<1>6. CASE AcceptBlock
  <2>1. NextEvent("block") /\ expected' = expected + 1 /\ (pos' = pos + 1 \/ pos' = pos)
    BY <1>6 DEF AcceptBlock, NextBlockEvent
  <2>2. pos + 1 <= Len(log) /\ HeadNumber + 1 <= layer2_block_number
    BY <1>0, <2>1, HeadBlockIs
  <2>3. expected = HeadNumber
    BY <1>0, <1>6, AcceptIsExpected
  <2> QED
    BY <1>0, <1>1, <2>1, <2>2, <2>3
<1>7. CASE Bystander
  BY <1>0, <1>2, <1>7 DEF Bystander
<1>8. CASE Assembly
  BY <1>0, <1>2, <1>8, AssemblyEffect
<1>9. CASE UNCHANGED vars
  BY <1>0, <1>2, <1>9 DEF vars, listenerVars
<1> QED
  BY <1>3, <1>4, <1>5, <1>6, <1>7, <1>8, <1>9, EnvironmentIsBystander, IntakeIsBystander,
     QueueIsBystander DEF Next, ListenerStep, FinalityChecker

LEMMA DocIs ==
  ASSUME NEW b \in Block, NEW n \in Nat
  PROVE  Doc(b, n) \in StoredBlock
<1>1. Commitments(b) \in [deps : [Deposits -> Nat], txs : [Txs -> Nat]]
  BY BlockIsTyped, BatchOf DEF Batch
<1> QED
  BY <1>1, BlockIsTyped DEF Doc, StoredBlock

\* Taking the first document of number n out.
Without(docs, gone) == SubSeq(docs, 1, gone - 1) \o SubSeq(docs, gone + 1, Len(docs))

LEMMA WithoutIs ==
  ASSUME NEW S, NEW docs \in Seq(S), NEW gone \in 1 .. Len(docs)
  PROVE  LET left == Without(docs, gone)
         IN /\ left \in Seq(S) /\ Len(left) = Len(docs) - 1
            /\ \A i \in 1 .. gone - 1 : left[i] = docs[i]
            /\ \A i \in gone .. Len(docs) - 1 : left[i] = docs[i + 1]
<1>0. Len(docs) \in Nat /\ \A i \in 1 .. Len(docs) : docs[i] \in S
  BY ElementOfSeq, LenProperties
<1> DEFINE x == SubSeq(docs, 1, gone - 1)
           y == SubSeq(docs, gone + 1, Len(docs))
<1>1. x \in Seq(S) /\ Len(x) = gone - 1 /\ \A i \in 1 .. gone - 1 : x[i] = docs[i]
  <2>1. gone - 1 \in Int /\ \A i \in 1 .. gone - 1 : docs[i] \in S
    BY <1>0
  <2>2. /\ SubSeq(docs, 1, gone - 1) \in Seq(S)
        /\ Len(SubSeq(docs, 1, gone - 1)) = IF 1 <= gone - 1 THEN gone - 1 - 1 + 1 ELSE 0
        /\ \A i \in 1 .. gone - 1 - 1 + 1 : SubSeq(docs, 1, gone - 1)[i] = docs[1 + i - 1]
    BY <2>1, SubSeqProperties
  <2> QED
    BY <1>0, <2>2
<1>2. y \in Seq(S) /\ Len(y) = Len(docs) - gone /\ \A i \in 1 .. Len(docs) - gone : y[i] = docs[gone + i]
  <2>1. gone + 1 \in Int /\ \A i \in gone + 1 .. Len(docs) : docs[i] \in S
    BY <1>0
  <2>2. /\ SubSeq(docs, gone + 1, Len(docs)) \in Seq(S)
        /\ Len(SubSeq(docs, gone + 1, Len(docs)))
             = IF gone + 1 <= Len(docs) THEN Len(docs) - (gone + 1) + 1 ELSE 0
        /\ \A i \in 1 .. Len(docs) - (gone + 1) + 1 :
             SubSeq(docs, gone + 1, Len(docs))[i] = docs[gone + 1 + i - 1]
    BY <1>0, <2>1, SubSeqProperties
  <2> QED
    BY <1>0, <2>2
<1> HIDE DEF x, y
<1>3. /\ x \o y \in Seq(S) /\ Len(x \o y) = Len(x) + Len(y)
      /\ \A i \in 1 .. Len(x) + Len(y) : (x \o y)[i] = IF i <= Len(x) THEN x[i] ELSE y[i - Len(x)]
  BY <1>1, <1>2, ConcatProperties
<1>4. Without(docs, gone) = x \o y
  BY DEF Without, x, y
<1>5. Len(x \o y) = Len(docs) - 1
  BY <1>0, <1>1, <1>2, <1>3
<1>6. \A i \in 1 .. gone - 1 : (x \o y)[i] = docs[i]
  BY <1>0, <1>1, <1>2, <1>3
<1>7. \A i \in gone .. Len(docs) - 1 : (x \o y)[i] = docs[i + 1]
  <2> SUFFICES ASSUME NEW i \in gone .. Len(docs) - 1 PROVE (x \o y)[i] = docs[i + 1]
    OBVIOUS
  <2>1. (x \o y)[i] = y[i - (gone - 1)] /\ i - (gone - 1) \in 1 .. Len(docs) - gone
    BY <1>0, <1>1, <1>2, <1>3
  <2>2. y[i - (gone - 1)] = docs[gone + (i - (gone - 1))]
    BY <1>2, <2>1
  <2>3. gone + (i - (gone - 1)) = i + 1
    BY <1>0
  <2> QED
    BY <2>1, <2>2, <2>3
<1> QED
  BY <1>3, <1>4, <1>5, <1>6, <1>7

\* The first document of a number, when there is one.
LEMMA FirstDocIs ==
  ASSUME NEW S, stored \in Seq(S), NEW n, DocsOf(n) # {}
  PROVE  LET i == Min(DocsOf(n))
         IN /\ i \in 1 .. Len(stored) /\ stored[i].number = n /\ FirstDoc(n) = stored[i]
            /\ \A j \in 1 .. i - 1 : stored[j].number # n
<1> DEFINE U == DocsOf(n)
           i == Min(U)
<1>1. Len(stored) \in Nat /\ DOMAIN stored = 1 .. Len(stored)
  BY LenProperties
<1>2. U \in SUBSET (0 .. Len(stored)) /\ U # {}
  BY <1>1 DEF DocsOf
<1>3. i \in U /\ \A y \in U : i <= y
  <2> HIDE DEF U
  <2> QED
    BY <1>1, <1>2, EndsExist
<1>4. FirstDoc(n) = stored[i]
  BY DEF FirstDoc
<1> HIDE DEF i
<1>5. i \in 1 .. Len(stored) /\ stored[i].number = n
  BY <1>1, <1>3 DEF DocsOf
<1>6. \A j \in 1 .. i - 1 : stored[j].number # n
  BY <1>1, <1>3, <1>5 DEF DocsOf
<1> QED
  BY <1>4, <1>5, <1>6 DEF i

\* What a step of the assembler that makes or loses a block does.
LEMMA PrepareIs ==
  ASSUME TypeInv, NEW s \in Selections, Prepare(s)
  PROVE  /\ Commitments(s) \in Batch /\ Nullifiers(s) \subseteq KnownNullifiers
         /\ leaves' = Append(leaves, Commitments(s))
         /\ deposits' \in [Deposits -> Nat] /\ transactions' \in [Txs -> Nat]
         /\ UNCHANGED <<log, ourTurn, listenerVars, roots, checked, sent>>
         /\ synchronised' = TRUE
<1>1. PoolTypes
  BY DEF TypeInv
<1>2. s.deps \in [Deposits -> Nat] /\ s.txs \in [Txs -> Nat]
  BY <1>1, SelectionIs
<1>3. PendingDeposits \in [Deposits -> Nat] /\ PendingTxs \in [Txs -> Nat]
  BY <1>1 DEF PoolTypes, PendingDeposits, PendingTxs
<1>4. /\ Left(deposits, PendingDeposits, s.deps) \in [Deposits -> Nat]
      /\ Left(transactions, PendingTxs, s.txs) \in [Txs -> Nat]
  BY <1>1, <1>2, <1>3 DEF PoolTypes, Left
<1> QED
  BY <1>2, <1>4, BatchOf DEF Prepare, Assembling, chainVars, intakeVars

LEMMA NextTree ==
  ASSUME TypeInv, [Next]_vars
  PROVE  TreeTypes'
<1> USE DEF TreeTypes
<1>0. TreeTypes /\ ChainTypes /\ PlaceTypes
  BY DEF TypeInv
<1>1. ASSUME UNCHANGED <<treeVars, stored>> PROVE TreeTypes'
  BY <1>0, <1>1 DEF treeVars
<1>2. CASE StreamTerminated \/ LoseLog
  BY <1>1, <1>2 DEF StreamTerminated, LoseLog
<1>3. CASE Subscribe \/ process_deposit_escrowed_event \/ SkipBlock \/ MissingBlocks
  BY <1>1, <1>3 DEF Subscribe, process_deposit_escrowed_event, SkipBlock, MissingBlocks
<1>4. CASE BlockHashError
  <2> DEFINE gone == Min(DocsOf(HeadNumber))
  <2>1. /\ stored' = Without(stored, gone) /\ UNCHANGED treeVars
    BY <1>4 DEF BlockHashError, Without
  <2>2. gone \in 1 .. Len(stored)
    BY <1>0, <1>4, FirstDocIs DEF BlockHashError, Mismatch
  <2> HIDE DEF gone
  <2>3. Without(stored, gone) \in Seq(StoredBlock)
    BY <1>0, <2>2, WithoutIs
  <2> QED
    BY <1>0, <2>1, <2>3 DEF treeVars
<1>5. CASE AcceptBlock
  <2>1. /\ HeadBlock \in Block /\ HeadNumber \in Nat
    BY <1>0, <1>5, HeadBlockIs DEF AcceptBlock, NextBlockEvent
  <2>2. /\ Commitments(HeadBlock) \in Batch /\ Nullifiers(HeadBlock) \subseteq KnownNullifiers
        /\ Doc(HeadBlock, HeadNumber) \in StoredBlock
    BY <2>1, BlockIsTyped, BatchOf, DocIs
  <2>3. /\ leaves' \in {leaves, Append(leaves, Commitments(HeadBlock))}
        /\ nullifiers' \in {nullifiers, nullifiers \cup Nullifiers(HeadBlock)}
        /\ roots' \in {roots, Append(roots, HeadNumber + 1)}
        /\ stored' \in {stored, Append(stored, Doc(HeadBlock, HeadNumber))}
    BY <1>5 DEF AcceptBlock
  <2>4. leaves' \in Seq(Batch)
    <3>1. Append(leaves, Commitments(HeadBlock)) \in Seq(Batch)
      BY <1>0, <2>2, AppendProperties
    <3> QED
      BY <1>0, <2>3, <3>1
  <2>5. nullifiers' \subseteq KnownNullifiers
    BY <1>0, <2>2, <2>3
  <2>6. roots' \in Seq(Nat)
    <3>1. Append(roots, HeadNumber + 1) \in Seq(Nat)
      BY <1>0, <2>1, AppendProperties
    <3> QED
      BY <1>0, <2>3, <3>1
  <2>7. stored' \in Seq(StoredBlock)
    <3>1. Append(stored, Doc(HeadBlock, HeadNumber)) \in Seq(StoredBlock)
      BY <1>0, <2>2, AppendProperties
    <3> QED
      BY <1>0, <2>3, <3>1
  <2> QED
    BY <2>4, <2>5, <2>6, <2>7
<1>6. CASE restart_event_listener
  <2>1. /\ stored' = stored
        /\ \/ UNCHANGED treeVars
           \/ leaves' = <<>> /\ nullifiers' = {} /\ roots' = <<>>
    BY <1>6 DEF restart_event_listener
  <2>2. <<>> \in Seq(Batch) /\ <<>> \in Seq(Nat)
    OBVIOUS
  <2> QED
    BY <1>0, <2>1, <2>2 DEF treeVars
<1>7. ASSUME NEW d \in Deposits, EscrowDeposit(d) PROVE TreeTypes'
  BY <1>1, <1>7 DEF EscrowDeposit
<1>8. ASSUME NEW D \in SUBSET Deposits, NEW T \in SUBSET Txs, OtherProposes(D, T)
      PROVE  TreeTypes'
  BY <1>1, <1>8 DEF OtherProposes
<1>9. CASE PassTurn \/ pause_block_assembly \/ resume_block_assembly
  BY <1>1, <1>9 DEF PassTurn, pause_block_assembly, resume_block_assembly, SetRunning
<1>10. CASE Intake \/ QueueBlock \/ DrainPending \/ propose_block
  BY <1>1, <1>10 DEF Intake, CheckTx, StoreTx, QueueBlock, DrainPending, propose_block
<1>11. CASE await_trigger \/ NotAssembling \/ InsufficientTransactions
  BY <1>1, <1>11 DEF await_trigger, NotAssembling, InsufficientTransactions
<1>12. ASSUME NEW s \in Selections, AssemblyFails(s) PROVE TreeTypes'
  <2>1. Prepare(s) /\ stored' = stored
    BY <1>12 DEF AssemblyFails
  <2>2. /\ Commitments(s) \in Batch /\ Nullifiers(s) \subseteq KnownNullifiers
        /\ leaves' = Append(leaves, Commitments(s)) /\ roots' = roots
    BY <2>1, PrepareIs
  <2>3. leaves' \in Seq(Batch)
    BY <1>0, <2>2
  <2>4. nullifiers' \subseteq nullifiers \cup Nullifiers(s)
    BY <1>12 DEF AssemblyFails
  <2> QED
    BY <1>0, <2>1, <2>2, <2>3, <2>4
<1>13. ASSUME NEW s \in Selections, assemble_block(s) PROVE TreeTypes'
  <2>1. /\ Prepare(s) /\ nullifiers' = nullifiers \cup Nullifiers(s)
        /\ stored' = Append(stored, [number |-> Len(stored), commitments |-> Commitments(s), by |-> Us])
    BY <1>13 DEF assemble_block, Commitments
  <2>2. /\ Commitments(s) \in Batch /\ Nullifiers(s) \subseteq KnownNullifiers
        /\ leaves' = Append(leaves, Commitments(s)) /\ roots' = roots
    BY <2>1, PrepareIs
  <2>3. leaves' \in Seq(Batch)
    BY <1>0, <2>2
  <2>4. [number |-> Len(stored), commitments |-> Commitments(s), by |-> Us] \in StoredBlock
    BY <1>0, <2>2 DEF StoredBlock, Batch
  <2>5. stored' \in Seq(StoredBlock)
    <3> HIDE DEF TreeTypes
    <3>1. stored \in Seq(StoredBlock)
      BY <1>0 DEF TreeTypes
    <3> QED
      BY <2>1, <2>4, <3>1
  <2> QED
    BY <1>0, <2>1, <2>2, <2>3, <2>5
<1>14. CASE UNCHANGED vars
  BY <1>1, <1>14 DEF vars
<1> QED
  BY <1>2, <1>3, <1>4, <1>5, <1>6, <1>7, <1>8, <1>9, <1>10, <1>11, <1>12, <1>13, <1>14
     DEF Next, Environment, ListenerStep, Assembly, FinalityChecker

LEMMA NextPool ==
  ASSUME TypeInv, [Next]_vars
  PROVE  PoolTypes'
<1> USE DEF PoolTypes
<1>0. PoolTypes /\ ChainTypes /\ PlaceTypes
  BY DEF TypeInv
<1>1. ASSUME UNCHANGED <<mempoolVars, checked>> PROVE PoolTypes'
  BY <1>0, <1>1 DEF mempoolVars
<1>2. CASE StreamTerminated \/ LoseLog \/ Subscribe \/ SkipBlock \/ MissingBlocks
  BY <1>1, <1>2 DEF StreamTerminated, LoseLog, Subscribe, SkipBlock, MissingBlocks, intakeVars
<1>3. CASE BlockHashError \/ AcceptBlock
  BY <1>1, <1>3 DEF BlockHashError, AcceptBlock, intakeVars
<1>4. CASE process_deposit_escrowed_event
  <2> DEFINE d == log[pos + 1].deposit
  <2>1. /\ NextEvent("deposit") /\ deposits' = [deposits EXCEPT ![d] = @ + 1]
        /\ UNCHANGED <<transactions, checked>>
    BY <1>4 DEF process_deposit_escrowed_event, intakeVars
  <2>2. d \in Deposits
    <3>1. pos + 1 \in DOMAIN log /\ log[pos + 1].kind = "deposit"
      BY <1>0, <2>1, LogIsTyped DEF PlaceTypes, NextEvent, ChainTypes
    <3> QED
      BY <1>0, <3>1, LogIsTyped
  <2> HIDE DEF d
  <2> QED
    BY <1>0, <2>1, <2>2
<1>5. CASE restart_event_listener
  <2>1. /\ checked' = checked
        /\ \/ UNCHANGED mempoolVars
           \/ deposits' = NoDeposits /\ transactions' = NoTxs
    BY <1>5 DEF restart_event_listener, intakeVars
  <2> QED
    BY <1>0, <2>1, EmptyBags DEF mempoolVars
<1>6. ASSUME NEW d \in Deposits, EscrowDeposit(d) PROVE PoolTypes'
  BY <1>1, <1>6 DEF EscrowDeposit, intakeVars
<1>7. ASSUME NEW D \in SUBSET Deposits, NEW T \in SUBSET Txs, OtherProposes(D, T)
      PROVE  PoolTypes'
  BY <1>1, <1>7 DEF OtherProposes, intakeVars
<1>8. CASE PassTurn \/ pause_block_assembly \/ resume_block_assembly
  BY <1>1, <1>8 DEF PassTurn, pause_block_assembly, resume_block_assembly, SetRunning, intakeVars
<1>9. ASSUME NEW t \in Txs, CheckTx(t) PROVE PoolTypes'
  BY <1>0, <1>9 DEF CheckTx, mempoolVars
<1>10. ASSUME NEW t \in Txs, StoreTx(t) PROVE PoolTypes'
  BY <1>0, <1>10 DEF StoreTx
<1>11. CASE QueueBlock \/ DrainPending \/ propose_block \/ await_trigger \/ NotAssembling
  BY <1>1, <1>11 DEF QueueBlock, DrainPending, propose_block, await_trigger, NotAssembling,
                     intakeVars
<1>12. CASE InsufficientTransactions
  BY <1>0, <1>12, EmptyBags DEF InsufficientTransactions, intakeVars
<1>13. ASSUME NEW s \in Selections, AssemblyFails(s) \/ assemble_block(s) PROVE PoolTypes'
  <2>1. Prepare(s)
    BY <1>13 DEF AssemblyFails, assemble_block
  <2> QED
    BY <1>0, <2>1, PrepareIs
<1>14. CASE UNCHANGED vars
  BY <1>1, <1>14 DEF vars, intakeVars
<1> QED
  BY <1>2, <1>3, <1>4, <1>5, <1>6, <1>7, <1>8, <1>9, <1>10, <1>11, <1>12, <1>13, <1>14
     DEF Next, Environment, ListenerStep, Intake, Assembly, FinalityChecker

LEMMA NextAssembly ==
  ASSUME TypeInv, [Next]_vars
  PROVE  AssemblyTypes'
<1> USE DEF AssemblyTypes
<1>0. AssemblyTypes
  BY DEF TypeInv
<1>1. ASSUME UNCHANGED <<assembled, pending_blocks, draining>>,
             synchronised' \in BOOLEAN, running' \in BOOLEAN,
             assembler' \in {"waiting", "triggered", "push"}
      PROVE  AssemblyTypes'
  BY <1>0, <1>1
<1>2. CASE StreamTerminated \/ LoseLog \/ Subscribe \/ SkipBlock \/ process_deposit_escrowed_event
  BY <1>0, <1>1, <1>2
  DEF StreamTerminated, LoseLog, Subscribe, SkipBlock, process_deposit_escrowed_event, assemblyVars
<1>3. CASE MissingBlocks \/ BlockHashError
  BY <1>0, <1>1, <1>3 DEF MissingBlocks, BlockHashError, AskRestart, assemblyVars
<1>4. CASE AcceptBlock
  <2>1. UNCHANGED assemblyVars
    BY <1>4 DEF AcceptBlock
  <2>2. \/ synchronised' = (layer2_block_number - HeadNumber - 1 = 0)
        \/ synchronised' = (synchronised \/ layer2_block_number = 1)
    BY <1>4 DEF AcceptBlock
  <2>3. synchronised' \in BOOLEAN
    BY <2>2
  <2> QED
    BY <1>0, <1>1, <2>1, <2>3 DEF assemblyVars
<1>5. CASE restart_event_listener
  BY <1>0, <1>1, <1>5 DEF restart_event_listener, assemblyVars
<1>6. ASSUME NEW d \in Deposits, EscrowDeposit(d) PROVE AssemblyTypes'
  BY <1>0, <1>1, <1>6 DEF EscrowDeposit, assemblyVars
<1>7. ASSUME NEW D \in SUBSET Deposits, NEW T \in SUBSET Txs, OtherProposes(D, T)
      PROVE  AssemblyTypes'
  BY <1>0, <1>1, <1>7 DEF OtherProposes, assemblyVars
<1>8. CASE PassTurn \/ pause_block_assembly \/ resume_block_assembly
  BY <1>0, <1>1, <1>8 DEF PassTurn, pause_block_assembly, resume_block_assembly, SetRunning,
                          assemblyVars
<1>9. CASE Intake
  BY <1>0, <1>1, <1>9 DEF Intake, CheckTx, StoreTx, assemblyVars
<1>10. CASE QueueBlock
  <2>1. Append(pending_blocks, assembled) \in Seq(Block)
    BY <1>0, AppendProperties
  <2> QED
    BY <1>0, <1>10, <2>1, EmptyBags DEF QueueBlock
<1>11. CASE DrainPending
  <2>1. <<>> \in Seq(Block)
    OBVIOUS
  <2> QED
    BY <1>0, <1>11, <2>1 DEF DrainPending
<1>12. CASE propose_block
  <2>1. draining # <<>> /\ draining' = Tail(draining)
        /\ UNCHANGED <<running, assembler, assembled, pending_blocks, synchronised>>
    BY <1>12 DEF propose_block, AfterProposal
  <2>2. Tail(draining) \in Seq(Block)
    BY <1>0, <2>1, HeadTailProperties
  <2> QED
    BY <1>0, <2>1, <2>2
<1>13. CASE await_trigger \/ NotAssembling \/ InsufficientTransactions
  BY <1>0, <1>1, <1>13 DEF await_trigger, NotAssembling, InsufficientTransactions, Assembling,
                           GoAround
<1>14. ASSUME NEW s \in Selections, AssemblyFails(s) PROVE AssemblyTypes'
  BY <1>0, <1>1, <1>14 DEF AssemblyFails, Prepare, Assembling, GoAround
<1>15. ASSUME NEW s \in Selections, assemble_block(s) PROVE AssemblyTypes'
  <2> DEFINE k == Len(roots) - 1
             o == IF TreesAreAt(k) THEN k ELSE Nowhere
             b == [by |-> Us, deps |-> s.deps, txs |-> s.txs, onto |-> o]
  <2>1. /\ synchronised' = TRUE /\ assembled' = b /\ assembler' = "push"
        /\ UNCHANGED <<running, pending_blocks, draining>>
    BY <1>15 DEF assemble_block, Prepare, Assembling
  <2>2. o \in Nat \cup {Nowhere}
    BY DEF TreesAreAt
  <2>3. s.deps \in [Deposits -> Nat] /\ s.txs \in [Txs -> Nat]
    BY SelectionIs DEF TypeInv
  <2>4. b \in Block
    BY <2>2, <2>3 DEF Block
  <2> HIDE DEF b
  <2> QED
    BY <1>0, <2>1, <2>4
<1>16. CASE UNCHANGED vars
  BY <1>0, <1>1, <1>16 DEF vars, assemblyVars
<1> QED
  BY <1>2, <1>3, <1>4, <1>5, <1>6, <1>7, <1>8, <1>9, <1>10, <1>11, <1>12, <1>13, <1>14, <1>15,
     <1>16 DEF Next, Environment, ListenerStep, Assembly, FinalityChecker

LEMMA NextTypes == TypeInv /\ [Next]_vars => TypeInv'
BY NextChain, NextAttempts, NextPlace, NextTree, NextPool, NextAssembly DEF TypeInv

\* The proposer's state has its types: the listener never runs ahead of the
\* chain (expected stays within the contract's layer2_block_number) and a
\* loop never tries more often than max_event_listener_attempts, for any
\* number of blocks, losses and restarts.
THEOREM ProposerTypeCorrect == Spec => []TypeOK
<1>1. TypeInv => TypeOK
  <2> SUFFICES ASSUME TypeInv PROVE TypeOK
    OBVIOUS
  <2>1. \A i \in DOMAIN log : \/ log[i].kind = "deposit" /\ log[i].deposit \in Deposits
                              \/ log[i].kind = "block" /\ log[i].block \in Block
    BY LogIsTyped DEF TypeInv
  <2> QED
    BY <2>1 DEF TypeInv, ChainTypes, AttemptTypes, PlaceTypes, TreeTypes, PoolTypes,
                AssemblyTypes, TypeOK, KnownNullifiers
<1> QED
  BY <1>1, InitTypes, NextTypes, PTL DEF Spec

-----------------------------------------------------------------------------
(* The documents of our own blocks *)

\* The first document of a number says who made the block and what is in it.
HasDoc(docs, n, batch, who) ==
  \E i \in DOMAIN docs : /\ docs[i].number = n /\ docs[i].commitments = batch
                         /\ docs[i].by = who
                         /\ \A j \in 1 .. i - 1 : docs[j].number # n

Documented(b, n) == HasDoc(stored, n, Commitments(b), b.by)

Members(s) == {s[i] : i \in DOMAIN s}
InFlight == Members(draining) \cup Members(pending_blocks)
              \cup (IF assembler = "push" THEN {assembled} ELSE {})

\* Every block of ours that the listener has still to see has its document.
OursAreDocumented ==
  \A k \in expected + 1 .. layer2_block_number :
    Blocks[k].by = Us => Documented(Blocks[k], k - 1)

\* So has every block of ours that the contract may still accept.
InFlightIsDocumented ==
  \A b \in InFlight : /\ b.by = Us
                      /\ b.onto >= layer2_block_number => Documented(b, b.onto)

\* Until the trees are emptied, the documents are numbered as they come and
\* no batch is missing from the commitment tree.
DocsAreInOrder ==
  roots # <<>> /\ roots[1] = 0 /\ listener # "restart" =>
    /\ \A i \in DOMAIN stored : stored[i].number = i - 1
    /\ expected <= Len(stored) /\ Len(stored) <= Len(leaves)

OwnInv ==
  /\ OwnBlocksAreDisjoint
  /\ listener # "panicked" => OursAreDocumented /\ InFlightIsDocumented /\ DocsAreInOrder

LEMMA SameChain ==
  ASSUME log' = log
  PROVE  /\ layer2_block_number' = layer2_block_number /\ Blocks' = Blocks
         /\ \A n : BlocksIn(n)' = BlocksIn(n)
BY DEF layer2_block_number, Blocks, BlocksIn, EventOf

LEMMA BlockAdded ==
  ASSUME ChainTypes, NEW b, log' = Append(log, BlockProposed(b))
  PROVE  /\ layer2_block_number' = layer2_block_number + 1
         /\ Blocks'[layer2_block_number + 1] = b
         /\ \A k \in 1 .. layer2_block_number : Blocks'[k] = Blocks[k]
         /\ \A n \in 0 .. Len(log) : BlocksIn(n)' = BlocksIn(n)
<1>1. BlockProposed(b).kind = "block" /\ BlockProposed(b).block = b
  BY DEF BlockProposed
<1>2. LogIsSeq
  BY LogIsTyped
<1> QED
  BY <1>1, <1>2, EventAdded

LEMMA DepositAdded ==
  ASSUME ChainTypes, NEW d, log' = Append(log, DepositEscrowed(d))
  PROVE  /\ layer2_block_number' = layer2_block_number
         /\ \A k \in 1 .. layer2_block_number : Blocks'[k] = Blocks[k]
         /\ \A n \in 0 .. Len(log) : BlocksIn(n)' = BlocksIn(n)
<1>1. DepositEscrowed(d).kind # "block"
  BY DEF DepositEscrowed
<1>2. LogIsSeq
  BY LogIsTyped
<1> QED
  BY <1>1, <1>2, EventAdded

LEMMA DocAppended ==
  ASSUME NEW S, NEW docs \in Seq(S), NEW x \in S, NEW n, NEW batch, NEW who,
         HasDoc(docs, n, batch, who)
  PROVE  HasDoc(Append(docs, x), n, batch, who)
<1>1. PICK i \in DOMAIN docs : /\ docs[i].number = n /\ docs[i].commitments = batch
                               /\ docs[i].by = who
                               /\ \A j \in 1 .. i - 1 : docs[j].number # n
  BY DEF HasDoc
<1>2. Len(docs) \in Nat /\ DOMAIN docs = 1 .. Len(docs)
  BY LenProperties
<1> DEFINE more == Append(docs, x)
<1>3. /\ more \in Seq(S) /\ Len(more) = Len(docs) + 1
      /\ \A j \in 1 .. Len(docs) : more[j] = docs[j]
  BY AppendProperties
<1>4. DOMAIN more = 1 .. Len(docs) + 1
  BY <1>3, LenProperties
<1> HIDE DEF more
<1>5. i \in DOMAIN more /\ more[i] = docs[i] /\ \A j \in 1 .. i - 1 : more[j] = docs[j]
  BY <1>1, <1>2, <1>3, <1>4
<1>6. HasDoc(more, n, batch, who)
  BY <1>1, <1>5 DEF HasDoc
<1> QED
  BY <1>6 DEF more

\* Losing the document of another number changes nothing.
LEMMA DocKept ==
  ASSUME NEW S, NEW docs \in Seq(S), NEW gone \in 1 .. Len(docs), NEW n, NEW batch, NEW who,
         docs[gone].number # n, HasDoc(docs, n, batch, who)
  PROVE  HasDoc(Without(docs, gone), n, batch, who)
<1>1. PICK i \in DOMAIN docs : /\ docs[i].number = n /\ docs[i].commitments = batch
                               /\ docs[i].by = who
                               /\ \A j \in 1 .. i - 1 : docs[j].number # n
  BY DEF HasDoc
<1>2. Len(docs) \in Nat /\ DOMAIN docs = 1 .. Len(docs)
  BY LenProperties
<1> DEFINE left == Without(docs, gone)
<1>3. /\ left \in Seq(S) /\ Len(left) = Len(docs) - 1
      /\ \A j \in 1 .. gone - 1 : left[j] = docs[j]
      /\ \A j \in gone .. Len(docs) - 1 : left[j] = docs[j + 1]
  BY WithoutIs
<1>4. DOMAIN left = 1 .. Len(docs) - 1
  BY <1>3, LenProperties
<1> HIDE DEF left
<1>5. i # gone /\ i \in 1 .. Len(docs)
  BY <1>1, <1>2
<1>6. CASE i < gone
  <2>1. i \in DOMAIN left /\ left[i] = docs[i] /\ \A j \in 1 .. i - 1 : left[j] = docs[j]
    BY <1>2, <1>3, <1>4, <1>5, <1>6
  <2>2. HasDoc(left, n, batch, who)
    BY <1>1, <2>1 DEF HasDoc
  <2> QED
    BY <2>2 DEF left
<1>7. CASE i > gone
  <2>1. i - 1 \in DOMAIN left /\ i - 1 \in gone .. Len(docs) - 1 /\ (i - 1) + 1 = i
    BY <1>2, <1>4, <1>5, <1>7
  <2>2. left[i - 1] = docs[i]
    BY <1>3, <2>1
  <2>3. \A j \in 1 .. (i - 1) - 1 : left[j].number # n
    <3> SUFFICES ASSUME NEW j \in 1 .. (i - 1) - 1 PROVE left[j].number # n
      OBVIOUS
    <3>1. CASE j < gone
      BY <1>1, <1>2, <1>3, <1>5, <3>1
    <3>2. CASE j >= gone
      <4>1. j \in gone .. Len(docs) - 1 /\ j + 1 \in 1 .. i - 1
        BY <1>2, <1>5, <3>2
      <4> QED
        BY <1>1, <1>3, <4>1
    <3> QED
      BY <1>5, <3>1, <3>2
  <2>4. HasDoc(left, n, batch, who)
    BY <1>1, <2>1, <2>2, <2>3 DEF HasDoc
  <2> QED
    BY <2>4 DEF left
<1> QED
  BY <1>5, <1>6, <1>7

LEMMA DocumentedIsFirst ==
  ASSUME TreeTypes, NEW b, NEW n, Documented(b, n)
  PROVE  DocsOf(n) # {} /\ SameHash(FirstDoc(n), Doc(b, n))
<1>1. PICK i \in DOMAIN stored : /\ stored[i].number = n /\ stored[i].commitments = Commitments(b)
                                 /\ stored[i].by = b.by
                                 /\ \A j \in 1 .. i - 1 : stored[j].number # n
  BY DEF Documented, HasDoc
<1>2. DocsOf(n) # {}
  BY <1>1 DEF DocsOf
<1>3. stored \in Seq(StoredBlock) /\ Len(stored) \in Nat /\ DOMAIN stored = 1 .. Len(stored)
  BY LenProperties DEF TreeTypes
<1> DEFINE m == Min(DocsOf(n))
<1>4. /\ m \in 1 .. Len(stored) /\ stored[m].number = n /\ FirstDoc(n) = stored[m]
      /\ \A j \in 1 .. m - 1 : stored[j].number # n
  BY <1>2, <1>3, FirstDocIs
<1> HIDE DEF m
<1>5. m = i
  BY <1>1, <1>3, <1>4
<1> QED
  BY <1>1, <1>2, <1>4, <1>5 DEF SameHash, Doc

LEMMA MembersOf ==
  /\ Members(<<>>) = {}
  /\ \A s \in Seq(Block), b \in Block : Members(Append(s, b)) = Members(s) \cup {b}
  /\ \A s \in Seq(Block) : s # <<>> => /\ Head(s) \in Members(s)
                                       /\ Members(Tail(s)) \subseteq Members(s)
<1>1. Members(<<>>) = {}
  <2>1. DOMAIN <<>> = {}
    OBVIOUS
  <2> QED
    BY <2>1 DEF Members
<1>2. ASSUME NEW s \in Seq(Block), NEW b \in Block PROVE Members(Append(s, b)) = Members(s) \cup {b}
  <2> DEFINE t == Append(s, b)
  <2>1. Len(s) \in Nat /\ DOMAIN s = 1 .. Len(s)
    BY LenProperties
  <2>2. /\ t \in Seq(Block) /\ Len(t) = Len(s) + 1
        /\ \A i \in 1 .. Len(s) : t[i] = s[i]
        /\ t[Len(s) + 1] = b
    BY AppendProperties
  <2>3. DOMAIN t = 1 .. Len(s) + 1
    BY <2>2, LenProperties
  <2> HIDE DEF t
  <2>4. DOMAIN t = DOMAIN s \cup {Len(s) + 1}
    BY <2>1, <2>3
  <2>5. Members(t) = Members(s) \cup {b}
    BY <2>1, <2>2, <2>4 DEF Members
  <2> QED
    BY <2>5 DEF t
<1>3. ASSUME NEW s \in Seq(Block), s # <<>>
      PROVE  Head(s) \in Members(s) /\ Members(Tail(s)) \subseteq Members(s)
  <2> DEFINE t == Tail(s)
  <2>1. Len(s) \in Nat \ {0} /\ DOMAIN s = 1 .. Len(s)
    BY <1>3, EmptySeq, LenProperties
  <2>2. t \in Seq(Block) /\ Len(t) = Len(s) - 1 /\ \A i \in 1 .. Len(t) : t[i] = s[i + 1]
    BY <1>3, HeadTailProperties
  <2>3. DOMAIN t = 1 .. Len(t)
    BY <2>2, LenProperties
  <2>4. Head(s) = s[1] /\ 1 \in DOMAIN s
    BY <2>1
  <2> HIDE DEF t
  <2>5. \A i \in DOMAIN t : t[i] = s[i + 1] /\ i + 1 \in DOMAIN s
    BY <2>1, <2>2, <2>3
  <2>6. Members(t) \subseteq Members(s)
    BY <2>5 DEF Members
  <2> QED
    BY <2>4, <2>6 DEF Members, t
<1> QED
  BY <1>1, <1>2, <1>3

\* A panic is for good.
LEMMA PanicIsFinal ==
  ASSUME [Next]_vars, listener = "panicked"
  PROVE  listener' = "panicked"
<1>1. CASE ListenerStep
  BY <1>1 DEF ListenerStep, Subscribe, process_deposit_escrowed_event, MissingBlocks, SkipBlock,
              BlockHashError, AcceptBlock, restart_event_listener, NextBlockEvent, NextEvent
<1>2. CASE StreamTerminated \/ LoseLog
  BY <1>2 DEF StreamTerminated, LoseLog
<1>3. CASE Bystander
  BY <1>3 DEF Bystander
<1>4. CASE Assembly
  BY <1>4, AssemblyEffect
<1>5. CASE UNCHANGED vars
  BY <1>5 DEF vars, listenerVars
<1> QED
  BY <1>1, <1>2, <1>3, <1>4, <1>5, EnvironmentIsBystander, IntakeIsBystander,
     QueueIsBystander DEF Next, FinalityChecker

\* What may be in flight after a step.
LEMMA InFlightStep ==
  ASSUME TypeInv, [Next]_vars
  PROVE  \/ InFlight' \subseteq InFlight
         \/ \E s \in Selections : assemble_block(s) /\ InFlight' = InFlight \cup {assembled'}
<1> USE DEF InFlight
<1>0. pending_blocks \in Seq(Block) /\ draining \in Seq(Block) /\ assembled \in Block
  BY DEF TypeInv, AssemblyTypes
<1> DEFINE Goal == \/ InFlight' \subseteq InFlight
                   \/ \E s \in Selections : assemble_block(s) /\ InFlight' = InFlight \cup {assembled'}
<1> SUFFICES Goal
  OBVIOUS
<1>1. ASSUME UNCHANGED <<assembled, pending_blocks, draining>>,
             assembler' = assembler \/ assembler' # "push"
      PROVE  Goal
  <2>1. Members(draining)' = Members(draining) /\ Members(pending_blocks)' = Members(pending_blocks)
    BY <1>1
  <2> QED
    BY <1>1, <2>1
<1>2. ASSUME UNCHANGED assemblyVars PROVE Goal
  BY <1>1, <1>2 DEF assemblyVars
<1>3. CASE StreamTerminated \/ LoseLog \/ PassTurn
  BY <1>2, <1>3 DEF StreamTerminated, LoseLog, PassTurn
<1>4. ASSUME NEW d \in Deposits, EscrowDeposit(d) PROVE Goal
  BY <1>2, <1>4 DEF EscrowDeposit
<1>5. ASSUME NEW D \in SUBSET Deposits, NEW T \in SUBSET Txs, OtherProposes(D, T) PROVE Goal
  BY <1>2, <1>5 DEF OtherProposes
<1>6. CASE ListenerStep
  BY <1>2, <1>6 DEF ListenerStep, Subscribe, process_deposit_escrowed_event, MissingBlocks,
                    SkipBlock, BlockHashError, AcceptBlock, restart_event_listener
<1>7. CASE Intake
  BY <1>2, <1>7 DEF Intake, CheckTx, StoreTx
<1>8. CASE pause_block_assembly \/ resume_block_assembly \/ await_trigger
  BY <1>1, <1>8 DEF pause_block_assembly, resume_block_assembly, SetRunning, await_trigger
<1>9. CASE NotAssembling \/ InsufficientTransactions
  BY <1>1, <1>9 DEF NotAssembling, InsufficientTransactions, GoAround
<1>10. ASSUME NEW s \in Selections, AssemblyFails(s) PROVE Goal
  BY <1>1, <1>10 DEF AssemblyFails, GoAround
<1>11. ASSUME NEW s \in Selections, assemble_block(s) PROVE Goal
  <2>1. /\ assembler = "triggered" /\ assembler' = "push"
        /\ UNCHANGED <<pending_blocks, draining>>
    BY <1>11 DEF assemble_block, Prepare, Assembling
  <2>2. Members(draining)' = Members(draining) /\ Members(pending_blocks)' = Members(pending_blocks)
    BY <2>1
  <2>3. InFlight' = InFlight \cup {assembled'}
    BY <2>1, <2>2
  <2> QED
    BY <1>11, <2>3
<1>12. CASE QueueBlock
  <2>1. /\ assembler = "push" /\ assembler' = "waiting" /\ draining' = draining
        /\ pending_blocks' = Append(pending_blocks, assembled)
    BY <1>12 DEF QueueBlock
  <2>2. Members(pending_blocks') = Members(pending_blocks) \cup {assembled}
    BY <1>0, <2>1, MembersOf
  <2> QED
    BY <2>1, <2>2 DEF Members
<1>13. CASE DrainPending
  <2>1. draining' = pending_blocks /\ pending_blocks' = <<>> /\ UNCHANGED <<assembler, assembled>>
    BY <1>13 DEF DrainPending
  <2>2. Members(pending_blocks') = {} /\ Members(draining') = Members(pending_blocks)
    BY <2>1, MembersOf
  <2> QED
    BY <2>1, <2>2 DEF Members
<1>14. CASE propose_block
  <2>1. /\ draining # <<>> /\ draining' = Tail(draining)
        /\ UNCHANGED <<assembler, assembled, pending_blocks>>
    BY <1>14 DEF propose_block, AfterProposal
  <2>2. Members(draining') \subseteq Members(draining)
    BY <1>0, <2>1, MembersOf
  <2> QED
    BY <2>1, <2>2 DEF Members
<1>15. CASE UNCHANGED vars
  BY <1>2, <1>15 DEF vars
<1> HIDE DEF Goal
<1> QED
  BY <1>3, <1>4, <1>5, <1>6, <1>7, <1>8, <1>9, <1>10, <1>11, <1>12, <1>13, <1>14, <1>15
     DEF Next, Environment, Assembly, FinalityChecker

NewDoc(s) == [number |-> Len(stored), commitments |-> Commitments(s), by |-> Us]

\* What a step does to the documents.
LEMMA StoredStep ==
  ASSUME [Next]_vars
  PROVE  \/ stored' = stored
         \/ BlockHashError /\ stored' = Without(stored, Min(DocsOf(HeadNumber)))
         \/ /\ AcceptBlock /\ listener' = listener
            /\ DocsOf(HeadNumber) = {} /\ stored' = Append(stored, Doc(HeadBlock, HeadNumber))
         \/ \E s \in Selections : assemble_block(s) /\ stored' = Append(stored, NewDoc(s))
<1>1. CASE AcceptBlock
  BY <1>1 DEF AcceptBlock
<1>2. CASE BlockHashError
  BY <1>2 DEF BlockHashError, Without
<1>3. ASSUME NEW s \in Selections, assemble_block(s)
      PROVE  stored' = Append(stored, NewDoc(s))
  BY <1>3 DEF assemble_block, Commitments, NewDoc
<1>4. ASSUME NEW s \in Selections, AssemblyFails(s) PROVE stored' = stored
  BY <1>4 DEF AssemblyFails
<1>5. CASE Environment
  BY <1>5 DEF Environment, EscrowDeposit, OtherProposes, PassTurn, StreamTerminated, LoseLog,
              pause_block_assembly, resume_block_assembly, SetRunning
<1>6. CASE Subscribe \/ process_deposit_escrowed_event \/ MissingBlocks \/ SkipBlock
           \/ restart_event_listener
  BY <1>6 DEF Subscribe, process_deposit_escrowed_event, MissingBlocks, SkipBlock,
              restart_event_listener
<1>7. CASE Intake
  BY <1>7 DEF Intake, CheckTx, StoreTx
<1>8. CASE await_trigger \/ NotAssembling \/ InsufficientTransactions
  BY <1>8 DEF await_trigger, NotAssembling, InsufficientTransactions
<1>9. CASE QueueBlock \/ DrainPending \/ propose_block
  BY <1>9 DEF QueueBlock, DrainPending, propose_block
<1>10. CASE UNCHANGED vars
  BY <1>10 DEF vars
<1> QED
  BY <1>1, <1>2, <1>3, <1>4, <1>5, <1>6, <1>7, <1>8, <1>9, <1>10
     DEF Next, ListenerStep, Assembly, FinalityChecker

\* Two documents of ours have nothing in common.
Apart(x, y) ==
  x.by = Us /\ y.by = Us =>
    /\ Support(x.commitments.deps) \cap Support(y.commitments.deps) = {}
    /\ Support(x.commitments.txs) \cap Support(y.commitments.txs) = {}

LEMMA DisjointIs == OwnBlocksAreDisjoint <=> \A i, j \in DOMAIN stored : i # j => Apart(stored[i], stored[j])
BY DEF OwnBlocksAreDisjoint, Apart

LEMMA DisjointAppend ==
  ASSUME TypeInv, OwnBlocksAreDisjoint, NEW x \in StoredBlock, stored' = Append(stored, x),
         \A i \in DOMAIN stored : Apart(stored[i], x)
  PROVE  OwnBlocksAreDisjoint'
<1>1. stored \in Seq(StoredBlock) /\ Len(stored) \in Nat /\ DOMAIN stored = 1 .. Len(stored)
  BY LenProperties DEF TypeInv, TreeTypes
<1>2. /\ stored' \in Seq(StoredBlock) /\ Len(stored') = Len(stored) + 1
      /\ \A i \in 1 .. Len(stored) : stored'[i] = stored[i]
      /\ stored'[Len(stored) + 1] = x
  BY <1>1, AppendProperties
<1>3. DOMAIN stored' = 1 .. Len(stored) + 1
  BY <1>2, LenProperties
<1>4. \A i \in DOMAIN stored' : \/ i \in DOMAIN stored /\ stored'[i] = stored[i]
                                \/ i = Len(stored) + 1 /\ stored'[i] = x
  BY <1>1, <1>2, <1>3
<1>5. \A i, j \in DOMAIN stored : i # j => Apart(stored[i], stored[j])
  BY DisjointIs
<1>6. \A i \in DOMAIN stored : Apart(x, stored[i])
  BY DEF Apart
<1>7. \A i, j \in DOMAIN stored' : i # j => Apart(stored'[i], stored'[j])
  BY <1>4, <1>5, <1>6
<1> QED
  BY <1>7 DEF OwnBlocksAreDisjoint, Apart

LEMMA NextDisjoint ==
  ASSUME TypeInv, OwnInv, [Next]_vars
  PROVE  OwnBlocksAreDisjoint'
<1>0. /\ stored \in Seq(StoredBlock) /\ Len(stored) \in Nat /\ DOMAIN stored = 1 .. Len(stored)
      /\ OwnBlocksAreDisjoint /\ ChainTypes /\ PlaceTypes /\ TreeTypes /\ PoolTypes
  BY LenProperties DEF TypeInv, TreeTypes, OwnInv
<1>1. CASE stored' = stored
  BY <1>0, <1>1 DEF OwnBlocksAreDisjoint
<1>2. CASE BlockHashError /\ stored' = Without(stored, Min(DocsOf(HeadNumber)))
  <2> DEFINE gone == Min(DocsOf(HeadNumber))
             from == [i \in 1 .. Len(stored) |-> IF i < gone THEN i ELSE i + 1]
  <2>1. gone \in 1 .. Len(stored)
    BY <1>0, <1>2, FirstDocIs DEF BlockHashError, Mismatch
  <2>2. stored' = Without(stored, gone)
    BY <1>2
  <2> HIDE DEF gone
  <2>3. /\ stored' \in Seq(StoredBlock) /\ Len(stored') = Len(stored) - 1
        /\ \A j \in 1 .. gone - 1 : stored'[j] = stored[j]
        /\ \A j \in gone .. Len(stored) - 1 : stored'[j] = stored[j + 1]
    <3> DEFINE left == Without(stored, gone)
    <3>1. /\ left \in Seq(StoredBlock) /\ Len(left) = Len(stored) - 1
          /\ \A j \in 1 .. gone - 1 : left[j] = stored[j]
          /\ \A j \in gone .. Len(stored) - 1 : left[j] = stored[j + 1]
      <4>1. stored \in Seq(StoredBlock)
        BY <1>0
      <4> QED
        BY ONLY <2>1, <4>1, WithoutIs
    <3> QED
      BY <2>2, <3>1
  <2>4. DOMAIN stored' = 1 .. Len(stored) - 1
    BY <2>3, LenProperties
  <2>5. \A i \in DOMAIN stored' : from[i] \in DOMAIN stored /\ stored'[i] = stored[from[i]]
    BY <1>0, <2>1, <2>3, <2>4
  <2>6. \A i, j \in DOMAIN stored' : i # j => from[i] # from[j]
    BY <1>0, <2>1, <2>4
  <2> HIDE DEF from
  <2>7. \A i, j \in DOMAIN stored' : i # j => Apart(stored'[i], stored'[j])
    BY <1>0, <2>5, <2>6, DisjointIs
  <2> QED
    BY <2>7 DEF OwnBlocksAreDisjoint, Apart
<1>3. CASE /\ AcceptBlock /\ listener' = listener
           /\ DocsOf(HeadNumber) = {} /\ stored' = Append(stored, Doc(HeadBlock, HeadNumber))
  <2>1. NextEvent("block") /\ listener = "listening"
    BY <1>3 DEF AcceptBlock, NextBlockEvent, NextEvent
  <2>2. /\ HeadBlock \in Block /\ HeadNumber \in Nat /\ HeadNumber + 1 <= layer2_block_number
        /\ Blocks[HeadNumber + 1] = HeadBlock
    BY <1>0, <2>1, HeadBlockIs
  <2>3. expected = HeadNumber
    BY <1>0, <1>3, AcceptIsExpected DEF PlaceTypes
  <2>4. HeadBlock.by # Us
    <3> SUFFICES ASSUME HeadBlock.by = Us PROVE FALSE
      OBVIOUS
    <3>1. HeadNumber + 1 \in expected + 1 .. layer2_block_number /\ (HeadNumber + 1) - 1 = HeadNumber
      BY <1>0, <2>2, <2>3, LogIsTyped
    <3>2. Documented(HeadBlock, HeadNumber)
      BY <2>1, <2>2, <3>1 DEF OwnInv, OursAreDocumented
    <3> QED
      BY <1>0, <1>3, <3>2, DocumentedIsFirst
  <2>5. Doc(HeadBlock, HeadNumber) \in StoredBlock /\ Doc(HeadBlock, HeadNumber).by # Us
    BY <2>2, <2>4, DocIs DEF Doc
  <2> QED
    BY <1>0, <1>3, <2>5, DisjointAppend DEF Apart
<1>4. ASSUME NEW s \in Selections, assemble_block(s), stored' = Append(stored, NewDoc(s))
      PROVE  OwnBlocksAreDisjoint'
  <2>1. /\ s.deps \in [Deposits -> Nat] /\ s.txs \in [Txs -> Nat]
        /\ \A d \in Support(s.deps) : d \notin OnchainCommitments.deps
        /\ \A t \in Support(s.txs) : t \notin OnchainCommitments.txs
    BY <1>0, SelectionIs
  <2>2. NewDoc(s) \in StoredBlock
    <3>1. Commitments(s) \in Batch
      BY <2>1, BatchOf
    <3> QED
      BY <1>0, <3>1 DEF NewDoc, StoredBlock, Batch
  <2>3. Support(Commitments(s).deps) = Support(s.deps) /\ Support(Commitments(s).txs) \subseteq Support(s.txs)
    BY <2>1 DEF Commitments, Support
  <2>4. ASSUME NEW i \in DOMAIN stored PROVE Apart(stored[i], NewDoc(s))
    <3>1. /\ Support(stored[i].commitments.deps) \subseteq OnchainCommitments.deps
          /\ Support(stored[i].commitments.txs) \subseteq OnchainCommitments.txs
      BY DEF OnchainCommitments
    <3> QED
      BY <2>1, <2>3, <3>1 DEF Apart, NewDoc
  <2> QED
    BY <1>0, <1>4, <2>2, <2>4, DisjointAppend
<1> QED
  BY <1>1, <1>2, <1>3, <1>4, StoredStep

\* No step but a BlockHashError loses a document, and that one loses a
\* document of the number expected.
LEMMA DocsKept ==
  ASSUME TypeInv, [Next]_vars
  PROVE  \A n, batch, who :
           HasDoc(stored, n, batch, who) /\ (BlockHashError => n # HeadNumber)
             => HasDoc(stored', n, batch, who)
<1> SUFFICES ASSUME NEW n, NEW batch, NEW who,
                    HasDoc(stored, n, batch, who), BlockHashError => n # HeadNumber
             PROVE  HasDoc(stored', n, batch, who)
  OBVIOUS
<1>0. stored \in Seq(StoredBlock) /\ ChainTypes /\ PlaceTypes /\ PoolTypes
  BY DEF TypeInv, TreeTypes
<1>1. ASSUME NEW x \in StoredBlock, stored' = Append(stored, x)
      PROVE  HasDoc(stored', n, batch, who)
  <2>1. HasDoc(Append(stored, x), n, batch, who)
    BY <1>0, DocAppended
  <2> QED
    BY <1>1, <2>1
<1>2. CASE stored' = stored
  BY <1>2
<1>3. CASE BlockHashError /\ stored' = Without(stored, Min(DocsOf(HeadNumber)))
  <2> DEFINE gone == Min(DocsOf(HeadNumber))
  <2>1. gone \in 1 .. Len(stored) /\ stored[gone].number = HeadNumber
    BY <1>0, <1>3, FirstDocIs DEF BlockHashError, Mismatch
  <2>2. stored[gone].number # n /\ stored' = Without(stored, gone)
    BY <1>3, <2>1
  <2> HIDE DEF gone
  <2>3. HasDoc(Without(stored, gone), n, batch, who)
    BY <1>0, <2>1, <2>2, DocKept
  <2> QED
    BY <2>2, <2>3
<1>4. CASE AcceptBlock /\ stored' = Append(stored, Doc(HeadBlock, HeadNumber))
  <2>1. Doc(HeadBlock, HeadNumber) \in StoredBlock
    BY <1>0, <1>4, HeadBlockIs, DocIs DEF AcceptBlock, NextBlockEvent
  <2> QED
    BY <1>1, <1>4, <2>1
<1>5. ASSUME NEW s \in Selections, stored' = Append(stored, NewDoc(s))
      PROVE  HasDoc(stored', n, batch, who)
  <2>1. Commitments(s) \in Batch
    BY <1>0, SelectionIs, BatchOf
  <2>2. NewDoc(s) \in StoredBlock
    BY <1>0, <2>1, LenProperties DEF NewDoc, StoredBlock, Batch
  <2> QED
    BY <1>1, <1>5, <2>2
<1> QED
  BY <1>2, <1>3, <1>4, <1>5, StoredStep

\* A block that appears on the chain is another proposer's or was in flight.
LEMMA NewBlockIs ==
  ASSUME TypeInv, [Next]_vars
  PROVE  /\ \A k \in 1 .. layer2_block_number : Blocks'[k] = Blocks[k]
         /\ \/ layer2_block_number' = layer2_block_number
            \/ /\ layer2_block_number' = layer2_block_number + 1
               /\ UNCHANGED <<listenerVars, treeVars, synchronised, stored>>
               /\ \/ Blocks'[layer2_block_number + 1].by = Other
                     /\ UNCHANGED <<assemblyVars, faulty>>
                  \/ /\ propose_block /\ Blocks'[layer2_block_number + 1] = Head(draining)
                     /\ Head(draining) \in InFlight
                     /\ Head(draining).onto = layer2_block_number
<1>0. ChainTypes /\ draining \in Seq(Block)
  BY DEF TypeInv, AssemblyTypes
<1>1. \A k \in 1 .. layer2_block_number : Blocks'[k] = Blocks[k]
  BY ChainGrows
<1> DEFINE Goal ==
      \/ layer2_block_number' = layer2_block_number
      \/ /\ layer2_block_number' = layer2_block_number + 1
         /\ UNCHANGED <<listenerVars, treeVars, synchronised, stored>>
         /\ \/ Blocks'[layer2_block_number + 1].by = Other
               /\ UNCHANGED <<assemblyVars, faulty>>
            \/ /\ propose_block /\ Blocks'[layer2_block_number + 1] = Head(draining)
               /\ Head(draining) \in InFlight
               /\ Head(draining).onto = layer2_block_number
<1> SUFFICES Goal
  BY <1>1
<1>2. CASE log' = log
  BY <1>2, SameChain
<1>3. ASSUME NEW d \in Deposits, log' = Append(log, DepositEscrowed(d)) PROVE Goal
  BY <1>0, <1>3, DepositAdded
<1>4. ASSUME NEW D \in SUBSET Deposits, NEW T \in SUBSET Txs, OtherProposes(D, T) PROVE Goal
  <2> DEFINE b == [by |-> Other, deps |-> Once(Deposits, D), txs |-> Once(Txs, T),
                   onto |-> layer2_block_number]
  <2>1. /\ log' = Append(log, BlockProposed(b))
        /\ UNCHANGED <<listenerVars, treeVars, synchronised, stored, assemblyVars, faulty>>
    BY <1>4 DEF OtherProposes
  <2>2. b.by = Other
    OBVIOUS
  <2> HIDE DEF b
  <2> QED
    BY <1>0, <2>1, <2>2, BlockAdded
<1>5. CASE propose_block
  <2>1. /\ draining # <<>> /\ UNCHANGED <<listenerVars, treeVars, synchronised, stored>>
        /\ \/ log' = log
           \/ Acceptable(Head(draining)) /\ log' = Append(log, BlockProposed(Head(draining)))
    BY <1>5 DEF propose_block
  <2>2. Head(draining) \in InFlight
    BY <1>0, <2>1, MembersOf DEF InFlight
  <2>3. Acceptable(Head(draining)) => Head(draining).onto = layer2_block_number
    BY DEF Acceptable
  <2> QED
    BY <1>0, <1>2, <1>5, <2>1, <2>2, <2>3, BlockAdded
<1>6. ASSUME NEW d \in Deposits, EscrowDeposit(d) PROVE Goal
  BY <1>3, <1>6 DEF EscrowDeposit
<1>7. CASE PassTurn \/ StreamTerminated \/ LoseLog \/ pause_block_assembly \/ resume_block_assembly
  BY <1>2, <1>7 DEF PassTurn, StreamTerminated, LoseLog, pause_block_assembly,
                    resume_block_assembly, SetRunning, chainVars
<1>8. CASE ListenerStep
  BY <1>2, <1>8 DEF ListenerStep, Subscribe, process_deposit_escrowed_event, MissingBlocks,
                    SkipBlock, BlockHashError, AcceptBlock, restart_event_listener, chainVars
<1>9. CASE Intake \/ QueueBlock \/ DrainPending
  BY <1>2, <1>9 DEF Intake, CheckTx, StoreTx, QueueBlock, DrainPending, chainVars
<1>10. CASE Assembly
  BY <1>2, <1>10, AssemblyEffect
<1>11. CASE UNCHANGED vars
  BY <1>2, <1>11 DEF vars, chainVars
<1> HIDE DEF Goal
<1> QED
  BY <1>4, <1>5, <1>6, <1>7, <1>8, <1>9, <1>10, <1>11 DEF Next, Environment, FinalityChecker

\* The number expected goes up by one, when a block is taken.
LEMMA ExpectedStep ==
  ASSUME TypeInv, [Next]_vars
  PROVE  \/ expected' = expected
         \/ /\ AcceptBlock /\ expected' = expected + 1 /\ expected = HeadNumber
<1>1. CASE AcceptBlock
  <2>1. pos \in Nat /\ expected \in Int
    BY LogIsTyped DEF TypeInv, PlaceTypes
  <2> QED
    BY <1>1, <2>1, AcceptIsExpected DEF AcceptBlock
<1>2. CASE ListenerStep /\ ~AcceptBlock
  BY <1>2 DEF ListenerStep, Subscribe, process_deposit_escrowed_event, MissingBlocks, SkipBlock,
              BlockHashError, restart_event_listener
<1>3. CASE StreamTerminated \/ LoseLog
  BY <1>3 DEF StreamTerminated, LoseLog
<1>4. CASE Bystander
  BY <1>4 DEF Bystander
<1>5. CASE Assembly
  BY <1>5, AssemblyEffect
<1>6. CASE UNCHANGED vars
  BY <1>6 DEF vars, listenerVars
<1> QED
  BY <1>1, <1>2, <1>3, <1>4, <1>5, <1>6, EnvironmentIsBystander, IntakeIsBystander,
     QueueIsBystander DEF Next, FinalityChecker

\* The assembler never runs while a restart is due: the status says that the
\* proposer is not synchronised, and the chain has a block.
LEMMA NotRestarting ==
  ASSUME RestartInv, Assembling
  PROVE  listener # "restart"
BY BlockIsCounted DEF RestartInv, Assembling, SyncedNow

LEMMA TreesAreAtIs ==
  ASSUME TypeInv, RootsInv, listener # "panicked", NEW k, TreesAreAt(k)
  PROVE  /\ k \in Nat /\ k <= layer2_block_number /\ expected = k
         /\ roots # <<>> /\ roots[1] = 0 /\ Len(leaves) = k
<1>1. layer2_block_number \in Nat /\ leaves \in Seq(Batch) /\ roots \in Seq(Nat) /\ expected \in Nat
  BY LogIsTyped DEF TypeInv, TreeTypes, PlaceTypes
<1>2. /\ k \in 0 .. layer2_block_number /\ Len(roots) = k + 1
      /\ leaves = ChainLeaves(k) /\ roots = ChainRoots(k)
  BY DEF TreesAreAt
<1>3. k \in Nat /\ k <= layer2_block_number /\ 1 \in 1 .. k + 1
  BY <1>1, <1>2
<1>4. roots[1] = 0 /\ DOMAIN roots = 1 .. k + 1
  <2>1. roots = [i \in 1 .. k + 1 |-> i - 1]
    BY <1>2 DEF ChainRoots
  <2> QED
    BY <1>3, <2>1
<1>5. expected = k
  BY <1>1, <1>2, <1>3, <1>4 DEF RootsInv, RootsFollowTheChain
<1>6. Len(leaves) = k
  <2>1. DOMAIN leaves = 1 .. k /\ DOMAIN leaves = 1 .. Len(leaves) /\ Len(leaves) \in Nat
    BY <1>1, <1>2, LenProperties DEF ChainLeaves
  <2> QED
    BY <1>3, <2>1
<1>7. roots # <<>>
  <2>1. Len(<<>>) = 0
    OBVIOUS
  <2> QED
    BY <1>2, <1>3, <2>1
<1> QED
  BY <1>3, <1>4, <1>5, <1>6, <1>7

\* The block just assembled, and its document.
LEMMA AssembledIs ==
  ASSUME TypeInv, RestartInv, RootsInv, OwnInv, listener # "panicked",
         NEW s \in Selections, assemble_block(s)
  PROVE  /\ listener # "restart" /\ listener' = listener
         /\ assembled'.by = Us /\ Commitments(assembled') = Commitments(s)
         /\ assembled'.onto >= layer2_block_number =>
              HasDoc(stored', assembled'.onto, Commitments(assembled'), Us)
<1> DEFINE k == Len(roots) - 1
           o == IF TreesAreAt(k) THEN k ELSE Nowhere
           b == [by |-> Us, deps |-> s.deps, txs |-> s.txs, onto |-> o]
<1>1. /\ Prepare(s) /\ Assembling /\ assembled' = b /\ stored' = Append(stored, NewDoc(s))
  BY DEF assemble_block, Prepare, Commitments, NewDoc
<1>2. listener # "restart" /\ listener' = listener
  BY <1>1, NotRestarting DEF Prepare, listenerVars
<1>3. b.by = Us /\ b.onto = o /\ Commitments(b) = Commitments(s)
  BY DEF Commitments
<1>4. layer2_block_number \in Nat /\ stored \in Seq(StoredBlock)
  BY LogIsTyped DEF TypeInv, TreeTypes
<1>5. ASSUME o >= layer2_block_number PROVE HasDoc(stored', o, Commitments(s), Us)
  <2>1. o = k /\ TreesAreAt(k)
    <3>1. ~(Nowhere >= layer2_block_number)
      BY <1>4 DEF Nowhere
    <3> QED
      BY <1>5, <3>1
  <2>2. /\ k \in Nat /\ k <= layer2_block_number /\ expected = k
        /\ roots # <<>> /\ roots[1] = 0 /\ Len(leaves) = k
    <3> HIDE DEF k
    <3> QED
      BY <2>1, TreesAreAtIs
  <2>3. /\ \A i \in DOMAIN stored : stored[i].number = i - 1
        /\ k <= Len(stored) /\ Len(stored) <= k
    BY <1>2, <2>2 DEF OwnInv, DocsAreInOrder
  <2>4. Len(stored) = k /\ DOMAIN stored = 1 .. k
    BY <1>4, <2>2, <2>3, LenProperties
  <2>5. NewDoc(s) \in StoredBlock
    <3>1. Commitments(s) \in Batch
      BY SelectionIs, BatchOf DEF TypeInv
    <3> QED
      BY <2>2, <2>4, <3>1 DEF NewDoc, StoredBlock, Batch
  <2>6. /\ stored' \in Seq(StoredBlock) /\ Len(stored') = k + 1
        /\ \A i \in 1 .. k : stored'[i] = stored[i]
        /\ stored'[k + 1] = NewDoc(s)
    <3> HIDE DEF k
    <3> QED
      BY <1>1, <1>4, <2>4, <2>5, AppendProperties
  <2>7. DOMAIN stored' = 1 .. k + 1
    BY <2>6, LenProperties
  <2> HIDE DEF k
  <2>8. \A j \in 1 .. (k + 1) - 1 : stored'[j].number # k
    BY <2>2, <2>3, <2>4, <2>6
  <2>9. /\ k + 1 \in DOMAIN stored' /\ stored'[k + 1].number = k
        /\ stored'[k + 1].commitments = Commitments(s) /\ stored'[k + 1].by = Us
    BY <2>2, <2>4, <2>6, <2>7 DEF NewDoc
  <2> QED
    BY <2>1, <2>8, <2>9 DEF HasDoc
<1> HIDE DEF b, o
<1> QED
  BY <1>1, <1>2, <1>3, <1>5

LEMMA NextDocumented ==
  ASSUME TypeInv, RestartInv, RootsInv, OwnInv, [Next]_vars, listener' # "panicked"
  PROVE  OursAreDocumented' /\ InFlightIsDocumented'
<1>0. /\ listener # "panicked" /\ OursAreDocumented /\ InFlightIsDocumented
      /\ layer2_block_number \in Nat /\ expected \in Nat /\ TreeTypes /\ ChainTypes /\ PlaceTypes
  BY PanicIsFinal, LogIsTyped DEF OwnInv, TypeInv, PlaceTypes
<1>1. layer2_block_number' \in Nat /\ layer2_block_number <= layer2_block_number'
  BY ChainGrows
<1>2. ASSUME BlockHashError
      PROVE  /\ HeadNumber = expected /\ HeadNumber \in Nat /\ HeadNumber < layer2_block_number
             /\ Blocks[HeadNumber + 1].by # Us
  <2>1. NextEvent("block") /\ HeadNumber = expected /\ Mismatch
    BY <1>2 DEF BlockHashError, NextBlockEvent
  <2>2. /\ HeadNumber \in Nat /\ HeadNumber + 1 <= layer2_block_number
        /\ Blocks[HeadNumber + 1] = HeadBlock
    BY <1>0, <2>1, HeadBlockIs
  <2>3. HeadNumber + 1 \in expected + 1 .. layer2_block_number /\ (HeadNumber + 1) - 1 = HeadNumber
    BY <1>0, <2>1, <2>2
  <2>4. HeadBlock.by # Us
    <3> SUFFICES ASSUME HeadBlock.by = Us PROVE FALSE
      OBVIOUS
    <3>1. Documented(HeadBlock, HeadNumber)
      BY <1>0, <2>2, <2>3 DEF OursAreDocumented
    <3> QED
      BY <1>0, <2>1, <3>1, DocumentedIsFirst DEF Mismatch
  <2> QED
    BY <1>0, <2>1, <2>2, <2>4
<1>3. \A n, batch, who : HasDoc(stored, n, batch, who) /\ (BlockHashError => n # HeadNumber)
                           => HasDoc(stored', n, batch, who)
  BY DocsKept
<1>4. ASSUME NEW k \in expected' + 1 .. layer2_block_number', Blocks'[k].by = Us
      PROVE  HasDoc(stored', k - 1, Commitments(Blocks'[k]), Us)
  <2>1. k \in Nat /\ k >= expected + 1
    BY <1>0, <1>1, ExpectedStep
  <2>2. CASE k <= layer2_block_number
    <3>1. Blocks'[k] = Blocks[k] /\ k \in expected + 1 .. layer2_block_number
      BY <1>0, <2>1, <2>2, NewBlockIs
    <3>2. HasDoc(stored, k - 1, Commitments(Blocks[k]), Us)
      BY <1>0, <1>4, <3>1 DEF OursAreDocumented, Documented
    <3>3. BlockHashError => k - 1 # HeadNumber
      <4> SUFFICES ASSUME BlockHashError, k - 1 = HeadNumber PROVE FALSE
        OBVIOUS
      <4>1. k = HeadNumber + 1
        BY <2>1
      <4> QED
        BY <1>2, <1>4, <3>1, <4>1
    <3> QED
      BY <1>3, <3>1, <3>2, <3>3
  <2>3. CASE k > layer2_block_number
    <3>1. /\ k = layer2_block_number + 1 /\ stored' = stored
          /\ Blocks'[layer2_block_number + 1].by = Us
      BY <1>0, <1>1, <1>4, <2>3, NewBlockIs
    <3>2. /\ Blocks'[k] = Head(draining) /\ Head(draining) \in InFlight
          /\ Head(draining).onto = layer2_block_number
      <4>1. layer2_block_number' # layer2_block_number
        BY <1>0, <1>1, <2>3
      <4> QED
        BY <3>1, <4>1, NewBlockIs DEF Us, Other
    <3>3. HasDoc(stored, layer2_block_number, Commitments(Head(draining)), Us)
      BY <1>0, <3>2 DEF InFlightIsDocumented, Documented
    <3>4. k - 1 = layer2_block_number
      BY <1>0, <3>1
    <3> QED
      BY <3>1, <3>2, <3>3, <3>4
  <2> QED
    BY <1>0, <2>1, <2>2, <2>3
<1>5. OursAreDocumented'
  BY <1>4 DEF OursAreDocumented, Documented
<1>6. ASSUME NEW b \in InFlight'
      PROVE  b.by = Us /\ (b.onto >= layer2_block_number' => HasDoc(stored', b.onto, Commitments(b), Us))
  <2>1. CASE b \in InFlight
    <3>1. b.by = Us /\ (b.onto >= layer2_block_number => HasDoc(stored, b.onto, Commitments(b), Us))
      BY <1>0, <2>1 DEF InFlightIsDocumented, Documented
    <3> SUFFICES ASSUME b.onto >= layer2_block_number' PROVE HasDoc(stored', b.onto, Commitments(b), Us)
      BY <3>1
    <3>2. b \in Block
      <4>1. pending_blocks \in Seq(Block) /\ draining \in Seq(Block) /\ assembled \in Block
        BY DEF TypeInv, AssemblyTypes
      <4> QED
        BY <2>1, <4>1 DEF InFlight, Members
    <3>3. b.onto \in Int
      BY <3>2, BlockIsTyped DEF Nowhere
    <3>4. b.onto >= layer2_block_number /\ (BlockHashError => b.onto # HeadNumber)
      BY <1>0, <1>1, <1>2, <3>3
    <3> QED
      BY <1>3, <3>1, <3>4
  <2>2. CASE b \notin InFlight
    <3>1. PICK s \in Selections : assemble_block(s) /\ InFlight' = InFlight \cup {assembled'}
      BY <2>2, InFlightStep
    <3>2. b = assembled'
      BY <2>2, <3>1
    <3>3. layer2_block_number' = layer2_block_number
      BY <3>1, SameChain DEF assemble_block, Prepare, chainVars
    <3>4. /\ assembled'.by = Us
          /\ assembled'.onto >= layer2_block_number =>
               HasDoc(stored', assembled'.onto, Commitments(assembled'), Us)
      BY <1>0, <3>1, AssembledIs
    <3> QED
      BY <3>2, <3>3, <3>4
  <2> QED
    BY <2>1, <2>2
<1>7. InFlightIsDocumented'
  BY <1>6 DEF InFlightIsDocumented, Documented
<1> QED
  BY <1>5, <1>7

\* What AcceptBlock does when it does not panic.
LEMMA AcceptIs ==
  ASSUME TypeInv, AcceptBlock, listener' # "panicked"
  PROVE  /\ listener = "listening" /\ listener' = listener /\ assembler # "push"
         /\ HeadBlock \in Block /\ HeadNumber = expected
         /\ expected + 1 <= layer2_block_number /\ Blocks[expected + 1] = HeadBlock
         /\ BlocksIn(pos) = expected /\ BlocksIn(pos + 1) = expected + 1
         /\ expected' = expected + 1 /\ pos' = pos + 1 /\ log' = log
         /\ roots' = Append(roots, expected + 1)
         /\ leaves' = IF NeedsUpdate THEN Append(leaves, Commitments(HeadBlock)) ELSE leaves
         /\ nullifiers' = IF NeedsUpdate THEN nullifiers \cup Nullifiers(HeadBlock)
                          ELSE nullifiers
         /\ stored' = IF DocsOf(expected) = {} THEN Append(stored, Doc(HeadBlock, expected))
                      ELSE stored
         /\ synchronised' = (layer2_block_number - expected - 1 = 0)
         /\ UNCHANGED <<assemblyVars, faulty>>
<1>1. ChainTypes /\ PlaceTypes /\ NextEvent("block") /\ listener = "listening" /\ assembler # "push"
  BY DEF TypeInv, AcceptBlock, NextBlockEvent, NextEvent
<1>2. /\ HeadBlock \in Block /\ HeadNumber \in Nat /\ HeadNumber + 1 <= layer2_block_number
      /\ BlocksIn(pos + 1) = HeadNumber + 1 /\ Blocks[HeadNumber + 1] = HeadBlock
  BY <1>1, HeadBlockIs
<1>3. expected = HeadNumber /\ BlocksIn(pos) = HeadNumber
  BY <1>1, LogIsTyped, AcceptIsExpected DEF PlaceTypes, HeadNumber
<1>4. /\ listener' = listener /\ expected' = expected + 1 /\ pos' = pos + 1 /\ log' = log
      /\ roots' = Append(roots, HeadNumber + 1)
      /\ leaves' = IF NeedsUpdate THEN Append(leaves, Commitments(HeadBlock)) ELSE leaves
      /\ nullifiers' = IF NeedsUpdate THEN nullifiers \cup Nullifiers(HeadBlock)
                       ELSE nullifiers
      /\ stored' = IF DocsOf(HeadNumber) = {} THEN Append(stored, Doc(HeadBlock, HeadNumber))
                   ELSE stored
      /\ synchronised' = (layer2_block_number - HeadNumber - 1 = 0)
      /\ UNCHANGED <<assemblyVars, faulty>>
  BY DEF AcceptBlock, chainVars
<1> QED
  BY <1>1, <1>2, <1>3, <1>4

LEMMA NextInOrder ==
  ASSUME TypeInv, RestartInv, RootsInv, OwnInv, [Next]_vars, listener' # "panicked"
  PROVE  DocsAreInOrder'
<1>0. /\ listener # "panicked" /\ DocsAreInOrder /\ OursAreDocumented
      /\ stored \in Seq(StoredBlock) /\ leaves \in Seq(Batch) /\ roots \in Seq(Nat)
      /\ expected \in Nat /\ layer2_block_number \in Nat /\ TreeTypes
      /\ Len(stored) \in Nat /\ DOMAIN stored = 1 .. Len(stored) /\ Len(leaves) \in Nat
  BY PanicIsFinal, LogIsTyped, LenProperties DEF OwnInv, TypeInv, TreeTypes, PlaceTypes
<1>n. /\ expected \in Nat /\ Len(stored) \in Nat /\ Len(leaves) \in Nat
      /\ DOMAIN stored = 1 .. Len(stored)
  BY <1>0
<1>1. ASSUME UNCHANGED <<roots, stored, expected>>, listener # "restart" \/ listener' = listener,
             leaves' \in Seq(Batch), Len(leaves') >= Len(leaves)
      PROVE  DocsAreInOrder'
  <2>1. Len(leaves') \in Nat
    BY <1>1, LenProperties
  <2> QED
    BY <1>0, <1>1, <2>1 DEF DocsAreInOrder
<1>2. ASSUME listener' = "restart" \/ roots' = <<>> PROVE DocsAreInOrder'
  BY <1>2 DEF DocsAreInOrder
<1>3. CASE AcceptBlock
  <2> SUFFICES ASSUME roots' # <<>>, roots'[1] = 0
               PROVE  /\ \A i \in DOMAIN stored' : stored'[i].number = i - 1
                      /\ expected' <= Len(stored') /\ Len(stored') <= Len(leaves')
    BY DEF DocsAreInOrder
  <2>1. /\ listener = "listening" /\ HeadBlock \in Block
        /\ expected + 1 <= layer2_block_number /\ Blocks[expected + 1] = HeadBlock
        /\ expected' = expected + 1 /\ roots' = Append(roots, expected + 1)
        /\ leaves' = IF NeedsUpdate THEN Append(leaves, Commitments(HeadBlock)) ELSE leaves
        /\ stored' = IF DocsOf(expected) = {} THEN Append(stored, Doc(HeadBlock, expected))
                     ELSE stored
    BY <1>3, AcceptIs
  <2>2. roots # <<>> /\ roots[1] = 0
    <3>1. ASSUME roots = <<>> PROVE FALSE
      <4>1. roots' = <<expected + 1>>
        BY <2>1, <3>1
      <4>2. roots'[1] = expected + 1
        BY <4>1
      <4> QED
        BY <1>0, <4>2
    <3>2. ASSUME roots # <<>> PROVE roots'[1] = roots[1]
      <4>1. Len(roots) \in Nat \ {0} /\ expected + 1 \in Nat
        BY <1>0, <3>2, EmptySeq
      <4>2. \A i \in 1 .. Len(roots) : Append(roots, expected + 1)[i] = roots[i]
        BY <1>0, <4>1, AppendProperties
      <4> QED
        BY <2>1, <4>1, <4>2
    <3> QED
      BY <3>1, <3>2
  <2>3. /\ \A i \in DOMAIN stored : stored[i].number = i - 1
        /\ expected <= Len(stored) /\ Len(stored) <= Len(leaves)
    BY <1>0, <2>1, <2>2 DEF DocsAreInOrder
  <2>4. CASE DocsOf(expected) # {}
    <3>1. stored' = stored /\ expected + 1 <= Len(stored)
      <4>1. PICK i \in DOMAIN stored : stored[i].number = expected
        BY <2>4 DEF DocsOf
      <4>2. i - 1 = expected /\ i <= Len(stored) /\ i \in Nat
        BY <1>0, <2>3, <4>1
      <4>3. stored' = stored
        BY <2>1, <2>4
      <4> QED
        BY <1>n, <4>2, <4>3
    <3>2. Len(leaves') >= Len(leaves) /\ Len(leaves') \in Nat
      <4>1. Commitments(HeadBlock) \in Batch
        BY <2>1, BlockIsTyped, BatchOf
      <4>2. Len(Append(leaves, Commitments(HeadBlock))) = Len(leaves) + 1
        BY <1>0, <4>1, AppendProperties
      <4> QED
        BY <1>0, <2>1, <4>2
    <3>3. expected' = expected + 1
      BY <2>1
    <3> QED
      BY <1>n, <2>3, <3>1, <3>2, <3>3
  <2>5. CASE DocsOf(expected) = {}
    <3>1. Len(stored) = expected
      <4>n. expected \in Nat /\ Len(stored) \in Nat /\ expected <= Len(stored)
        BY <1>n, <2>3
      <4> SUFFICES ASSUME expected < Len(stored) PROVE FALSE
        BY <4>n
      <4>1. expected + 1 \in DOMAIN stored /\ (expected + 1) - 1 = expected
        BY <1>0
      <4> QED
        BY <2>3, <2>5, <4>1 DEF DocsOf
    <3>2. HeadBlock.by # Us
      <4> SUFFICES ASSUME HeadBlock.by = Us PROVE FALSE
        OBVIOUS
      <4>1. expected + 1 \in expected + 1 .. layer2_block_number /\ (expected + 1) - 1 = expected
        BY <1>0, <2>1
      <4>2. Documented(HeadBlock, expected)
        BY <1>0, <2>1, <4>1 DEF OursAreDocumented
      <4> QED
        BY <1>0, <2>5, <4>2, DocumentedIsFirst
    <3>3. /\ Len(leaves') = Len(leaves) + 1
      <4>1. Commitments(HeadBlock) \in Batch
        BY <2>1, BlockIsTyped, BatchOf
      <4> QED
        BY <1>0, <2>1, <3>2, <4>1, AppendProperties DEF NeedsUpdate
    <3>4. /\ stored' = Append(stored, Doc(HeadBlock, expected))
          /\ Doc(HeadBlock, expected) \in StoredBlock /\ Doc(HeadBlock, expected).number = expected
      BY <1>0, <2>1, <2>5, DocIs DEF Doc
    <3>5. /\ stored' \in Seq(StoredBlock) /\ Len(stored') = expected + 1
          /\ \A i \in 1 .. expected : stored'[i] = stored[i]
          /\ stored'[expected + 1].number = expected
      BY <1>0, <3>1, <3>4, AppendProperties
    <3>6. DOMAIN stored' = 1 .. expected + 1
      BY <3>5, LenProperties
    <3>7. \A i \in DOMAIN stored' : stored'[i].number = i - 1
      BY <1>n, <2>3, <3>1, <3>5, <3>6
    <3>8. expected' = expected + 1 /\ Len(stored') = expected + 1 /\ Len(leaves') = Len(leaves) + 1
      BY <2>1, <3>3, <3>5
    <3> QED
      BY <1>n, <2>3, <3>1, <3>7, <3>8
  <2> QED
    BY <2>4, <2>5
<1>4. CASE BlockHashError \/ MissingBlocks
  BY <1>2, <1>4 DEF BlockHashError, MissingBlocks, AskRestart
<1>5. CASE restart_event_listener
  BY <1>2, <1>5 DEF restart_event_listener
<1>6. ASSUME UNCHANGED <<roots, stored, expected, leaves>>, listener # "restart" \/ listener' = listener
      PROVE  DocsAreInOrder'
  BY <1>0, <1>1, <1>6
<1>7. CASE Subscribe \/ process_deposit_escrowed_event \/ SkipBlock
  BY <1>6, <1>7 DEF Subscribe, process_deposit_escrowed_event, SkipBlock, treeVars
<1>8. CASE Environment
  BY <1>6, <1>8 DEF Environment, EscrowDeposit, OtherProposes, PassTurn, StreamTerminated, LoseLog,
                    pause_block_assembly, resume_block_assembly, SetRunning, treeVars, listenerVars
<1>9. CASE Intake \/ QueueBlock \/ DrainPending \/ propose_block
  BY <1>6, <1>9 DEF Intake, CheckTx, StoreTx, QueueBlock, DrainPending, propose_block, treeVars,
                    listenerVars
<1>10. CASE await_trigger \/ NotAssembling \/ InsufficientTransactions
  BY <1>6, <1>10 DEF await_trigger, NotAssembling, InsufficientTransactions, treeVars, listenerVars
<1>11. ASSUME NEW s \in Selections, Prepare(s)
       PROVE  /\ Commitments(s) \in Batch /\ leaves' = Append(leaves, Commitments(s))
              /\ leaves' \in Seq(Batch) /\ Len(leaves') = Len(leaves) + 1
              /\ UNCHANGED <<roots, listener, expected>>
  <2>1. /\ Commitments(s) \in Batch /\ leaves' = Append(leaves, Commitments(s))
        /\ UNCHANGED <<roots, listener, expected>>
    BY <1>11, PrepareIs DEF listenerVars
  <2> QED
    BY <1>0, <2>1, AppendProperties
<1>12. ASSUME NEW s \in Selections, AssemblyFails(s) PROVE DocsAreInOrder'
  <2>1. Prepare(s) /\ stored' = stored
    BY <1>12 DEF AssemblyFails
  <2> QED
    BY <1>0, <1>1, <1>11, <2>1
<1>13. ASSUME NEW s \in Selections, assemble_block(s) PROVE DocsAreInOrder'
  <2>1. Prepare(s) /\ stored' = Append(stored, NewDoc(s))
    BY <1>13 DEF assemble_block, Commitments, NewDoc
  <2>2. /\ Commitments(s) \in Batch /\ leaves' \in Seq(Batch) /\ Len(leaves') = Len(leaves) + 1
        /\ UNCHANGED <<roots, listener, expected>>
    BY <1>11, <2>1
  <2>3. NewDoc(s) \in StoredBlock /\ NewDoc(s).number = Len(stored)
    BY <1>0, <2>2 DEF NewDoc, StoredBlock, Batch
  <2>4. /\ stored' \in Seq(StoredBlock) /\ Len(stored') = Len(stored) + 1
        /\ \A i \in 1 .. Len(stored) : stored'[i] = stored[i]
        /\ stored'[Len(stored) + 1].number = Len(stored)
    BY <1>0, <2>1, <2>3, AppendProperties
  <2>5. DOMAIN stored' = 1 .. Len(stored) + 1
    BY <2>4, LenProperties
  <2> SUFFICES ASSUME roots # <<>>, roots[1] = 0, listener # "restart"
               PROVE  /\ \A i \in DOMAIN stored' : stored'[i].number = i - 1
                      /\ expected' <= Len(stored') /\ Len(stored') <= Len(leaves')
    BY <2>2 DEF DocsAreInOrder
  <2>6. /\ \A i \in DOMAIN stored : stored[i].number = i - 1
        /\ expected <= Len(stored) /\ Len(stored) <= Len(leaves)
    BY <1>0 DEF DocsAreInOrder
  <2>7. \A i \in DOMAIN stored' : stored'[i].number = i - 1
    <3> SUFFICES ASSUME NEW i \in DOMAIN stored' PROVE stored'[i].number = i - 1
      OBVIOUS
    <3>1. CASE i \in 1 .. Len(stored)
      <4>1. stored'[i] = stored[i]
        BY <2>4, <3>1
      <4> QED
        BY <1>n, <2>6, <3>1, <4>1
    <3>2. CASE i = Len(stored) + 1
      BY <1>n, <2>4, <3>2
    <3> QED
      BY <1>n, <2>5, <3>1, <3>2
  <2>8. expected' = expected /\ Len(stored') = Len(stored) + 1 /\ Len(leaves') = Len(leaves) + 1
    BY <2>2, <2>4
  <2> QED
    BY <1>n, <2>6, <2>7, <2>8
<1>14. CASE UNCHANGED vars
  BY <1>6, <1>14 DEF vars, treeVars, listenerVars
<1> QED
  BY <1>3, <1>4, <1>5, <1>7, <1>8, <1>9, <1>10, <1>12, <1>13, <1>14
     DEF Next, ListenerStep, Assembly, FinalityChecker

LEMMA InitOwn == Init => OwnInv
<1> SUFFICES ASSUME Init PROVE OwnInv
  OBVIOUS
<1>1. /\ stored = <<>> /\ leaves = <<>> /\ log = <<>> /\ expected = 0
      /\ draining = <<>> /\ pending_blocks = <<>> /\ assembler = "waiting"
  BY DEF Init
<1>2. DOMAIN stored = {} /\ Len(stored) = 0 /\ Len(leaves) = 0 /\ Len(log) = 0
  BY <1>1
<1>3. layer2_block_number = 0
  BY <1>2, CountOfNone, BlocksInIs DEF layer2_block_number
<1>4. OwnBlocksAreDisjoint
  BY <1>2 DEF OwnBlocksAreDisjoint
<1>5. OursAreDocumented
  BY <1>1, <1>3 DEF OursAreDocumented
<1>6. InFlight = {}
  BY <1>1, MembersOf DEF InFlight
<1>7. DocsAreInOrder
  BY <1>1, <1>2 DEF DocsAreInOrder
<1> QED
  BY <1>4, <1>5, <1>6, <1>7 DEF OwnInv, InFlightIsDocumented

LEMMA NextOwn == TypeInv /\ RestartInv /\ RootsInv /\ OwnInv /\ [Next]_vars => OwnInv'
<1> SUFFICES ASSUME TypeInv, RestartInv, RootsInv, OwnInv, [Next]_vars PROVE OwnInv'
  OBVIOUS
<1>1. OwnBlocksAreDisjoint'
  BY NextDisjoint
<1>2. listener' # "panicked" => (OursAreDocumented /\ InFlightIsDocumented /\ DocsAreInOrder)'
  BY NextDocumented, NextInOrder
<1> QED
  BY <1>1, <1>2 DEF OwnInv

\* No deposit or transaction is in two of the documents this proposer keeps
\* of its own blocks, whatever is lost, replayed, refused or assembled again,
\* for any mempool and any number of blocks and restarts.
THEOREM OwnBlocksCorrect == Spec => []OwnBlocksAreDisjoint
<1>1. OwnInv => OwnBlocksAreDisjoint
  BY DEF OwnInv
<1> QED
  BY <1>1, InitTypes, NextTypes, InitRestart, NextRestart, InitRoots, NextRoots, InitOwn, NextOwn,
     PTL DEF Spec

-----------------------------------------------------------------------------
(* The state of a proposer that has met no fault *)

LeavesOf(bs, n) == [i \in 1 .. n |-> Commitments(bs[i])]
NullifiersOf(bs, n) == UNION {Nullifiers(bs[i]) : i \in 1 .. n}
NoneOfOurs(bs, lo, hi) == \A k \in lo .. hi : bs[k].by # Us

OnlyInFlight(b) ==
  \/ draining = <<b>> /\ pending_blocks = <<>> /\ assembler # "push"
  \/ draining = <<>> /\ pending_blocks = <<b>> /\ assembler # "push"
  \/ draining = <<>> /\ pending_blocks = <<>> /\ assembler = "push" /\ assembled = b

\* A block in flight that the contract will refuse: a fault that is to come.
Doomed == \E b \in InFlight : b.onto < layer2_block_number

InStep == /\ listener # "restart"
          /\ BlocksIn(pos) <= expected /\ roots = ChainRoots(expected)

\* Nothing of ours is under way: the trees hold the blocks taken.
AtRest ==
  /\ NothingQueued
  /\ leaves = LeavesOf(Blocks, expected) /\ nullifiers = NullifiersOf(Blocks, expected)
  /\ NoneOfOurs(Blocks, expected + 1, layer2_block_number)

\* One block of ours is in flight and the trees hold it already.
Awaiting ==
  \E b \in Block :
    /\ OnlyInFlight(b) /\ b.by = Us /\ b.onto = expected
    /\ expected = layer2_block_number /\ synchronised
    /\ leaves = Append(LeavesOf(Blocks, expected), Commitments(b))
    /\ nullifiers = NullifiersOf(Blocks, expected) \cup Nullifiers(b)

\* It is on the chain and the listener has not taken it yet.
Landed ==
  /\ NothingQueued
  /\ expected < layer2_block_number /\ synchronised
  /\ leaves = LeavesOf(Blocks, expected + 1) /\ nullifiers = NullifiersOf(Blocks, expected + 1)
  /\ Blocks[expected + 1].by = Us
  /\ NoneOfOurs(Blocks, expected + 2, layer2_block_number)

Clean == InStep /\ (AtRest \/ Awaiting \/ Landed)

FaultFreeInv == ~faulty /\ listener # "panicked" => Doomed \/ Clean

LEMMA SameBlocks ==
  ASSUME NEW n \in Nat, NEW bs, NEW cs, \A k \in 1 .. n : bs[k] = cs[k]
  PROVE  LeavesOf(bs, n) = LeavesOf(cs, n) /\ NullifiersOf(bs, n) = NullifiersOf(cs, n)
BY DEF LeavesOf, NullifiersOf

LEMMA OneMoreBlock ==
  ASSUME NEW n \in Nat, NEW bs, \A k \in 1 .. n + 1 : bs[k] \in Block
  PROVE  /\ LeavesOf(bs, n) \in Seq(Batch) /\ Len(LeavesOf(bs, n)) = n
         /\ LeavesOf(bs, n + 1) = Append(LeavesOf(bs, n), Commitments(bs[n + 1]))
         /\ NullifiersOf(bs, n + 1) = NullifiersOf(bs, n) \cup Nullifiers(bs[n + 1])
<1>1. \A k \in 1 .. n + 1 : Commitments(bs[k]) \in Batch
  BY BlockIsTyped, BatchOf
<1>2. ASSUME NEW m \in Nat, m <= n + 1
      PROVE  /\ LeavesOf(bs, m) \in Seq(Batch) /\ Len(LeavesOf(bs, m)) = m
             /\ \A k \in 1 .. m : LeavesOf(bs, m)[k] = Commitments(bs[k])
  <2>1. \A k \in 1 .. m : Commitments(bs[k]) \in Batch
    BY <1>1, <1>2
  <2>2. LeavesOf(bs, m) \in [1 .. m -> Batch]
    BY <2>1 DEF LeavesOf
  <2>3. LeavesOf(bs, m) \in Seq(Batch) /\ Len(LeavesOf(bs, m)) = m
    BY <2>2
  <2> QED
    BY <2>3 DEF LeavesOf
<1> DEFINE x == LeavesOf(bs, n)
           y == LeavesOf(bs, n + 1)
           c == Commitments(bs[n + 1])
<1>3. /\ x \in Seq(Batch) /\ Len(x) = n /\ \A k \in 1 .. n : x[k] = Commitments(bs[k])
      /\ y \in Seq(Batch) /\ Len(y) = n + 1 /\ \A k \in 1 .. n + 1 : y[k] = Commitments(bs[k])
      /\ c \in Batch
  BY <1>1, <1>2
<1>4. y = Append(x, c)
  <2> HIDE DEF x, y
  <2>1. /\ Append(x, c) \in Seq(Batch) /\ Len(Append(x, c)) = n + 1
        /\ \A k \in 1 .. n : Append(x, c)[k] = x[k]
        /\ Append(x, c)[n + 1] = c
    BY <1>3, AppendProperties
  <2>2. \A k \in 1 .. Len(y) : y[k] = Append(x, c)[k]
    BY <1>3, <2>1
  <2> QED
    BY <1>3, <2>1, <2>2, SeqEqual
<1>5. NullifiersOf(bs, n + 1) = NullifiersOf(bs, n) \cup Nullifiers(bs[n + 1])
  <2>1. 1 .. n + 1 = (1 .. n) \cup {n + 1}
    OBVIOUS
  <2> QED
    BY <2>1 DEF NullifiersOf
<1> QED
  BY <1>3, <1>4, <1>5

LEMMA OneMoreRoot ==
  ASSUME NEW n \in Nat
  PROVE  /\ ChainRoots(n) \in Seq(Nat) /\ Len(ChainRoots(n)) = n + 1
         /\ ChainRoots(n + 1) = Append(ChainRoots(n), n + 1)
<1>1. ASSUME NEW m \in Nat
      PROVE  /\ ChainRoots(m) \in Seq(Nat) /\ Len(ChainRoots(m)) = m + 1
             /\ \A k \in 1 .. m + 1 : ChainRoots(m)[k] = k - 1
  <2>1. ChainRoots(m) \in [1 .. m + 1 -> Nat]
    BY DEF ChainRoots
  <2>2. ChainRoots(m) \in Seq(Nat) /\ Len(ChainRoots(m)) = m + 1
    BY <2>1
  <2> QED
    BY <2>2 DEF ChainRoots
<1> DEFINE x == ChainRoots(n)
           y == ChainRoots(n + 1)
<1>2. /\ x \in Seq(Nat) /\ Len(x) = n + 1 /\ \A k \in 1 .. n + 1 : x[k] = k - 1
  BY <1>1
<1>3. y \in Seq(Nat) /\ Len(y) = n + 2 /\ \A k \in 1 .. n + 2 : y[k] = k - 1
  <2>1. n + 1 \in Nat /\ (n + 1) + 1 = n + 2
    OBVIOUS
  <2> QED
    BY <1>1, <2>1
<1> HIDE DEF x, y
<1>4. /\ Append(x, n + 1) \in Seq(Nat) /\ Len(Append(x, n + 1)) = n + 2
      /\ \A k \in 1 .. n + 1 : Append(x, n + 1)[k] = x[k]
      /\ Append(x, n + 1)[n + 2] = n + 1
  BY <1>2, AppendProperties
<1>5. \A k \in 1 .. Len(y) : y[k] = Append(x, n + 1)[k]
  BY <1>2, <1>3, <1>4
<1>6. y = Append(x, n + 1)
  BY <1>3, <1>4, <1>5, SeqEqual
<1> QED
  BY <1>2, <1>6 DEF x, y

\* Every block of the chain is one.
LEMMA BlocksAreTyped ==
  ASSUME ChainTypes
  PROVE  \A k \in 1 .. layer2_block_number : Blocks[k] \in Block
<1> SUFFICES ASSUME NEW k \in 1 .. layer2_block_number PROVE Blocks[k] \in Block
  OBVIOUS
<1>1. LogIsSeq /\ Len(log) \in Nat /\ DOMAIN log = 1 .. Len(log)
  BY LogIsTyped, LenProperties DEF ChainTypes
<1>2. /\ EventOf(k) \in 1 .. Len(log) /\ log[EventOf(k)].kind = "block"
      /\ Blocks[k] = log[EventOf(k)].block
  BY <1>1, EventOfIs
<1> QED
  BY <1>1, <1>2, LogIsTyped

\* A block stays in flight until it is proposed.
LEMMA InFlightLost ==
  ASSUME TypeInv, [Next]_vars, NEW b \in InFlight
  PROVE  b \in InFlight' \/ (propose_block /\ b = Head(draining))
<1> USE DEF InFlight
<1>0. pending_blocks \in Seq(Block) /\ draining \in Seq(Block) /\ assembled \in Block
  BY DEF TypeInv, AssemblyTypes
<1>1. ASSUME UNCHANGED <<assembled, pending_blocks, draining>>,
             assembler = "push" => assembler' = "push"
      PROVE  b \in InFlight'
  <2>1. Members(draining)' = Members(draining) /\ Members(pending_blocks)' = Members(pending_blocks)
    BY <1>1
  <2> QED
    BY <1>1, <2>1
<1>2. ASSUME UNCHANGED assemblyVars PROVE b \in InFlight'
  BY <1>1, <1>2 DEF assemblyVars
<1>3. CASE StreamTerminated \/ LoseLog \/ PassTurn
  BY <1>2, <1>3 DEF StreamTerminated, LoseLog, PassTurn
<1>4. ASSUME NEW d \in Deposits, EscrowDeposit(d) PROVE b \in InFlight'
  BY <1>2, <1>4 DEF EscrowDeposit
<1>5. ASSUME NEW D \in SUBSET Deposits, NEW T \in SUBSET Txs, OtherProposes(D, T)
      PROVE  b \in InFlight'
  BY <1>2, <1>5 DEF OtherProposes
<1>6. CASE ListenerStep
  BY <1>2, <1>6 DEF ListenerStep, Subscribe, process_deposit_escrowed_event, MissingBlocks,
                    SkipBlock, BlockHashError, AcceptBlock, restart_event_listener
<1>7. CASE Intake
  BY <1>2, <1>7 DEF Intake, CheckTx, StoreTx
<1>8. CASE pause_block_assembly \/ resume_block_assembly \/ await_trigger
  BY <1>1, <1>8 DEF pause_block_assembly, resume_block_assembly, SetRunning, await_trigger
<1>9. CASE NotAssembling \/ InsufficientTransactions
  BY <1>1, <1>9 DEF NotAssembling, InsufficientTransactions, GoAround, Assembling
<1>10. ASSUME NEW s \in Selections, AssemblyFails(s) PROVE b \in InFlight'
  BY <1>1, <1>10 DEF AssemblyFails, GoAround, Prepare, Assembling
<1>11. ASSUME NEW s \in Selections, assemble_block(s) PROVE b \in InFlight'
  <2>1. /\ assembler = "triggered" /\ UNCHANGED <<pending_blocks, draining>>
    BY <1>11 DEF assemble_block, Prepare, Assembling
  <2>2. Members(draining)' = Members(draining) /\ Members(pending_blocks)' = Members(pending_blocks)
    BY <2>1
  <2> QED
    BY <2>1, <2>2
<1>12. CASE QueueBlock
  <2>1. /\ assembler = "push" /\ assembler' = "waiting" /\ draining' = draining
        /\ pending_blocks' = Append(pending_blocks, assembled)
    BY <1>12 DEF QueueBlock
  <2>2. Members(pending_blocks') = Members(pending_blocks) \cup {assembled}
    BY <1>0, <2>1, MembersOf
  <2> QED
    BY <2>1, <2>2 DEF Members
<1>13. CASE DrainPending
  <2>1. /\ draining' = pending_blocks /\ pending_blocks' = <<>> /\ UNCHANGED <<assembler, assembled>>
        /\ draining = <<>>
    BY <1>13 DEF DrainPending
  <2>2. Members(draining) = {} /\ Members(draining') = Members(pending_blocks)
    BY <2>1, MembersOf
  <2> QED
    BY <2>1, <2>2 DEF Members
<1>14. CASE propose_block
  <2>1. /\ draining # <<>> /\ draining' = Tail(draining)
        /\ UNCHANGED <<assembler, assembled, pending_blocks>>
    BY <1>14 DEF propose_block, AfterProposal
  <2>2. CASE b \in Members(draining)
    <3>1. PICK i \in DOMAIN draining : b = draining[i]
      BY <2>2 DEF Members
    <3>2. Len(draining) \in Nat \ {0} /\ DOMAIN draining = 1 .. Len(draining)
      BY <1>0, <2>1, EmptySeq, LenProperties
    <3>3. /\ Tail(draining) \in Seq(Block) /\ Len(Tail(draining)) = Len(draining) - 1
          /\ \A j \in 1 .. Len(Tail(draining)) : Tail(draining)[j] = draining[j + 1]
      BY <1>0, <2>1, HeadTailProperties
    <3>4. DOMAIN draining' = 1 .. Len(draining) - 1
          /\ \A j \in 1 .. Len(draining) - 1 : draining'[j] = draining[j + 1]
      BY <2>1, <3>3, LenProperties
    <3>5. CASE i = 1
      <4>1. Head(draining) = draining[1]
        OBVIOUS
      <4> QED
        BY <1>14, <3>1, <3>5, <4>1
    <3>6. CASE i # 1
      <4>1. i - 1 \in DOMAIN draining' /\ draining'[i - 1] = b
        BY <3>1, <3>2, <3>4, <3>6
      <4>2. b \in Members(draining')
        BY <4>1 DEF Members
      <4> QED
        BY <4>2
    <3> QED
      BY <3>5, <3>6
  <2>3. CASE b \notin Members(draining)
    BY <2>1, <2>3 DEF Members
  <2> QED
    BY <2>2, <2>3
<1>15. CASE UNCHANGED vars
  BY <1>2, <1>15 DEF vars
<1> QED
  BY <1>3, <1>4, <1>5, <1>6, <1>7, <1>8, <1>9, <1>10, <1>11, <1>12, <1>13, <1>14, <1>15
     DEF Next, Environment, Assembly, FinalityChecker

\* A doomed block stays so until the contract refuses it.
LEMMA DoomedStays ==
  ASSUME TypeInv, [Next]_vars, Doomed
  PROVE  Doomed' \/ faulty'
<1>1. PICK b \in InFlight : b.onto < layer2_block_number
  BY DEF Doomed
<1>2. /\ layer2_block_number \in Nat /\ layer2_block_number' \in Nat
      /\ layer2_block_number <= layer2_block_number'
  BY ChainGrows, LogIsTyped DEF TypeInv
<1>3. b.onto \in Int
  <2>1. pending_blocks \in Seq(Block) /\ draining \in Seq(Block) /\ assembled \in Block
    BY DEF TypeInv, AssemblyTypes
  <2>2. b \in Block
    BY <2>1 DEF InFlight, Members
  <2> QED
    BY <2>2, BlockIsTyped DEF Nowhere
<1>4. CASE b \in InFlight'
  BY <1>1, <1>2, <1>3, <1>4 DEF Doomed
<1>5. CASE propose_block /\ b = Head(draining)
  <2>1. ~Acceptable(b)
    BY <1>1, <1>2, <1>3 DEF Acceptable
  <2> QED
    BY <1>5, <2>1 DEF propose_block
<1> QED
  BY <1>4, <1>5, InFlightLost

\* What a step that touches neither the trees nor the queue does.
LEMMA Steady ==
  ASSUME TypeInv, [Next]_vars, Clean, layer2_block_number' = layer2_block_number,
         UNCHANGED <<leaves, nullifiers, expected, draining, pending_blocks, assembled>>,
         assembler' = assembler \/ (assembler # "push" /\ assembler' # "push"),
         synchronised => synchronised', InStep'
  PROVE  Clean'
<1>1. layer2_block_number \in Nat /\ expected \in Nat /\ expected <= layer2_block_number
  BY LogIsTyped DEF TypeInv, PlaceTypes
<1>2. \A k \in 1 .. layer2_block_number : Blocks'[k] = Blocks[k]
  BY NewBlockIs
<1>3. ASSUME NEW n \in Nat, n <= layer2_block_number
      PROVE  LeavesOf(Blocks', n) = LeavesOf(Blocks, n)
             /\ NullifiersOf(Blocks', n) = NullifiersOf(Blocks, n)
  <2>1. \A k \in 1 .. n : Blocks'[k] = Blocks[k]
    BY <1>1, <1>2, <1>3
  <2> QED
    BY <2>1, SameBlocks
<1>4. \A lo \in Nat : lo >= 1 /\ NoneOfOurs(Blocks, lo, layer2_block_number)
                        => NoneOfOurs(Blocks', lo, layer2_block_number)
  BY <1>1, <1>2 DEF NoneOfOurs
<1>5. CASE AtRest
  <2>1. NothingQueued' /\ leaves' = LeavesOf(Blocks', expected')
        /\ nullifiers' = NullifiersOf(Blocks', expected')
    BY <1>1, <1>3, <1>5 DEF AtRest, NothingQueued
  <2>2. NoneOfOurs(Blocks', expected' + 1, layer2_block_number')
    BY <1>1, <1>4, <1>5 DEF AtRest
  <2>3. AtRest'
    BY <2>1, <2>2 DEF AtRest
  <2> QED
    BY <2>3 DEF Clean
<1>6. CASE Awaiting
  <2>1. PICK b \in Block :
               /\ OnlyInFlight(b) /\ b.by = Us /\ b.onto = expected
               /\ expected = layer2_block_number /\ synchronised
               /\ leaves = Append(LeavesOf(Blocks, expected), Commitments(b))
               /\ nullifiers = NullifiersOf(Blocks, expected) \cup Nullifiers(b)
    BY <1>6 DEF Awaiting
  <2>2. OnlyInFlight(b)'
    BY <2>1 DEF OnlyInFlight
  <2>3. /\ leaves' = Append(LeavesOf(Blocks', expected'), Commitments(b))
        /\ nullifiers' = NullifiersOf(Blocks', expected') \cup Nullifiers(b)
        /\ b.onto = expected' /\ expected' = layer2_block_number' /\ synchronised'
    BY <1>1, <1>3, <2>1
  <2>4. Awaiting'
    BY <2>1, <2>2, <2>3 DEF Awaiting
  <2> QED
    BY <2>4 DEF Clean
<1>7. CASE Landed
  <2>1. /\ NothingQueued' /\ expected' < layer2_block_number' /\ synchronised'
    BY <1>7 DEF Landed, NothingQueued
  <2>2. expected + 1 \in Nat /\ expected + 1 <= layer2_block_number
    BY <1>1, <1>7 DEF Landed
  <2>3. /\ leaves' = LeavesOf(Blocks', expected' + 1)
        /\ nullifiers' = NullifiersOf(Blocks', expected' + 1)
    BY <1>3, <1>7, <2>2 DEF Landed
  <2>4. Blocks'[expected' + 1].by = Us
    BY <1>1, <1>2, <1>7, <2>2 DEF Landed
  <2>5. NoneOfOurs(Blocks', expected' + 2, layer2_block_number')
    BY <1>1, <1>4, <1>7 DEF Landed
  <2>6. Landed'
    BY <2>1, <2>3, <2>4, <2>5 DEF Landed
  <2> QED
    BY <2>6 DEF Clean
<1> QED
  BY <1>5, <1>6, <1>7 DEF Clean

ChainBlocks == \A k \in 1 .. layer2_block_number : Blocks[k] \in Block

LEMMA ChainBlocksAre == ChainTypes => ChainBlocks
BY BlocksAreTyped DEF ChainBlocks

LEMMA BlocksTypedNext ==
  ASSUME ChainTypes'
  PROVE  \A k \in 1 .. layer2_block_number' : Blocks'[k] \in Block
<1>1. ChainTypes' => ChainBlocks'
  BY ChainBlocksAre, PTL
<1> QED
  BY <1>1 DEF ChainBlocks

LEMMA OnlyInFlightIs ==
  ASSUME NEW b, OnlyInFlight(b)'
  PROVE  b \in InFlight'
<1>1. Members(<<b>>) = {b}
  <2>1. DOMAIN <<b>> = {1} /\ <<b>>[1] = b
    OBVIOUS
  <2> QED
    BY <2>1 DEF Members
<1>2. CASE draining' = <<b>>
  BY <1>1, <1>2 DEF InFlight, Members
<1>3. CASE pending_blocks' = <<b>>
  BY <1>1, <1>3 DEF InFlight, Members
<1>4. CASE assembler' = "push" /\ assembled' = b
  BY <1>4 DEF InFlight
<1> QED
  BY <1>2, <1>3, <1>4 DEF OnlyInFlight

\* A new block of another proposer, or ours.
LEMMA CleanGrows ==
  ASSUME TypeInv, [Next]_vars, Clean, ~faulty', layer2_block_number' # layer2_block_number
  PROVE  Doomed' \/ Clean'
<1>1. layer2_block_number \in Nat /\ expected \in Nat /\ expected <= layer2_block_number
      /\ ChainTypes /\ ChainTypes'
  BY LogIsTyped, NextChain DEF TypeInv, PlaceTypes
<1>2. /\ \A k \in 1 .. layer2_block_number : Blocks'[k] = Blocks[k]
      /\ layer2_block_number' = layer2_block_number + 1
      /\ UNCHANGED <<listenerVars, treeVars, synchronised>>
      /\ \/ Blocks'[layer2_block_number + 1].by = Other /\ UNCHANGED <<assemblyVars, faulty>>
         \/ propose_block /\ Blocks'[layer2_block_number + 1] = Head(draining)
  BY NewBlockIs
<1>3. ASSUME NEW n \in Nat, n <= layer2_block_number
      PROVE  LeavesOf(Blocks', n) = LeavesOf(Blocks, n)
             /\ NullifiersOf(Blocks', n) = NullifiersOf(Blocks, n)
  <2>1. \A k \in 1 .. n : Blocks'[k] = Blocks[k]
    BY <1>1, <1>2, <1>3
  <2> QED
    BY <2>1, SameBlocks
<1>4. InStep'
  <2>1. pos \in 0 .. Len(log) /\ pos' = pos
    BY <1>2 DEF TypeInv, PlaceTypes, listenerVars
  <2>2. BlocksIn(pos)' = BlocksIn(pos)
    <3>1. \A n \in 0 .. Len(log) : BlocksIn(n)' = BlocksIn(n)
      BY ChainGrows
    <3>2. BlocksIn(pos)' = CountIn(log', pos) /\ BlocksIn(pos) = CountIn(log, pos)
      BY <2>1 DEF BlocksIn, CountIn
    <3>3. \A n \in 0 .. Len(log) : CountIn(log', n) = CountIn(log, n)
      BY <3>1, BlocksInIs
    <3> QED
      BY <2>1, <3>2, <3>3
  <2> QED
    BY <1>2, <2>2 DEF Clean, InStep, listenerVars, treeVars
<1>5. CASE Blocks'[layer2_block_number + 1].by = Other /\ UNCHANGED <<assemblyVars, faulty>>
  <2>1. \A lo \in Nat : lo >= 1 /\ NoneOfOurs(Blocks, lo, layer2_block_number)
                          => NoneOfOurs(Blocks', lo, layer2_block_number')
    <3> SUFFICES ASSUME NEW lo \in Nat, lo >= 1, NoneOfOurs(Blocks, lo, layer2_block_number),
                        NEW k \in lo .. layer2_block_number'
                 PROVE  Blocks'[k].by # Us
      BY DEF NoneOfOurs
    <3>1. CASE k <= layer2_block_number
      BY <1>1, <1>2, <3>1 DEF NoneOfOurs
    <3>2. CASE k = layer2_block_number + 1
      BY <1>5, <3>2 DEF Us, Other
    <3> QED
      BY <1>1, <1>2, <3>1, <3>2
  <2>2. CASE AtRest
    <3>1. /\ NothingQueued' /\ leaves' = LeavesOf(Blocks', expected')
          /\ nullifiers' = NullifiersOf(Blocks', expected')
      BY <1>1, <1>2, <1>3, <1>5, <2>2 DEF AtRest, NothingQueued, assemblyVars, treeVars, listenerVars
    <3>2. NoneOfOurs(Blocks', expected' + 1, layer2_block_number')
      BY <1>1, <1>2, <2>1, <2>2 DEF AtRest, listenerVars
    <3> QED
      BY <1>4, <3>1, <3>2 DEF Clean, AtRest
  <2>3. CASE Awaiting
    <3>1. PICK b \in Block : OnlyInFlight(b) /\ b.onto = layer2_block_number
      BY <2>3 DEF Awaiting
    <3>2. b \in InFlight'
      <4>1. OnlyInFlight(b)'
        BY <1>5, <3>1 DEF OnlyInFlight, assemblyVars
      <4> QED
        BY <4>1, OnlyInFlightIs
    <3>3. b.onto < layer2_block_number'
      BY <1>1, <1>2, <3>1
    <3> QED
      BY <3>2, <3>3 DEF Doomed
  <2>4. CASE Landed
    <3>1. /\ NothingQueued' /\ expected' < layer2_block_number' /\ synchronised' /\ expected' = expected
      BY <1>1, <1>2, <1>5, <2>4 DEF Landed, NothingQueued, assemblyVars, listenerVars
    <3>2. expected + 1 \in Nat /\ expected + 1 <= layer2_block_number
      BY <1>1, <2>4 DEF Landed
    <3>3. /\ leaves' = LeavesOf(Blocks', expected' + 1)
          /\ nullifiers' = NullifiersOf(Blocks', expected' + 1)
      BY <1>2, <1>3, <2>4, <3>1, <3>2 DEF Landed, treeVars
    <3>4. Blocks'[expected' + 1].by = Us
      BY <1>1, <1>2, <2>4, <3>1, <3>2 DEF Landed
    <3>5. NoneOfOurs(Blocks', expected' + 2, layer2_block_number')
      BY <1>1, <2>1, <2>4, <3>1 DEF Landed
    <3> QED
      BY <1>4, <3>1, <3>3, <3>4, <3>5 DEF Clean, Landed
  <2> QED
    BY <2>2, <2>3, <2>4 DEF Clean
<1>6. CASE propose_block /\ Blocks'[layer2_block_number + 1] = Head(draining)
  <2>1. draining # <<>> /\ draining' = Tail(draining) /\ UNCHANGED <<pending_blocks, assembler>>
    BY <1>6 DEF propose_block, AfterProposal
  <2>2. PICK b \in Block :
               /\ OnlyInFlight(b) /\ b.by = Us /\ b.onto = expected
               /\ expected = layer2_block_number /\ synchronised
               /\ leaves = Append(LeavesOf(Blocks, expected), Commitments(b))
               /\ nullifiers = NullifiersOf(Blocks, expected) \cup Nullifiers(b)
    BY <2>1 DEF Clean, AtRest, Landed, Awaiting, NothingQueued
  <2>3. draining = <<b>> /\ pending_blocks = <<>> /\ assembler # "push"
    BY <2>1, <2>2 DEF OnlyInFlight
  <2>4. Head(draining) = b /\ Tail(draining) = <<>>
    BY <2>3
  <2>5. NothingQueued'
    BY <2>1, <2>3, <2>4 DEF NothingQueued
  <2>6. Blocks'[expected + 1] = b /\ expected' = expected /\ layer2_block_number' = expected + 1
    BY <1>2, <1>6, <2>2, <2>4 DEF listenerVars
  <2>7. \A k \in 1 .. expected + 1 : Blocks'[k] \in Block
    <3>1. \A k \in 1 .. layer2_block_number' : Blocks'[k] \in Block
      BY <1>1, BlocksTypedNext
    <3> QED
      BY <2>6, <3>1
  <2>8. /\ LeavesOf(Blocks', expected + 1) = Append(LeavesOf(Blocks', expected), Commitments(b))
        /\ NullifiersOf(Blocks', expected + 1) = NullifiersOf(Blocks', expected) \cup Nullifiers(b)
    BY <1>1, <2>6, <2>7, OneMoreBlock
  <2>9. /\ leaves' = LeavesOf(Blocks', expected' + 1)
        /\ nullifiers' = NullifiersOf(Blocks', expected' + 1)
    BY <1>1, <1>2, <1>3, <2>2, <2>6, <2>8 DEF treeVars
  <2>10. NoneOfOurs(Blocks', expected' + 2, layer2_block_number')
    BY <1>1, <2>6 DEF NoneOfOurs
  <2>11. expected' < layer2_block_number' /\ synchronised' /\ Blocks'[expected' + 1].by = Us
    BY <1>1, <1>2, <2>2, <2>6
  <2> QED
    BY <1>4, <2>5, <2>9, <2>10, <2>11 DEF Clean, Landed
<1> QED
  BY <1>2, <1>5, <1>6

\* What the documents look like in a clean state.
LEMMA CleanDocs ==
  ASSUME TypeInv, OwnInv, Clean, listener # "panicked", NextEvent("block"), HeadNumber = expected
  PROVE  ~Mismatch /\ ~Awaiting
<1>1. /\ ChainTypes /\ PlaceTypes /\ TreeTypes /\ layer2_block_number \in Nat /\ expected \in Nat
      /\ stored \in Seq(StoredBlock) /\ leaves \in Seq(Batch) /\ roots \in Seq(Nat)
  BY LogIsTyped DEF TypeInv, PlaceTypes, TreeTypes
<1>2. /\ expected + 1 <= layer2_block_number /\ Blocks[expected + 1] = HeadBlock
  BY <1>1, HeadBlockIs
<1>3. ~Awaiting
  BY <1>1, <1>2 DEF Awaiting
<1>4. CASE AtRest
  <2>1. Len(leaves) = expected
    <3>1. \A k \in 1 .. expected + 1 : Blocks[k] \in Block
      BY <1>1, <1>2, BlocksAreTyped
    <3> QED
      BY <1>1, <1>4, <3>1, OneMoreBlock DEF AtRest
  <2>2. roots # <<>> /\ roots[1] = 0 /\ listener # "restart"
    <3>1. roots = ChainRoots(expected) /\ listener # "restart"
      BY DEF Clean, InStep
    <3>2. roots = [i \in 1 .. expected + 1 |-> i - 1]
      BY <3>1 DEF ChainRoots
    <3>3. 1 \in DOMAIN roots /\ roots[1] = 0
      BY <1>1, <3>2
    <3>4. DOMAIN <<>> = {}
      OBVIOUS
    <3> QED
      BY <3>1, <3>3, <3>4
  <2>3. /\ \A i \in DOMAIN stored : stored[i].number = i - 1
        /\ Len(stored) <= expected
    BY <2>1, <2>2 DEF OwnInv, DocsAreInOrder
  <2>4. Len(stored) \in Nat /\ DOMAIN stored = 1 .. Len(stored)
    BY <1>1, LenProperties
  <2>5. \A i \in DOMAIN stored : stored[i].number # expected
    BY <1>1, <2>3, <2>4
  <2>6. DocsOf(expected) = {}
    BY <2>5 DEF DocsOf
  <2> QED
    BY <1>3, <2>6 DEF Mismatch
<1>5. CASE Landed
  <2>1. HeadBlock.by = Us /\ expected + 1 \in expected + 1 .. layer2_block_number
        /\ (expected + 1) - 1 = expected
    BY <1>1, <1>2, <1>5 DEF Landed
  <2>2. Documented(HeadBlock, expected)
    BY <1>2, <2>1 DEF OwnInv, OursAreDocumented
  <2> QED
    BY <1>1, <1>3, <2>2, DocumentedIsFirst DEF Mismatch
<1> QED
  BY <1>3, <1>4, <1>5 DEF Clean

\* A block is taken.
LEMMA CleanAccepts ==
  ASSUME TypeInv, OwnInv, [Next]_vars, Clean, AcceptBlock, listener' # "panicked"
  PROVE  Clean'
<1>1. /\ listener = "listening" /\ listener' = listener /\ HeadNumber = expected
      /\ HeadBlock \in Block
      /\ expected + 1 <= layer2_block_number /\ Blocks[expected + 1] = HeadBlock
      /\ BlocksIn(pos + 1) = expected + 1
      /\ expected' = expected + 1 /\ pos' = pos + 1 /\ log' = log
      /\ roots' = Append(roots, expected + 1)
      /\ leaves' = IF NeedsUpdate THEN Append(leaves, Commitments(HeadBlock)) ELSE leaves
      /\ nullifiers' = IF NeedsUpdate THEN nullifiers \cup Nullifiers(HeadBlock)
                       ELSE nullifiers
      /\ UNCHANGED assemblyVars
  BY AcceptIs
<1>2. /\ layer2_block_number' = layer2_block_number /\ Blocks' = Blocks
      /\ BlocksIn(pos)' = BlocksIn(pos + 1)
  <2>1. layer2_block_number' = layer2_block_number /\ Blocks' = Blocks
    BY <1>1, SameChain
  <2>2. BlocksIn(pos)' = CountIn(log', pos') /\ BlocksIn(pos + 1) = CountIn(log, pos + 1)
    BY DEF BlocksIn, CountIn
  <2> QED
    BY <1>1, <2>1, <2>2
<1>3. layer2_block_number \in Nat /\ expected \in Nat /\ ChainTypes
  BY LogIsTyped DEF TypeInv, PlaceTypes
<1>4. \A k \in 1 .. expected + 1 : Blocks[k] \in Block
  BY <1>1, <1>3, BlocksAreTyped
<1>5. /\ LeavesOf(Blocks, expected + 1) = Append(LeavesOf(Blocks, expected), Commitments(HeadBlock))
      /\ NullifiersOf(Blocks, expected + 1) = NullifiersOf(Blocks, expected) \cup Nullifiers(HeadBlock)
      /\ Len(LeavesOf(Blocks, expected)) = expected /\ LeavesOf(Blocks, expected) \in Seq(Batch)
  BY <1>1, <1>3, <1>4, OneMoreBlock
<1>6. InStep'
  <2>1. roots = ChainRoots(expected)
    BY DEF Clean, InStep
  <2>2. roots' = ChainRoots(expected')
    BY <1>1, <1>3, <2>1, OneMoreRoot
  <2>3. BlocksIn(pos)' <= expected'
    BY <1>1, <1>2, <1>3
  <2> QED
    BY <1>1, <2>2, <2>3 DEF InStep
<1>7. NothingQueued /\ (AtRest \/ Landed)
  <2>1. NextEvent("block")
    BY DEF AcceptBlock, NextBlockEvent
  <2>2. ~Awaiting
    BY <1>1, <2>1, CleanDocs
  <2> QED
    BY <2>2 DEF Clean, AtRest, Landed
<1>8. NothingQueued'
  BY <1>1, <1>7 DEF NothingQueued, assemblyVars
<1>9. CASE AtRest
  <2>1. HeadBlock.by # Us /\ NoneOfOurs(Blocks, expected' + 1, layer2_block_number)
    BY <1>1, <1>3, <1>9 DEF AtRest, NoneOfOurs
  <2>2. NeedsUpdate
    BY <2>1 DEF NeedsUpdate
  <2>3. /\ leaves' = LeavesOf(Blocks', expected') /\ nullifiers' = NullifiersOf(Blocks', expected')
    BY <1>1, <1>2, <1>5, <1>9, <2>2 DEF AtRest
  <2> QED
    BY <1>2, <1>6, <1>8, <2>1, <2>3 DEF Clean, AtRest
<1>10. CASE Landed
  <2>1. HeadBlock.by = Us /\ synchronised /\ leaves = LeavesOf(Blocks, expected + 1)
        /\ nullifiers = NullifiersOf(Blocks, expected + 1)
    BY <1>1, <1>10 DEF Landed
  <2>2. leaves # <<>>
    <3>1. Commitments(HeadBlock) \in Batch
      BY <1>1, BlockIsTyped, BatchOf
    <3>2. Append(LeavesOf(Blocks, expected), Commitments(HeadBlock)) # <<>>
      BY <1>5, <3>1, AppendProperties
    <3> QED
      BY <1>5, <2>1, <3>2
  <2>3. ~NeedsUpdate
    BY <2>1, <2>2 DEF NeedsUpdate
  <2>4. /\ leaves' = LeavesOf(Blocks', expected') /\ nullifiers' = NullifiersOf(Blocks', expected')
    BY <1>1, <1>2, <2>1, <2>3
  <2>5. NoneOfOurs(Blocks, expected' + 1, layer2_block_number)
    <3>1. expected' + 1 = expected + 2
      BY <1>1, <1>3
    <3> QED
      BY <1>10, <3>1 DEF Landed
  <2> QED
    BY <1>2, <1>6, <1>8, <2>4, <2>5 DEF Clean, AtRest
<1> QED
  BY <1>7, <1>9, <1>10

LEMMA LeavesAre ==
  ASSUME ChainTypes, NEW n \in Nat, n <= layer2_block_number
  PROVE  LeavesOf(Blocks, n) \in Seq(Batch) /\ Len(LeavesOf(Blocks, n)) = n
<1>1. \A i \in 1 .. n : Commitments(Blocks[i]) \in Batch
  <2>1. \A i \in 1 .. n : Blocks[i] \in Block
    BY BlocksAreTyped, LogIsTyped
  <2> QED
    BY <2>1, BlockIsTyped, BatchOf
<1>2. LeavesOf(Blocks, n) \in [1 .. n -> Batch]
  BY <1>1 DEF LeavesOf
<1> QED
  BY <1>2

\* A block is assembled on trees that hold the chain, or it is doomed.
LEMMA CleanAssembles ==
  ASSUME TypeInv, [Next]_vars, Clean, NEW s \in Selections, assemble_block(s)
  PROVE  Doomed' \/ Clean'
<1> DEFINE k == Len(roots) - 1
           o == IF TreesAreAt(k) THEN k ELSE Nowhere
           b == [by |-> Us, deps |-> s.deps, txs |-> s.txs, onto |-> o]
<1>1. /\ Prepare(s) /\ assembled' = b /\ assembler = "triggered" /\ assembler' = "push"
      /\ nullifiers' = nullifiers \cup Nullifiers(s)
      /\ UNCHANGED <<pending_blocks, draining>>
  BY DEF assemble_block, Prepare, Assembling
<1>2. /\ Commitments(s) \in Batch /\ leaves' = Append(leaves, Commitments(s))
      /\ UNCHANGED <<log, listenerVars, roots>> /\ synchronised' = TRUE
  BY <1>1, PrepareIs
<1>3. layer2_block_number' = layer2_block_number /\ Blocks' = Blocks /\ UNCHANGED <<pos, expected, listener>>
  BY <1>2, SameChain DEF listenerVars
<1>4. /\ layer2_block_number \in Nat /\ expected \in Nat /\ expected <= layer2_block_number
      /\ ChainTypes
  BY LogIsTyped DEF TypeInv, PlaceTypes
<1>5. roots = ChainRoots(expected) /\ Len(roots) = expected + 1 /\ k = expected
  BY <1>4, OneMoreRoot DEF Clean, InStep
<1>6. b.by = Us /\ b.onto = o /\ Commitments(b) = Commitments(s) /\ Nullifiers(b) = Nullifiers(s)
  BY DEF Commitments, Nullifiers
<1>7. b \in InFlight'
  BY <1>1 DEF InFlight
<1>8. ChainLeaves(expected) = LeavesOf(Blocks, expected)
      /\ ChainNullifiers(expected) = NullifiersOf(Blocks, expected)
  BY DEF ChainLeaves, ChainNullifiers, LeavesOf, NullifiersOf
<1>9. LeavesOf(Blocks, expected) \in Seq(Batch) /\ Len(LeavesOf(Blocks, expected)) = expected
  BY <1>4, LeavesAre
<1> HIDE DEF b, k
<1>10. ASSUME ~TreesAreAt(expected) PROVE Doomed'
  <2>1. b.onto = Nowhere
    BY <1>5, <1>6, <1>10
  <2>2. b.onto < layer2_block_number'
    BY <1>3, <1>4, <2>1 DEF Nowhere
  <2> QED
    BY <1>7, <2>2 DEF Doomed
<1>11. CASE AtRest
  <2>1. TreesAreAt(expected)
    BY <1>4, <1>5, <1>8, <1>11 DEF TreesAreAt, AtRest
  <2>2. b.onto = expected
    BY <1>5, <1>6, <2>1
  <2>3. CASE expected < layer2_block_number
    BY <1>3, <1>7, <2>2, <2>3 DEF Doomed
  <2>4. CASE expected = layer2_block_number
    <3>1. b \in Block
      <4>1. s.deps \in [Deposits -> Nat] /\ s.txs \in [Txs -> Nat]
        BY SelectionIs DEF TypeInv
      <4>2. o \in Nat
        BY <1>4, <1>6, <2>2
      <4> HIDE DEF o
      <4> QED
        BY <4>1, <4>2 DEF Block, b
    <3>2. PICK c \in Block : c = b
      BY <3>1
    <3>3. OnlyInFlight(c)'
      BY <1>1, <1>11, <3>2 DEF OnlyInFlight, AtRest, NothingQueued
    <3>4. Awaiting'
      <4>1. /\ leaves' = Append(LeavesOf(Blocks', expected'), Commitments(c))
            /\ nullifiers' = NullifiersOf(Blocks', expected') \cup Nullifiers(c)
            /\ c.onto = expected' /\ expected' = layer2_block_number' /\ synchronised'
            /\ c.by = Us
        BY <1>1, <1>2, <1>3, <1>6, <1>11, <2>2, <2>4, <3>2 DEF AtRest
      <4> QED
        BY <3>3, <4>1 DEF Awaiting
    <3>5. InStep'
      BY <1>2, <1>3 DEF Clean, InStep, BlocksIn
    <3> QED
      BY <3>4, <3>5 DEF Clean
  <2> QED
    BY <1>4, <2>3, <2>4
<1>12. CASE Awaiting
  <2>1. PICK c \in Block : leaves = Append(LeavesOf(Blocks, expected), Commitments(c))
    BY <1>12 DEF Awaiting
  <2>2. Len(leaves) = expected + 1
    BY <1>9, <2>1, BlockIsTyped, BatchOf, AppendProperties
  <2>3. ~TreesAreAt(expected)
    BY <1>4, <1>8, <1>9, <2>2 DEF TreesAreAt
  <2> QED
    BY <1>10, <2>3
<1>13. CASE Landed
  <2>1. leaves = LeavesOf(Blocks, expected + 1) /\ expected + 1 <= layer2_block_number
    BY <1>4, <1>13 DEF Landed
  <2>2. Len(leaves) = expected + 1
    BY <1>4, <2>1, LeavesAre
  <2>3. ~TreesAreAt(expected)
    BY <1>4, <1>8, <1>9, <2>2 DEF TreesAreAt
  <2> QED
    BY <1>10, <2>3
<1> QED
  BY <1>11, <1>12, <1>13 DEF Clean

\* The block moves along the queue.
LEMMA CleanQueue ==
  ASSUME TypeInv, [Next]_vars, Clean, QueueBlock \/ DrainPending
  PROVE  Clean'
<1>1. /\ UNCHANGED <<log, listenerVars, treeVars, synchronised>>
      /\ \/ /\ assembler = "push" /\ assembler' = "waiting" /\ draining' = draining
            /\ pending_blocks' = Append(pending_blocks, assembled)
         \/ /\ draining = <<>> /\ pending_blocks # <<>> /\ draining' = pending_blocks
            /\ pending_blocks' = <<>> /\ UNCHANGED <<assembler, assembled>>
  BY DEF QueueBlock, DrainPending, chainVars
<1>2. layer2_block_number' = layer2_block_number /\ Blocks' = Blocks
  BY <1>1, SameChain
<1>3. UNCHANGED <<listener, pos, expected, roots, leaves, nullifiers>>
  BY <1>1 DEF listenerVars, treeVars
<1>4. InStep'
  BY <1>1, <1>3 DEF Clean, InStep, BlocksIn
<1>5. PICK b \in Block :
             /\ OnlyInFlight(b) /\ b.by = Us /\ b.onto = expected
             /\ expected = layer2_block_number /\ synchronised
             /\ leaves = Append(LeavesOf(Blocks, expected), Commitments(b))
             /\ nullifiers = NullifiersOf(Blocks, expected) \cup Nullifiers(b)
  BY <1>1 DEF Clean, AtRest, Landed, Awaiting, NothingQueued
<1>6. OnlyInFlight(b)'
  <2>1. Append(<<>>, b) = <<b>> /\ <<b>> # <<>>
    OBVIOUS
  <2> QED
    BY <1>1, <1>5, <2>1 DEF OnlyInFlight
<1>7. Awaiting'
  BY <1>1, <1>2, <1>3, <1>5, <1>6 DEF Awaiting
<1> QED
  BY <1>4, <1>7 DEF Clean

\* So is a fault.
LEMMA FaultIsFinal ==
  ASSUME [Next]_vars, faulty
  PROVE  faulty'
<1>1. CASE ListenerStep
  BY <1>1 DEF ListenerStep, Subscribe, process_deposit_escrowed_event, MissingBlocks, SkipBlock,
              BlockHashError, AcceptBlock, restart_event_listener
<1>2. CASE Environment
  BY <1>2 DEF Environment, EscrowDeposit, OtherProposes, PassTurn, StreamTerminated, LoseLog,
              pause_block_assembly, resume_block_assembly, SetRunning
<1>3. CASE Intake \/ QueueBlock \/ DrainPending \/ propose_block
  BY <1>3 DEF Intake, CheckTx, StoreTx, QueueBlock, DrainPending, propose_block
<1>4. CASE Assembly
  BY <1>4 DEF Assembly, await_trigger, NotAssembling, InsufficientTransactions, AssemblyFails,
              assemble_block
<1>5. CASE UNCHANGED vars
  BY <1>5 DEF vars
<1> QED
  BY <1>1, <1>2, <1>3, <1>4, <1>5 DEF Next, FinalityChecker

\* The listener's other steps.
LEMMA CleanListens ==
  ASSUME TypeInv, OwnInv, [Next]_vars, Clean, ~faulty', listener # "panicked",
         \/ Subscribe \/ process_deposit_escrowed_event \/ MissingBlocks \/ SkipBlock
         \/ BlockHashError \/ restart_event_listener \/ StreamTerminated \/ LoseLog
  PROVE  Clean'
<1>1. /\ ChainTypes /\ PlaceTypes /\ LogIsSeq /\ Len(log) \in Nat /\ layer2_block_number \in Nat
      /\ pos \in Nat /\ expected \in Nat
  BY LogIsTyped DEF TypeInv, PlaceTypes
<1>2. BlocksIn(pos) <= expected /\ listener # "restart" /\ roots = ChainRoots(expected)
  BY DEF Clean, InStep
<1>3. ASSUME UNCHANGED <<log, expected, treeVars, assemblyVars, synchronised>>,
             listener' # "restart", CountIn(log, pos') <= expected
      PROVE  Clean'
  <2>1. layer2_block_number' = layer2_block_number
    BY <1>3, SameChain
  <2>2. BlocksIn(pos)' = CountIn(log', pos')
    BY DEF BlocksIn, CountIn
  <2>3. InStep'
    BY <1>2, <1>3, <2>2 DEF InStep, treeVars
  <2> QED
    BY <1>3, <2>1, <2>3, Steady DEF treeVars, assemblyVars
<1>4. BlocksIn(pos) = CountIn(log, pos) /\ CountIn(log, pos) \in Nat /\ CountIn(log, 0) = 0
  BY <1>1, BlocksInIs, CountIsFinite, CountOfNone
<1>5. CountIn(log, pos + 1) = IF log[pos + 1].kind = "block" THEN BlocksIn(pos) + 1 ELSE BlocksIn(pos)
  BY <1>1, <1>4, CountNext
<1>6. CASE Subscribe \/ StreamTerminated
  <2>1. /\ UNCHANGED <<log, expected, treeVars, assemblyVars, synchronised>>
        /\ listener' # "restart" /\ pos' = 0
    BY <1>6 DEF Subscribe, SubscribeAt, StreamTerminated, chainVars
  <2>2. CountIn(log, pos') <= expected
    BY <1>1, <1>4, <2>1
  <2> QED
    BY <1>3, <2>1, <2>2
<1>7. CASE process_deposit_escrowed_event \/ LoseLog
  <2>1. /\ UNCHANGED <<log, expected, treeVars, assemblyVars, synchronised, listener>>
        /\ pos' = pos + 1 /\ log[pos + 1].kind # "block"
    BY <1>7 DEF process_deposit_escrowed_event, LoseLog, NextEvent, chainVars
  <2>2. CountIn(log, pos') <= expected
    BY <1>2, <1>5, <2>1
  <2> QED
    BY <1>2, <1>3, <2>1, <2>2
<1>8. CASE SkipBlock
  <2>1. /\ UNCHANGED <<log, expected, treeVars, assemblyVars, synchronised, listener>>
        /\ pos' = pos + 1 /\ log[pos + 1].kind = "block" /\ expected > HeadNumber
    BY <1>8 DEF SkipBlock, NextBlockEvent, NextEvent, chainVars, Seen
  <2>2. CountIn(log, pos') <= expected
    BY <1>1, <1>4, <1>5, <2>1 DEF HeadNumber
  <2> QED
    BY <1>2, <1>3, <2>1, <2>2
<1>9. CASE MissingBlocks
  BY <1>1, <1>2, <1>4, <1>9 DEF MissingBlocks, Missed, HeadNumber
<1>10. CASE BlockHashError
  BY <1>10, CleanDocs DEF BlockHashError, NextBlockEvent
<1>11. CASE restart_event_listener
  BY <1>2, <1>11 DEF restart_event_listener
<1> QED
  BY <1>6, <1>7, <1>8, <1>9, <1>10, <1>11

\* The steps of everyone else.
LEMMA CleanElse ==
  ASSUME TypeInv, [Next]_vars, Clean, layer2_block_number' = layer2_block_number,
         UNCHANGED <<listenerVars, treeVars, draining, pending_blocks, assembled>>,
         assembler' = assembler \/ (assembler # "push" /\ assembler' # "push"),
         synchronised => synchronised'
  PROVE  Clean'
<1>1. pos \in 0 .. Len(log) /\ UNCHANGED <<pos, listener, expected, roots, leaves, nullifiers>>
  BY DEF TypeInv, PlaceTypes, listenerVars, treeVars
<1>2. BlocksIn(pos)' = BlocksIn(pos)
  <2>1. \A n \in 0 .. Len(log) : BlocksIn(n)' = BlocksIn(n)
    BY ChainGrows
  <2>2. BlocksIn(pos)' = CountIn(log', pos) /\ BlocksIn(pos) = CountIn(log, pos)
    BY <1>1 DEF BlocksIn, CountIn
  <2>3. \A n \in 0 .. Len(log) : CountIn(log', n) = CountIn(log, n)
    BY <2>1, BlocksInIs
  <2> QED
    BY <1>1, <2>2, <2>3
<1>3. InStep'
  BY <1>1, <1>2 DEF Clean, InStep
<1> QED
  BY <1>1, <1>3, Steady

LEMMA NextFaultFree == TypeInv /\ OwnInv /\ FaultFreeInv /\ [Next]_vars => FaultFreeInv'
<1> SUFFICES ASSUME TypeInv, OwnInv, FaultFreeInv, [Next]_vars, ~faulty', listener' # "panicked"
             PROVE  Doomed' \/ Clean'
  BY DEF FaultFreeInv
<1>1. listener # "panicked"
  BY PanicIsFinal
<1>2. ~faulty
  BY FaultIsFinal
<1>3. CASE Doomed
  BY <1>3, DoomedStays
<1>4. ASSUME Clean PROVE Doomed' \/ Clean'
  <2>1. CASE layer2_block_number' # layer2_block_number
    BY <1>4, <2>1, CleanGrows
  <2>2. ASSUME layer2_block_number' = layer2_block_number PROVE Doomed' \/ Clean'
    <3>1. ASSUME UNCHANGED <<listenerVars, treeVars, draining, pending_blocks, assembled>>,
                 assembler' = assembler \/ (assembler # "push" /\ assembler' # "push"),
                 synchronised => synchronised'
          PROVE  Clean'
      BY <1>4, <2>2, <3>1, CleanElse
    <3>2. CASE AcceptBlock
      BY <1>4, <3>2, CleanAccepts
    <3>3. CASE ListenerStep /\ ~AcceptBlock
      BY <1>1, <1>4, <3>3, CleanListens DEF ListenerStep
    <3>4. CASE StreamTerminated \/ LoseLog
      BY <1>1, <1>4, <3>4, CleanListens
    <3>5. ASSUME UNCHANGED <<listenerVars, treeVars, synchronised, assemblyVars>> PROVE Clean'
      BY <3>1, <3>5 DEF assemblyVars
    <3>6. ASSUME NEW d \in Deposits, EscrowDeposit(d) PROVE Clean'
      BY <3>5, <3>6 DEF EscrowDeposit
    <3>7. ASSUME NEW D \in SUBSET Deposits, NEW T \in SUBSET Txs, OtherProposes(D, T) PROVE Clean'
      BY <3>5, <3>7 DEF OtherProposes
    <3>8. CASE PassTurn
      BY <3>5, <3>8 DEF PassTurn
    <3>9. CASE pause_block_assembly \/ resume_block_assembly
      BY <3>1, <3>9 DEF pause_block_assembly, resume_block_assembly, SetRunning
    <3>10. CASE Intake
      BY <3>5, <3>10 DEF Intake, CheckTx, StoreTx
    <3>11. CASE await_trigger \/ NotAssembling
      BY <3>1, <3>11 DEF await_trigger, NotAssembling, GoAround
    <3>12. CASE InsufficientTransactions
      BY <3>1, <3>12 DEF InsufficientTransactions, GoAround, Assembling
    <3>13. ASSUME NEW s \in Selections, AssemblyFails(s) PROVE FALSE
      BY <3>13 DEF AssemblyFails
    <3>14. ASSUME NEW s \in Selections, assemble_block(s) PROVE Doomed' \/ Clean'
      BY <1>4, <3>14, CleanAssembles
    <3>15. CASE QueueBlock \/ DrainPending
      BY <1>4, <3>15, CleanQueue
    <3>16. CASE propose_block
      <4>1. LET b == Head(draining) IN log' = Append(log, BlockProposed(b))
        BY <3>16 DEF propose_block
      <4>2. ChainTypes /\ layer2_block_number \in Nat
        BY LogIsTyped DEF TypeInv
      <4>3. layer2_block_number' = layer2_block_number + 1
        BY <4>1, <4>2, BlockAdded
      <4> QED
        BY <2>2, <4>2, <4>3
    <3>17. CASE UNCHANGED vars
      BY <3>5, <3>17 DEF vars
    <3> QED
      BY <3>2, <3>3, <3>4, <3>6, <3>7, <3>8, <3>9, <3>10, <3>11, <3>12, <3>13, <3>14, <3>15, <3>16,
         <3>17 DEF Next, Environment, Assembly, FinalityChecker
  <2> QED
    BY <2>1, <2>2
<1> QED
  BY <1>1, <1>2, <1>3, <1>4 DEF FaultFreeInv

LEMMA InitFaultFree == Init => FaultFreeInv
<1> SUFFICES ASSUME Init PROVE Clean
  BY DEF FaultFreeInv
<1>1. /\ log = <<>> /\ expected = 0 /\ pos = 0 /\ listener = "retry"
      /\ leaves = <<>> /\ nullifiers = {} /\ roots = <<0>> /\ NothingQueued
  BY DEF Init, NothingQueued
<1>2. BlocksIn(0) = 0 /\ layer2_block_number = 0
  BY <1>1, CountOfNone, BlocksInIs DEF layer2_block_number
<1>3. LeavesOf(Blocks, 0) = <<>> /\ NullifiersOf(Blocks, 0) = {} /\ 1 .. 0 = {}
  <2>1. 1 .. 0 = {}
    OBVIOUS
  <2>2. LeavesOf(Blocks, 0) \in Seq({}) /\ Len(LeavesOf(Blocks, 0)) = 0
    BY <2>1 DEF LeavesOf
  <2>3. LeavesOf(Blocks, 0) = <<>>
    BY <2>2
  <2> QED
    BY <2>1, <2>3 DEF NullifiersOf
<1>4. ChainRoots(0) = <<0>>
  BY DEF ChainRoots
<1>5. InStep
  BY <1>1, <1>2, <1>4 DEF InStep
<1>6. AtRest
  BY <1>1, <1>2, <1>3 DEF AtRest, NoneOfOurs
<1> QED
  BY <1>5, <1>6 DEF Clean

\* As long as no block is lost on the way and none of ours fails or is
\* refused, a proposer that says it is synchronised, has taken every block
\* and has none of its own under way holds exactly the chain's commitments,
\* nullifiers and roots, for any number of blocks and resubscriptions.
THEOREM FaultFreeCorrect == Spec => []FaultFreeStateIsTheChain
<1>1. TypeInv /\ FaultFreeInv => FaultFreeStateIsTheChain
  <2> SUFFICES ASSUME TypeInv, FaultFreeInv, ~faulty, NothingQueued,
                      expected = layer2_block_number, listener # "panicked"
               PROVE  TreesAreAt(layer2_block_number)
    BY DEF FaultFreeStateIsTheChain, SyncedStateIsTheChain
  <2>1. layer2_block_number \in Nat
    BY LogIsTyped DEF TypeInv
  <2>2. InFlight = {}
    BY MembersOf DEF NothingQueued, InFlight
  <2>3. Clean
    BY <2>2 DEF FaultFreeInv, Doomed
  <2>4. ~Awaiting /\ ~Landed
    <3>1. \A b : ~OnlyInFlight(b)
      <4>1. \A b : <<b>> # <<>>
        OBVIOUS
      <4> QED
        BY <4>1 DEF OnlyInFlight, NothingQueued
    <3> QED
      BY <2>1, <3>1 DEF Awaiting, Landed
  <2>5. AtRest /\ roots = ChainRoots(expected)
    BY <2>3, <2>4 DEF Clean, InStep
  <2>6. ChainLeaves(expected) = LeavesOf(Blocks, expected)
        /\ ChainNullifiers(expected) = NullifiersOf(Blocks, expected)
    BY DEF ChainLeaves, ChainNullifiers, LeavesOf, NullifiersOf
  <2>7. Len(roots) = expected + 1
    BY <2>1, <2>5, OneMoreRoot
  <2> QED
    BY <2>1, <2>5, <2>6, <2>7 DEF AtRest, TreesAreAt
<1> QED
  BY <1>1, InitTypes, NextTypes, InitRestart, NextRestart, InitRoots, NextRoots, InitOwn, NextOwn,
     InitFaultFree, NextFaultFree, PTL DEF Spec

=============================================================================
