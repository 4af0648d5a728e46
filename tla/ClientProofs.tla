---------------------------- MODULE ClientProofs ----------------------------
(***************************************************************************)
(* Proofs about Client for any requests, any number of listeners and any   *)
(* bounds: its commitment tree, what its store holds against the chain,    *)
(* and what its transactions spend.                                        *)
(***************************************************************************)
EXTENDS Client, SumTheorems

\* The inductive invariant: the types the argument needs, and the property.
\* An applied block is the one after the last counted, which no block in the
\* tree exceeds; so appending it keeps the order.
TreeTypes ==
  /\ tree \in Seq(Nat \ {0})
  /\ expected \in Nat
  /\ listeners \in [1 .. MaxListeners -> [pos : Int, attempts : Int]]

TreeInv == TreeTypes /\ TreeFollowsTheChain

treeState == <<tree, expected, listeners, torn>>

\* Steps that leave the tree, the counter and the listeners alone.
LEMMA TreeUnchanged ==
  TreeInv /\ UNCHANGED treeState => TreeInv'
BY DEF TreeInv, TreeTypes, TreeFollowsTheChain, treeState

\* Steps that only move, start or stop a listener.
LEMMA ListenersMove ==
  ASSUME TreeInv, UNCHANGED <<tree, expected, torn>>,
         listeners' \in [1 .. MaxListeners -> [pos : Int, attempts : Int]]
  PROVE  TreeInv'
BY DEF TreeInv, TreeTypes, TreeFollowsTheChain

LEMMA AdvanceType ==
  ASSUME TreeInv, NEW l \in 1 .. MaxListeners
  PROVE  Advance(l) \in [1 .. MaxListeners -> [pos : Int, attempts : Int]]
<1>1. listeners[l] \in [pos : Int, attempts : Int]
  BY DEF TreeInv, TreeTypes
<1>2. [listeners[l] EXCEPT !.pos = @ + 1] \in [pos : Int, attempts : Int]
  BY <1>1
<1>3. Advance(l) = [listeners EXCEPT ![l] = [listeners[l] EXCEPT !.pos = @ + 1]]
  BY DEF Advance, TreeInv, TreeTypes
<1> QED
  BY <1>2, <1>3 DEF TreeInv, TreeTypes

LEMMA StartsEmpty == Init => TreeInv
<1> SUFFICES ASSUME Init PROVE TreeInv
  OBVIOUS
<1>1. tree = <<>> /\ expected = 0 /\ torn = {}
  BY DEF Init
<1>2. listeners \in [1 .. MaxListeners -> [pos : Int, attempts : Int]]
  BY DEF Init, Started, Stopped
<1> QED
  BY <1>1, <1>2 DEF TreeInv, TreeTypes, TreeFollowsTheChain

LEMMA CrashStartsEmpty == Crash => TreeInv'
<1> SUFFICES ASSUME Crash PROVE TreeInv'
  OBVIOUS
<1>1. tree' = <<>> /\ expected' = 0 /\ torn' = {}
  BY DEF Crash, Boot
<1>2. listeners' \in [1 .. MaxListeners -> [pos : Int, attempts : Int]]
  BY DEF Crash, Boot, Started, Stopped
<1> QED
  BY <1>1, <1>2 DEF TreeInv, TreeTypes, TreeFollowsTheChain

\* Applying a block appends the number after the last counted.
LEMMA ApplyKeepsOrder ==
  ASSUME TreeInv, NEW l \in 1 .. MaxListeners, ApplyBlock(l)
  PROVE  TreeInv'
<1>1. expected = Position(l) /\ expected' = expected + 1
      /\ tree' = Append(tree, expected + 1) /\ UNCHANGED <<listeners, torn>>
  BY DEF TreeInv, TreeTypes, ApplyBlock, Seen, Missing, Position, historyVars
<1>2. TreeTypes'
  BY <1>1 DEF TreeInv, TreeTypes
<1>3. Len(tree') = Len(tree) + 1 /\ tree'[Len(tree) + 1] = expected + 1
      /\ \A i \in 1 .. Len(tree) : tree'[i] = tree[i] /\ tree[i] \in Nat
  BY <1>1 DEF TreeInv, TreeTypes
<1>4. DOMAIN tree = 1 .. Len(tree) /\ DOMAIN tree' = 1 .. Len(tree) + 1 /\ Len(tree) \in Nat
  BY <1>1, <1>3 DEF TreeInv, TreeTypes
<1>5. \A i \in DOMAIN tree' : tree'[i] <= expected'
  BY <1>1, <1>3, <1>4 DEF TreeInv, TreeTypes, TreeFollowsTheChain
<1>6. \A i, j \in DOMAIN tree' : i < j => tree'[i] < tree'[j]
  BY <1>1, <1>3, <1>4 DEF TreeInv, TreeTypes, TreeFollowsTheChain
<1>7. torn' = {} => Len(tree') = expected'
  BY <1>1, <1>3 DEF TreeInv, TreeFollowsTheChain
<1> QED
  BY <1>2, <1>5, <1>6, <1>7 DEF TreeInv, TreeFollowsTheChain

\* A block that is counted and not applied leaves a gap, and is recorded.
LEMMA FailureIsRecorded ==
  ASSUME TreeInv, NEW l \in 1 .. MaxListeners, ApplyFails(l)
  PROVE  TreeInv'
<1>1. expected' = expected + 1 /\ UNCHANGED tree /\ torn' # {}
  BY DEF ApplyFails, dbVars
<1>2. listeners' \in [1 .. MaxListeners -> [pos : Int, attempts : Int]]
  BY DEF ApplyFails, Stop, Stopped, TreeInv, TreeTypes
<1>3. \A i \in DOMAIN tree : tree[i] \in Nat
  BY DEF TreeInv, TreeTypes
<1> QED
  BY <1>1, <1>2, <1>3 DEF TreeInv, TreeTypes, TreeFollowsTheChain

LEMMA ResetKeepsOrder ==
  ASSUME TreeInv, RestartResets
  PROVE  TreeInv'
<1>1. tree' = <<>> /\ UNCHANGED expected
  BY DEF RestartResets
<1>2. listeners' \in [1 .. MaxListeners -> [pos : Int, attempts : Int]]
  BY DEF RestartResets, Started, TreeInv, TreeTypes
<1>3. torn' = {} => tree = <<>> /\ torn = {}
  BY DEF RestartResets
<1>4. torn' = {} => Len(tree') = expected'
  BY <1>1, <1>3 DEF TreeInv, TreeFollowsTheChain
<1> QED
  BY <1>1, <1>2, <1>4 DEF TreeInv, TreeTypes, TreeFollowsTheChain

LEMMA ListenerKeepsTree ==
  ASSUME TreeInv, ListenerStep
  PROVE  TreeInv'
<1>1. ASSUME NEW l \in 1 .. MaxListeners, MissingBlocks(l) PROVE TreeInv'
  BY <1>1, ListenersMove DEF MissingBlocks, Stop, Stopped, dbVars, historyVars, TreeInv, TreeTypes
<1>2. ASSUME NEW l \in 1 .. MaxListeners, SkipBlock(l) PROVE TreeInv'
  BY <1>2, ListenersMove, AdvanceType DEF SkipBlock, dbVars, historyVars
<1>3. ASSUME NEW l \in 1 .. MaxListeners, ApplyBlock(l) PROVE TreeInv'
  BY <1>3, ApplyKeepsOrder
<1>4. ASSUME NEW l \in 1 .. MaxListeners, MarkCommitments(l) PROVE TreeInv'
  BY <1>4, TreeUnchanged DEF MarkCommitments, treeState, historyVars
<1>5. ASSUME NEW l \in 1 .. MaxListeners, StoreReceived(l) PROVE TreeInv'
  <2>1. UNCHANGED <<tree, expected, torn>>
    BY <1>5 DEF StoreReceived, historyVars
  <2>2. listeners' = Stop(l) \/ listeners' = Advance(l)
    BY <1>5 DEF StoreReceived
  <2>3. Stop(l) \in [1 .. MaxListeners -> [pos : Int, attempts : Int]]
    BY DEF Stop, Stopped, TreeInv, TreeTypes
  <2>4. Advance(l) \in [1 .. MaxListeners -> [pos : Int, attempts : Int]]
    BY AdvanceType
  <2> QED
    BY <2>1, <2>2, <2>3, <2>4, ListenersMove
<1>6. CASE RestartChecks
  BY <1>6, TreeUnchanged DEF RestartChecks, treeState, dbVars, historyVars
<1>7. CASE RestartResets
  BY <1>7, ResetKeepsOrder
<1> QED
  BY <1>1, <1>2, <1>3, <1>4, <1>5, <1>6, <1>7 DEF ListenerStep

LEMMA FaultKeepsTree ==
  ASSUME TreeInv, ListenerFault
  PROVE  TreeInv'
<1>1. ASSUME NEW l \in 1 .. MaxListeners, ApplyFails(l) PROVE TreeInv'
  BY <1>1, FailureIsRecorded
<1>2. ASSUME NEW l \in 1 .. MaxListeners, StreamTerminated(l) PROVE TreeInv'
  <2>1. UNCHANGED <<tree, expected, torn>>
    BY <1>2 DEF StreamTerminated, dbVars
  <2>2. listeners' \in [1 .. MaxListeners -> [pos : Int, attempts : Int]]
    BY <1>2 DEF StreamTerminated, Stop, Stopped, TreeInv, TreeTypes
  <2> QED
    BY <2>1, <2>2, ListenersMove
<1>3. ASSUME NEW l \in 1 .. MaxListeners, LoseLog(l) PROVE TreeInv'
  BY <1>3, ListenersMove, AdvanceType DEF LoseLog, dbVars
<1>4. CASE RestartFails
  BY <1>4, TreeUnchanged DEF RestartFails, treeState, dbVars
<1> QED
  BY <1>1, <1>2, <1>3, <1>4 DEF ListenerFault

LEMMA WorkerKeepsTree == WorkerStep => UNCHANGED treeState
BY DEF WorkerStep, CheckStatus, Sleep, TakeRequest, Escrow, EscrowFails, EscrowPanics,
       RecordDeposit, SelectValue, MarkValue, SelectFee, MarkFee, Prove,
       process_transaction_offchain, Report, Finish, treeState, dbVars, listenVars, historyVars

LEMMA StepKeepsTree == TreeInv /\ [Next]_vars => TreeInv'
<1> SUFFICES ASSUME TreeInv, [Next]_vars PROVE TreeInv'
  OBVIOUS
<1>1. ASSUME NEW block \in SUBSET pool, ProposeBlock(block) PROVE TreeInv'
  BY <1>1, TreeUnchanged DEF ProposeBlock, treeState, dbVars, listenVars, historyVars
<1>2. CASE ListenerFault
  BY <1>2, FaultKeepsTree
<1>3. CASE Crash
  BY <1>3, CrashStartsEmpty
<1>4. CASE Rest
  BY <1>4, TreeUnchanged DEF Rest, queue_request, StoreQueued, treeState, dbVars, listenVars,
                             historyVars
<1>5. CASE ListenerStep
  BY <1>5, ListenerKeepsTree
<1>6. CASE WorkerStep
  BY <1>6, WorkerKeepsTree, TreeUnchanged
<1>7. CASE UNCHANGED vars
  BY <1>7, TreeUnchanged DEF vars, treeState, dbVars, listenVars, historyVars
<1>8. CASE StatusUnreadable
  BY <1>8, TreeUnchanged DEF StatusUnreadable, treeState, dbVars, listenVars
<1> QED
  BY <1>1, <1>2, <1>3, <1>4, <1>5, <1>6, <1>7, <1>8 DEF Next, Environment

\* However many listeners deliver the same blocks, and however they are
\* interrupted and restarted, process_propose_block_event appends each block
\* at most once and in order, and every one of them unless a restart or a
\* failure is on record.
THEOREM TreeCorrect == Spec => []TreeFollowsTheChain
<1>1. TreeInv => TreeFollowsTheChain
  BY DEF TreeInv
<1> QED
  BY <1>1, StartsEmpty, StepKeepsTree, PTL DEF Spec

-----------------------------------------------------------------------------
(* Which requests are still to be turned into transactions, and that each   *)
(* is turned into one at most once.                                         *)

\* A request that the worker has taken and sent nothing for yet.
Unsending == {"escrow", "select", "mark", "selectFee", "markFee", "prove", "send"}
Handling == Unsending \cup {"record", "report", "finish"}
Offchain == {"select", "mark", "selectFee", "markFee", "prove", "send", "report"}

Queued == {queue[i] : i \in DOMAIN queue}
InHand == {r \in Requests : worker.at \in Unsending /\ worker.r = r}
Unsent == (Requests \ received) \cup Queued \cup InHand

WorkerFields == {"at", "r", "spend", "fees", "known", "result"}

QueueInv ==
  /\ received \subseteq Requests
  /\ queue \in Seq(received)
  /\ \A i, j \in DOMAIN queue : queue[i] = queue[j] => i = j
  /\ worker = [f \in WorkerFields |-> worker[f]]
  /\ worker.at \in Places
  /\ worker.at \in Handling => worker.r \in received \ Queued
  /\ worker.at \in {"escrow", "record"} => Req[worker.r].kind = "deposit"
  /\ worker.at \in Offchain => Req[worker.r].kind # "deposit"

queueState == <<received, queue, worker>>

LEMMA QueueUnchanged == QueueInv /\ UNCHANGED queueState => QueueInv'
BY DEF QueueInv, queueState, Queued

\* A step that only moves the worker to another place for the same request.
LEMMA WorkerMoves ==
  ASSUME QueueInv, UNCHANGED <<received, queue>>,
         worker' = [f \in WorkerFields |-> worker'[f]],
         worker'.r = worker.r, worker'.at \in Places,
         worker'.at \in Handling => worker.at \in Handling,
         worker'.at \in {"escrow", "record"} => worker.at \in {"escrow", "record"},
         worker'.at \in Offchain => worker.at \in Offchain
  PROVE  QueueInv'
BY DEF QueueInv, Queued

LEMMA InitQueue == Init => QueueInv
<1> SUFFICES ASSUME Init PROVE QueueInv
  OBVIOUS
<1>1. received = {} /\ queue = <<>> /\ worker = Idle
  BY DEF Init
<1>2. worker = [f \in WorkerFields |-> worker[f]] /\ worker.at = "top"
  BY <1>1 DEF Idle, WorkerFields
<1>3. <<>> \in Seq({}) /\ DOMAIN <<>> = {}
  OBVIOUS
<1> QED
  BY <1>1, <1>2, <1>3 DEF QueueInv, Queued, Places, Handling, Unsending, Offchain

\* The worker's fields after the forms its steps take.
LEMMA GoToEffect ==
  ASSUME QueueInv, NEW place, GoTo(place)
  PROVE  /\ worker' = [f \in WorkerFields |-> worker'[f]]
         /\ worker'.at = place /\ worker'.r = worker.r
         /\ worker'.spend = worker.spend /\ worker'.fees = worker.fees
         /\ worker'.known = worker.known /\ worker'.result = worker.result
BY DEF QueueInv, GoTo, WorkerFields

LEMMA EndEffect ==
  ASSUME QueueInv, NEW place, NEW result,
         worker' = [worker EXCEPT !.at = place, !.result = result]
  PROVE  /\ worker' = [f \in WorkerFields |-> worker'[f]]
         /\ worker'.at = place /\ worker'.r = worker.r /\ worker'.result = result
         /\ worker'.spend = worker.spend /\ worker'.fees = worker.fees
         /\ worker'.known = worker.known
BY DEF QueueInv, WorkerFields

\* Selecting fills one of the two lists, or the request fails.
LEMMA SelectEffect ==
  ASSUME QueueInv, NEW token, NEW amount, NEW field \in {"spend", "fees"}, NEW next,
         SelectFrom(token, amount, field, next)
  PROVE  /\ worker' = [f \in WorkerFields |-> worker'[f]]
         /\ worker'.r = worker.r /\ worker'.known = worker.known
         /\ \/ /\ worker'.at = "finish" /\ worker'.result = "Failed"
               /\ worker'.spend = worker.spend /\ worker'.fees = worker.fees
            \/ /\ worker'.at = next /\ worker'.result = worker.result
               /\ worker'[field] # <<>>
               /\ \E list \in Orders(get_available_commitments(token)) :
                    worker'[field] = UsableFrom(list, amount)
               /\ \A g \in {"spend", "fees"} \ {field} : worker'[g] = worker[g]
<1>0. PICK list \in Orders(get_available_commitments(token)) :
              IF UsableFrom(list, amount) = <<>> THEN Fail
              ELSE worker' = [worker EXCEPT ![field] = UsableFrom(list, amount), !.at = next]
  BY DEF SelectFrom
<1> DEFINE chosen == UsableFrom(list, amount)
<1>1. CASE chosen = <<>>
  <2>1. worker' = [worker EXCEPT !.at = "finish", !.result = "Failed"]
    BY <1>0, <1>1 DEF Fail
  <2> QED
    BY <2>1, EndEffect
<1>2. CASE chosen # <<>>
  <2>1. worker' = [worker EXCEPT ![field] = chosen, !.at = next]
    BY <1>0, <1>2
  <2> HIDE DEF chosen
  <2>2. /\ worker' = [f \in WorkerFields |-> worker'[f]]
        /\ worker'.r = worker.r /\ worker'.known = worker.known
        /\ worker'.at = next /\ worker'.result = worker.result /\ worker'[field] = chosen
        /\ \A g \in {"spend", "fees"} \ {field} : worker'[g] = worker[g]
    BY <2>1 DEF QueueInv, WorkerFields
  <2> QED
    BY <1>2, <2>2 DEF chosen
<1> QED
  BY <1>1, <1>2

LEMMA ProveEffect ==
  ASSUME QueueInv, NEW ok \in BOOLEAN, Prove(ok)
  PROVE  /\ worker' = [f \in WorkerFields |-> worker'[f]]
         /\ worker'.r = worker.r /\ worker'.spend = worker.spend /\ worker'.fees = worker.fees
         /\ \/ ok /\ worker'.at = "send"
            \/ ~ok /\ worker'.at = "finish"
<1>1. CASE ok
  <2>1. worker' = [worker EXCEPT !.at = "send", !.known = RootIsKnown(tree)]
    BY <1>1 DEF Prove
  <2> QED
    BY <1>1, <2>1 DEF QueueInv, WorkerFields
<1>2. CASE ~ok
  <2>1. worker' = [worker EXCEPT !.at = "finish", !.result = "Failed"]
    BY <1>2 DEF Prove, Fail
  <2> QED
    BY <1>2, <2>1, EndEffect
<1> QED
  BY <1>1, <1>2

\* The request at the head of the queue goes to the worker.
LEMMA TakeEffect ==
  ASSUME QueueInv, TakeRequest
  PROVE  /\ queue # <<>> /\ queue' = Tail(queue)
         /\ worker' = [f \in WorkerFields |-> worker'[f]]
         /\ worker'.r = Head(queue) /\ worker'.spend = <<>> /\ worker'.fees = <<>>
         /\ \/ Req[Head(queue)].kind = "deposit" /\ worker'.at = "escrow"
            \/ Req[Head(queue)].kind # "deposit" /\ worker'.at = "select"
BY DEF TakeRequest, Waiting, Idle, WorkerFields

LEMMA FinishEffect ==
  ASSUME Finish
  PROVE  worker' = [f \in WorkerFields |-> worker'[f]] /\ worker'.at = "drain"
BY DEF Finish, Idle, WorkerFields

LEMMA TakeKeepsQueue ==
  ASSUME QueueInv, TakeRequest
  PROVE  /\ QueueInv' /\ Queued' \subseteq Queued /\ Head(queue) \in Queued
<1>1. /\ queue # <<>> /\ queue' = Tail(queue)
      /\ worker' = [f \in WorkerFields |-> worker'[f]]
      /\ worker'.r = Head(queue)
      /\ \/ Req[Head(queue)].kind = "deposit" /\ worker'.at = "escrow"
         \/ Req[Head(queue)].kind # "deposit" /\ worker'.at = "select"
  BY TakeEffect
<1>2. received' = received /\ queue \in Seq(received)
  BY DEF TakeRequest, QueueInv
<1>3. /\ Len(queue) \in Nat /\ DOMAIN queue = 1 .. Len(queue) /\ Len(queue) > 0
      /\ Head(queue) = queue[1] /\ Head(queue) \in received
  BY <1>1, <1>2
<1>4. /\ queue' \in Seq(received) /\ DOMAIN queue' = 1 .. Len(queue) - 1
      /\ \A i \in DOMAIN queue' : queue'[i] = queue[i + 1]
  <2>1. Tail(queue) \in Seq(received) /\ Len(Tail(queue)) = Len(queue) - 1
    BY <1>1, <1>2
  <2>2. DOMAIN Tail(queue) = 1 .. Len(queue) - 1
    BY <2>1
  <2>3. \A i \in 1 .. Len(queue) - 1 : Tail(queue)[i] = queue[i + 1]
    BY <1>1, <1>2, <1>3
  <2> QED
    BY <1>1, <2>1, <2>2, <2>3
<1>5. \A i, j \in DOMAIN queue' : queue'[i] = queue'[j] => i = j
  <2>1. \A i, j \in DOMAIN queue : queue[i] = queue[j] => i = j
    BY DEF QueueInv
  <2>2. \A i \in DOMAIN queue' : i \in Int /\ i + 1 \in DOMAIN queue
    BY <1>3, <1>4
  <2> QED
    BY <1>4, <2>1, <2>2
<1>6. Head(queue) \in Queued /\ Head(queue) \notin Queued' /\ Queued' \subseteq Queued
  <2>1. \A i \in DOMAIN queue' : i + 1 \in DOMAIN queue /\ i + 1 # 1
    BY <1>3, <1>4
  <2>2. \A i \in DOMAIN queue' : queue'[i] # Head(queue)
    BY <1>3, <1>4, <2>1 DEF QueueInv
  <2> QED
    BY <1>3, <1>4, <2>1, <2>2 DEF Queued
<1>7. worker'.at \in Places
  BY <1>1 DEF Places
<1>8. received \subseteq Requests
  BY DEF QueueInv
<1> QED
  BY <1>1, <1>2, <1>3, <1>4, <1>5, <1>6, <1>7, <1>8
  DEF QueueInv, Handling, Unsending, Offchain

LEMMA PushKeepsQueue ==
  ASSUME QueueInv, NEW r \in Requests, queue_request(r)
  PROVE  QueueInv' /\ Queued' = Queued \cup {r} /\ received' = received \cup {r}
<1>1. /\ r \notin received /\ received' = received \cup {r} /\ queue' = Append(queue, r)
      /\ worker' = worker
  BY DEF queue_request
<1>2. queue \in Seq(received) /\ queue \in Seq(received') /\ Len(queue) \in Nat
  <2>1. queue \in Seq(received) /\ received \subseteq received'
    BY <1>1 DEF QueueInv
  <2> QED
    BY <2>1
<1>3. /\ queue' \in Seq(received') /\ DOMAIN queue' = 1 .. Len(queue) + 1
      /\ DOMAIN queue = 1 .. Len(queue) /\ queue'[Len(queue) + 1] = r
      /\ \A i \in DOMAIN queue : queue'[i] = queue[i] /\ queue[i] \in received
  BY <1>1, <1>2
<1>4. \A i, j \in DOMAIN queue' : queue'[i] = queue'[j] => i = j
  BY <1>1, <1>2, <1>3 DEF QueueInv
<1>5. Queued' = Queued \cup {r}
  <2>1. \A i \in DOMAIN queue' : i \in DOMAIN queue \/ i = Len(queue) + 1
    BY <1>2, <1>3
  <2>2. DOMAIN queue \subseteq DOMAIN queue' /\ Len(queue) + 1 \in DOMAIN queue'
    BY <1>2, <1>3
  <2> QED
    BY <1>3, <2>1, <2>2 DEF Queued
<1> QED
  BY <1>1, <1>3, <1>4, <1>5 DEF QueueInv

LEMMA WorkerKeepsQueue ==
  ASSUME QueueInv, WorkerStep
  PROVE  QueueInv'
<1>1. CASE CheckStatus \/ Sleep
  BY <1>1, GoToEffect, WorkerMoves
  DEF CheckStatus, Sleep, Places, Handling, Unsending, Offchain
<1>2. CASE TakeRequest
  BY <1>2, TakeKeepsQueue
<1>3. CASE Escrow \/ EscrowPanics
  <2>1. CASE Escrow
    BY <2>1, GoToEffect, WorkerMoves DEF Escrow, At, Places, Handling, Unsending, Offchain
  <2>2. CASE EscrowPanics
    BY <2>2, GoToEffect, WorkerMoves DEF EscrowPanics, At, Places, Handling, Unsending, Offchain
  <2> QED
    BY <1>3, <2>1, <2>2
<1>4. ASSUME NEW mined \in BOOLEAN, EscrowFails(mined) PROVE QueueInv'
  <2>1. \E result : At("escrow") /\ UNCHANGED <<received, queue>>
                    /\ worker' = [worker EXCEPT !.at = "finish", !.result = result]
    BY <1>4 DEF EscrowFails, Fail
  <2>2. /\ worker' = [f \in WorkerFields |-> worker'[f]]
        /\ worker'.at = "finish" /\ worker'.r = worker.r
    BY <2>1, EndEffect
  <2> QED
    BY <2>1, <2>2, WorkerMoves DEF At, Places, Handling, Unsending, Offchain
<1>5. CASE RecordDeposit
  BY <1>5, EndEffect, WorkerMoves
  DEF RecordDeposit, At, Places, Handling, Unsending, Offchain
<1>6. CASE SelectValue
  <2>1. /\ At("select") /\ UNCHANGED <<received, queue>>
        /\ SelectFrom("token", Req[worker.r].value, "spend", "mark")
    BY <1>6 DEF SelectValue
  <2>2. worker'.at \in {"finish", "mark"} /\ worker'.r = worker.r
        /\ worker' = [f \in WorkerFields |-> worker'[f]]
    BY <2>1, SelectEffect
  <2> QED
    BY <2>1, <2>2, WorkerMoves DEF At, Places, Handling, Unsending, Offchain
<1>7. CASE SelectFee
  <2>1. /\ At("selectFee") /\ UNCHANGED <<received, queue>>
        /\ SelectFrom("fee", Req[worker.r].fee, "fees", "markFee")
    BY <1>7 DEF SelectFee
  <2>2. worker'.at \in {"finish", "markFee"} /\ worker'.r = worker.r
        /\ worker' = [f \in WorkerFields |-> worker'[f]]
    BY <2>1, SelectEffect
  <2> QED
    BY <2>1, <2>2, WorkerMoves DEF At, Places, Handling, Unsending, Offchain
<1>8. CASE MarkValue
  <2>1. \E place \in {"prove", "selectFee"} : GoTo(place)
    BY <1>8 DEF MarkValue
  <2>2. At("mark") /\ UNCHANGED <<received, queue>>
    BY <1>8 DEF MarkValue
  <2> QED
    BY <2>1, <2>2, GoToEffect, WorkerMoves DEF At, Places, Handling, Unsending, Offchain
<1>9. CASE MarkFee
  BY <1>9, GoToEffect, WorkerMoves DEF MarkFee, At, Places, Handling, Unsending, Offchain
<1>10. ASSUME NEW ok \in BOOLEAN, Prove(ok) PROVE QueueInv'
  <2>1. At("prove") /\ UNCHANGED <<received, queue>>
    BY <1>10 DEF Prove
  <2>2. worker'.at \in {"send", "finish"} /\ worker'.r = worker.r
        /\ worker' = [f \in WorkerFields |-> worker'[f]]
    BY <1>10, ProveEffect
  <2> QED
    BY <2>1, <2>2, WorkerMoves DEF At, Places, Handling, Unsending, Offchain
<1>11. ASSUME NEW delivered \in BOOLEAN, NEW result \in Results,
              process_transaction_offchain(delivered, result)
       PROVE  QueueInv'
  <2>1. /\ At("send") /\ UNCHANGED <<received, queue>>
        /\ worker' = [worker EXCEPT !.at = "report", !.result = result]
    BY <1>11 DEF process_transaction_offchain
  <2>2. /\ worker' = [f \in WorkerFields |-> worker'[f]]
        /\ worker'.at = "report" /\ worker'.r = worker.r
    BY <2>1, EndEffect
  <2> QED
    BY <2>1, <2>2, WorkerMoves DEF At, Places, Handling, Unsending, Offchain
<1>12. CASE Report
  BY <1>12, GoToEffect, WorkerMoves DEF Report, At, Places, Handling, Unsending, Offchain
<1>13. CASE Finish
  <2>1. worker' = [f \in WorkerFields |-> worker'[f]] /\ worker'.at = "drain"
    BY <1>13, FinishEffect
  <2>2. UNCHANGED <<received, queue>>
    BY <1>13 DEF Finish
  <2> QED
    BY <2>1, <2>2 DEF QueueInv, Queued, Places, Handling, Unsending, Offchain
<1> QED
  BY <1>1, <1>2, <1>3, <1>4, <1>5, <1>6, <1>7, <1>8, <1>9, <1>10, <1>11, <1>12, <1>13
  DEF WorkerStep

\* The listeners leave the chain, the pool and the queue alone.
LEMMA ListenerFrame ==
  ASSUME ListenerStep \/ ListenerFault
  PROVE  UNCHANGED <<chain, pool, received, queue, worker, crashes>>
<1> USE DEF chainVars, queueVars, historyVars
<1>1. ASSUME NEW l \in 1 .. MaxListeners,
             \/ MissingBlocks(l) \/ SkipBlock(l) \/ ApplyBlock(l) \/ MarkCommitments(l)
             \/ StoreReceived(l)
      PROVE  UNCHANGED <<chain, pool, received, queue, worker, crashes>>
  BY <1>1 DEF MissingBlocks, SkipBlock, ApplyBlock, MarkCommitments, StoreReceived
<1>2. ASSUME NEW l \in 1 .. MaxListeners,
             ApplyFails(l) \/ StreamTerminated(l) \/ LoseLog(l)
      PROVE  UNCHANGED <<chain, pool, received, queue, worker, crashes>>
  BY <1>2 DEF ApplyFails, StreamTerminated, LoseLog
<1>3. CASE RestartChecks \/ RestartResets \/ RestartFails
  BY <1>3 DEF RestartChecks, RestartResets, RestartFails
<1> QED
  BY <1>1, <1>2, <1>3 DEF ListenerStep, ListenerFault

\* The worker leaves the chain and the listeners alone.
LEMMA WorkerFrame ==
  ASSUME WorkerStep \/ StatusUnreadable
  PROVE  UNCHANGED <<chain, expected, listeners, lock, phase, torn, crashes, received>>
BY DEF WorkerStep, CheckStatus, Sleep, TakeRequest, Escrow, EscrowFails, EscrowPanics,
       RecordDeposit, SelectValue, MarkValue, SelectFee, MarkFee, Prove, StatusUnreadable,
       process_transaction_offchain, Report, Finish, chainVars, listenVars, historyVars

LEMMA RestFrame ==
  ASSUME Rest
  PROVE  UNCHANGED <<chain, pool, commitments, expected, listeners, lock, phase, torn, crashes,
                     worker>>
BY DEF Rest, queue_request, StoreQueued, chainVars, dbVars, listenVars, historyVars

LEMMA ProposeFrame ==
  ASSUME NEW block, ProposeBlock(block)
  PROVE  UNCHANGED <<commitments, expected, listeners, lock, phase, torn, crashes, received,
                     queue, worker>>
BY DEF ProposeBlock, dbVars, listenVars, historyVars, queueVars

LEMMA NextQueue == QueueInv /\ [Next]_vars => QueueInv'
<1> SUFFICES ASSUME QueueInv, [Next]_vars PROVE QueueInv'
  OBVIOUS
<1>1. ASSUME NEW block \in SUBSET pool, ProposeBlock(block) PROVE QueueInv'
  BY <1>1, ProposeFrame, QueueUnchanged DEF queueState
<1>2. CASE ListenerFault \/ ListenerStep
  BY <1>2, ListenerFrame, QueueUnchanged DEF queueState
<1>3. CASE StatusUnreadable
  BY <1>3, GoToEffect, WorkerMoves DEF StatusUnreadable, Places, Handling, Unsending, Offchain
<1>4. CASE Crash
  <2>1. received' = received /\ queue' = <<>> /\ worker' = Idle
    BY <1>4 DEF Crash, Boot
  <2>2. worker' = [f \in WorkerFields |-> worker'[f]] /\ worker'.at = "top"
    BY <2>1 DEF Idle, WorkerFields
  <2>3. <<>> \in Seq(received) /\ DOMAIN <<>> = {}
    OBVIOUS
  <2> QED
    BY <2>1, <2>2, <2>3 DEF QueueInv, Queued, Places, Handling, Unsending, Offchain
<1>5. ASSUME NEW r \in Requests, queue_request(r) PROVE QueueInv'
  BY <1>5, PushKeepsQueue
<1>6. ASSUME NEW r \in Requests, StoreQueued(r) PROVE QueueInv'
  BY <1>6, QueueUnchanged DEF StoreQueued, queueState
<1>7. CASE WorkerStep
  BY <1>7, WorkerKeepsQueue
<1>8. CASE UNCHANGED vars
  BY <1>8, QueueUnchanged DEF vars, queueVars, queueState
<1> QED
  BY <1>1, <1>2, <1>3, <1>4, <1>5, <1>6, <1>7, <1>8 DEF Next, Environment, Rest

-----------------------------------------------------------------------------
(* The lock on the block counter *)

\* The listener that holds the lock is at the last block counted.
ListenInv ==
  /\ listeners \in [1 .. MaxListeners -> [pos : Int, attempts : Int]]
  /\ expected \in 0 .. Len(chain)
  /\ lock \in 0 .. MaxListeners
  /\ lock = 0 <=> phase = "none"
  /\ lock # 0 => /\ phase \in {"appended", "marked"}
                 /\ expected > 0 /\ listeners[lock].pos = expected - 1

LEMMA InitListen == Init => ListenInv
<1> SUFFICES ASSUME Init PROVE ListenInv
  OBVIOUS
<1>1. /\ expected = 0 /\ lock = 0 /\ phase = "none" /\ chain = <<>> /\ Len(chain) = 0
      /\ listeners = [l \in 1 .. MaxListeners |-> IF l = 1 THEN Started ELSE Stopped]
  BY DEF Init
<1> QED
  BY <1>1, ClientBounds DEF ListenInv, Started, Stopped

\* A step that leaves the counter and the lock alone, and the listener that
\* holds it.
LEMMA OthersMove ==
  ASSUME ListenInv, UNCHANGED <<chain, expected, lock, phase>>,
         listeners' \in [1 .. MaxListeners -> [pos : Int, attempts : Int]],
         lock # 0 => listeners'[lock].pos = listeners[lock].pos
  PROVE  ListenInv'
BY DEF ListenInv

ListenersType == [1 .. MaxListeners -> [pos : Int, attempts : Int]]

LEMMA AdvanceMoves ==
  ASSUME ListenInv, NEW l \in 1 .. MaxListeners
  PROVE  /\ Advance(l) \in ListenersType /\ Advance(l)[l].pos = Position(l) + 1
         /\ \A k \in (1 .. MaxListeners) \ {l} : Advance(l)[k] = listeners[k]
<1>1. listeners \in ListenersType /\ listeners[l] \in [pos : Int, attempts : Int]
  BY DEF ListenInv, ListenersType
<1>2. [listeners[l] EXCEPT !.pos = @ + 1] \in [pos : Int, attempts : Int]
      /\ [listeners[l] EXCEPT !.pos = @ + 1].pos = listeners[l].pos + 1
  BY <1>1
<1>3. Advance(l) = [listeners EXCEPT ![l] = [listeners[l] EXCEPT !.pos = @ + 1]]
  BY <1>1 DEF Advance, ListenersType
<1> QED
  BY <1>1, <1>2, <1>3 DEF ListenersType, Position

LEMMA StopMoves ==
  ASSUME ListenInv, NEW l \in 1 .. MaxListeners
  PROVE  /\ Stop(l) \in ListenersType
         /\ \A k \in (1 .. MaxListeners) \ {l} : Stop(l)[k] = listeners[k]
BY DEF ListenInv, ListenersType, Stop, Stopped

\* The block the holder of the lock is applying.
LEMMA HolderBlock ==
  ASSUME ListenInv, NEW l \in 1 .. MaxListeners, lock = l
  PROVE  expected \in 1 .. Len(chain) /\ Block(l) = chain[expected] /\ lock # 0
<1>1. lock # 0 /\ expected \in 0 .. Len(chain) /\ expected > 0 /\ listeners[l].pos = expected - 1
  BY DEF ListenInv
<1>2. listeners[l].pos + 1 = expected
  BY <1>1
<1> QED
  BY <1>1, <1>2 DEF Block, Position

LEMMA ListenerKeepsListen ==
  ASSUME ListenInv, ListenerStep \/ ListenerFault
  PROVE  ListenInv'
<1>0. listeners \in ListenersType /\ expected \in 0 .. Len(chain) /\ chain' = chain
  BY ListenerFrame DEF ListenInv, ListenersType
<1>1. ASSUME NEW l \in 1 .. MaxListeners, MissingBlocks(l) \/ SkipBlock(l) PROVE ListenInv'
  <2>1. lock = 0 /\ UNCHANGED <<expected, lock, phase>>
        /\ (listeners' = Stop(l) \/ listeners' = Advance(l))
    BY <1>1 DEF MissingBlocks, SkipBlock, HasEvent
  <2>2. listeners' \in ListenersType
    BY <2>1, AdvanceMoves, StopMoves
  <2> QED
    BY <1>0, <2>1, <2>2, OthersMove DEF ListenersType
<1>2. ASSUME NEW l \in 1 .. MaxListeners, ApplyBlock(l) PROVE ListenInv'
  <2>1. /\ expected = Position(l) /\ Position(l) < Len(chain)
        /\ expected' = expected + 1 /\ lock' = l /\ phase' = "appended" /\ listeners' = listeners
    BY <1>0, <1>2 DEF ApplyBlock, Seen, Missing, Position, HasEvent, ListenersType
  <2>2. expected' \in 0 .. Len(chain') /\ expected' > 0 /\ listeners'[lock'].pos = expected' - 1
    BY <1>0, <2>1 DEF Position
  <2>3. lock' \in 0 .. MaxListeners /\ lock' # 0
    BY <2>1, ClientBounds
  <2> QED
    BY <1>0, <2>1, <2>2, <2>3 DEF ListenInv, ListenersType
<1>3. ASSUME NEW l \in 1 .. MaxListeners, MarkCommitments(l) PROVE ListenInv'
  BY <1>0, <1>3 DEF MarkCommitments, ListenInv
<1>4. ASSUME NEW l \in 1 .. MaxListeners, StoreReceived(l) PROVE ListenInv'
  <2>1. expected' = expected /\ lock' = 0 /\ phase' = "none"
        /\ (listeners' = Stop(l) \/ listeners' = Advance(l))
    BY <1>4 DEF StoreReceived, Release
  <2>2. listeners' \in ListenersType
    BY <2>1, AdvanceMoves, StopMoves
  <2> QED
    BY <1>0, <2>1, <2>2, ClientBounds DEF ListenInv, ListenersType
<1>5. ASSUME NEW l \in 1 .. MaxListeners, ApplyFails(l) PROVE ListenInv'
  <2>1. /\ expected = Position(l) /\ Position(l) < Len(chain) /\ lock = 0
        /\ expected' = expected + 1 /\ UNCHANGED <<lock, phase>> /\ listeners' = Stop(l)
    BY <1>5 DEF ApplyFails, HasEvent
  <2>2. expected' \in 0 .. Len(chain') /\ listeners' \in ListenersType
    BY <1>0, <2>1, StopMoves
  <2> QED
    BY <2>1, <2>2 DEF ListenInv, ListenersType
<1>6. ASSUME NEW l \in 1 .. MaxListeners, LoseLog(l) PROVE ListenInv'
  <2>1. UNCHANGED <<expected, lock, phase>> /\ listeners' = Advance(l) /\ lock # l
    BY <1>6 DEF LoseLog
  <2>2. lock # 0 => lock \in (1 .. MaxListeners) \ {l}
    BY <2>1 DEF ListenInv
  <2> QED
    BY <1>0, <2>1, <2>2, AdvanceMoves, OthersMove DEF ListenersType
<1>7. ASSUME NEW l \in 1 .. MaxListeners, StreamTerminated(l) PROVE ListenInv'
  <2> DEFINE again == [pos |-> 0, attempts |-> listeners[l].attempts + 1]
  <2>1. UNCHANGED <<expected, lock, phase>> /\ lock # l
        /\ (listeners' = Stop(l) \/ listeners' = [listeners EXCEPT ![l] = again])
    BY <1>0, <1>7 DEF StreamTerminated, ListenersType
  <2>2. again \in [pos : Int, attempts : Int]
    BY <1>0 DEF ListenersType
  <2> HIDE DEF again
  <2>3. lock # 0 => lock \in (1 .. MaxListeners) \ {l}
    BY <2>1 DEF ListenInv
  <2>4. listeners' \in ListenersType /\ \A k \in (1 .. MaxListeners) \ {l} : listeners'[k] = listeners[k]
    BY <1>0, <2>1, <2>2, StopMoves DEF ListenersType
  <2> QED
    BY <1>0, <2>1, <2>3, <2>4, OthersMove DEF ListenersType
<1>8. CASE RestartChecks \/ RestartFails
  BY <1>0, <1>8 DEF RestartChecks, RestartFails, ListenInv
<1>9. CASE RestartResets
  <2>1. PICK l \in (1 .. MaxListeners) \ Alive : listeners' = [listeners EXCEPT ![l] = Started]
    BY <1>9 DEF RestartResets
  <2>2. UNCHANGED <<expected, lock, phase>>
    BY <1>9 DEF RestartResets
  <2>3. ASSUME lock # 0 PROVE lock # l /\ lock \in 1 .. MaxListeners
    <3>1. lock \in 1 .. MaxListeners /\ listeners[lock].pos = expected - 1 /\ expected > 0
      BY <2>3 DEF ListenInv
    <3>2. listeners[lock] # Stopped
      BY <1>0, <3>1 DEF Stopped
    <3> QED
      BY <3>1, <3>2 DEF Alive
  <2>4. listeners' \in ListenersType
    BY <1>0, <2>1 DEF ListenersType, Started
  <2>5. lock # 0 => listeners'[lock].pos = listeners[lock].pos
    BY <1>0, <2>1, <2>3 DEF ListenersType
  <2> QED
    BY <1>0, <2>2, <2>4, <2>5, OthersMove DEF ListenersType
<1> QED
  BY <1>1, <1>2, <1>3, <1>4, <1>5, <1>6, <1>7, <1>8, <1>9 DEF ListenerStep, ListenerFault

LEMMA NextListen ==
  ASSUME ListenInv, NEW S, chain \in Seq(S), [Next]_vars
  PROVE  ListenInv'
<1>0. Len(chain) \in Nat
  OBVIOUS
<1>1. ASSUME NEW block \in SUBSET pool, ProposeBlock(block) PROVE ListenInv'
  <2>1. chain' = Append(chain, block)
    BY <1>1 DEF ProposeBlock
  <2>2. chain \in Seq(S \cup {block})
    OBVIOUS
  <2>3. Len(chain') = Len(chain) + 1
    BY <2>1, <2>2
  <2>4. expected' \in 0 .. Len(chain')
    BY <1>0, <1>1, <2>3, ProposeFrame DEF ListenInv
  <2> QED
    BY <1>1, <2>4, ProposeFrame DEF ListenInv
<1>2. CASE ListenerFault \/ ListenerStep
  BY <1>2, ListenerKeepsListen
<1>3. CASE StatusUnreadable \/ WorkerStep
  BY <1>3, WorkerFrame DEF ListenInv
<1>4. CASE Crash
  <2>1. /\ expected' = 0 /\ lock' = 0 /\ phase' = "none" /\ chain' = chain
        /\ listeners' = [l \in 1 .. MaxListeners |-> IF l = 1 THEN Started ELSE Stopped]
    BY <1>4 DEF Crash, Boot, chainVars
  <2>2. listeners' \in ListenersType
    BY <2>1 DEF ListenersType, Started, Stopped
  <2>3. expected' \in 0 .. Len(chain') /\ lock' \in 0 .. MaxListeners
    BY <1>0, <2>1, ClientBounds
  <2> QED
    BY <2>1, <2>2, <2>3 DEF ListenInv, ListenersType
<1>5. CASE Rest
  BY <1>5, RestFrame DEF ListenInv
<1>6. CASE UNCHANGED vars
  BY <1>6 DEF vars, chainVars, listenVars, ListenInv
<1> QED
  BY <1>1, <1>2, <1>3, <1>4, <1>5, <1>6 DEF Next, Environment

\* No step makes a request unsent again.
LEMMA UnsentShrinks ==
  ASSUME QueueInv, [Next]_vars
  PROVE  Unsent' \subseteq Unsent
<1>0. ASSUME UNCHANGED <<received, queue>>,
             worker'.at \in Unsending => worker.at \in Unsending /\ worker'.r = worker.r
      PROVE  Unsent' \subseteq Unsent
  BY <1>0 DEF Unsent, Queued, InHand
<1>1. ASSUME NEW block \in SUBSET pool, ProposeBlock(block) PROVE Unsent' \subseteq Unsent
  BY <1>0, <1>1, ProposeFrame
<1>2. CASE ListenerFault \/ ListenerStep
  BY <1>0, <1>2, ListenerFrame
<1>3. CASE Crash
  <2>1. received' = received /\ queue' = <<>> /\ worker'.at = "top"
    BY <1>3 DEF Crash, Boot, Idle
  <2> QED
    BY <2>1 DEF Unsent, Queued, InHand, Unsending
<1>4. ASSUME NEW r \in Requests, queue_request(r) PROVE Unsent' \subseteq Unsent
  <2>1. Queued' = Queued \cup {r} /\ received' = received \cup {r} /\ r \notin received
        /\ worker' = worker
    BY <1>4, PushKeepsQueue DEF queue_request
  <2> QED
    BY <2>1 DEF Unsent, InHand
<1>5. ASSUME NEW r \in Requests, StoreQueued(r) PROVE Unsent' \subseteq Unsent
  BY <1>0, <1>5 DEF StoreQueued
<1>6. CASE StatusUnreadable \/ CheckStatus \/ Sleep \/ Escrow \/ EscrowPanics
  BY <1>0, <1>6, GoToEffect
  DEF StatusUnreadable, CheckStatus, Sleep, Escrow, EscrowPanics, Unsending
<1>7. CASE TakeRequest
  <2>1. Queued' \subseteq Queued /\ Head(queue) \in Queued
    BY <1>7, TakeKeepsQueue
  <2>2. worker'.r = Head(queue) /\ received' = received
    BY <1>7, TakeEffect DEF TakeRequest
  <2> QED
    BY <2>1, <2>2 DEF Unsent, InHand
<1>8. ASSUME NEW mined \in BOOLEAN, EscrowFails(mined) PROVE Unsent' \subseteq Unsent
  BY <1>0, <1>8, EndEffect DEF EscrowFails, Fail, Unsending
<1>9. CASE RecordDeposit
  BY <1>0, <1>9, EndEffect DEF RecordDeposit, Unsending
<1>10. CASE SelectValue
  <2>1. At("select") /\ UNCHANGED <<received, queue>>
        /\ SelectFrom("token", Req[worker.r].value, "spend", "mark")
    BY <1>10 DEF SelectValue
  <2> QED
    BY <1>0, <2>1, SelectEffect DEF At, Unsending
<1>11. CASE SelectFee
  <2>1. At("selectFee") /\ UNCHANGED <<received, queue>>
        /\ SelectFrom("fee", Req[worker.r].fee, "fees", "markFee")
    BY <1>11 DEF SelectFee
  <2> QED
    BY <1>0, <2>1, SelectEffect DEF At, Unsending
<1>12. CASE MarkValue
  <2>1. At("mark") /\ UNCHANGED <<received, queue>> /\ \E place : GoTo(place)
    BY <1>12 DEF MarkValue
  <2> QED
    BY <1>0, <2>1, GoToEffect DEF At, Unsending
<1>13. CASE MarkFee \/ Report
  BY <1>0, <1>13, GoToEffect DEF MarkFee, Report, At, Unsending
<1>14. ASSUME NEW ok \in BOOLEAN, Prove(ok) PROVE Unsent' \subseteq Unsent
  <2>1. At("prove") /\ UNCHANGED <<received, queue>>
    BY <1>14 DEF Prove
  <2> QED
    BY <1>0, <1>14, <2>1, ProveEffect DEF At, Unsending
<1>15. ASSUME NEW delivered \in BOOLEAN, NEW result \in Results,
              process_transaction_offchain(delivered, result)
       PROVE  Unsent' \subseteq Unsent
  BY <1>0, <1>15, EndEffect DEF process_transaction_offchain, Unsending
<1>16. CASE Finish
  BY <1>0, <1>16, FinishEffect DEF Finish, Unsending
<1>17. CASE UNCHANGED vars
  BY <1>0, <1>17 DEF vars, queueVars
<1> QED
  BY <1>1, <1>2, <1>3, <1>4, <1>5, <1>6, <1>7, <1>8, <1>9, <1>10, <1>11, <1>12, <1>13,
     <1>14, <1>15, <1>16, <1>17 DEF Next, Environment, Rest, WorkerStep

-----------------------------------------------------------------------------
(* The transactions *)

Name == (Requests \cup Incoming) \X (1 .. 4)
Transaction == [id : Requests \cup Incoming \cup Name, outputs : SUBSET Name,
                spends : SUBSET Name, ours : SUBSET Name]

IncomingNames == Incoming \X {1}

\* No transaction is of a request that is still unsent, and one carries for
\* this client only what others send.
Sound(t) ==
  /\ \A c \in t.outputs : c[1] \notin Unsent
  /\ t.ours \subseteq t.outputs /\ t.ours \subseteq IncomingNames

TxTypes == pool \subseteq Transaction /\ chain \in Seq(SUBSET Transaction)

TxsAreSound ==
  /\ \A t \in pool : Sound(t)
  /\ \A n \in DOMAIN chain : \A t \in chain[n] : Sound(t)

\* A commitment is on chain before the block that spends it.
SpendsAreOnChain ==
  /\ \A t \in pool : t.spends \subseteq OnChain(Len(chain))
  /\ \A n \in DOMAIN chain : Spends(chain[n]) \subseteq OnChain(n - 1)
  /\ worker.at = "send" => Spent \subseteq OnChain(Len(chain))

\* Every commitment is the output of one transaction and in one block at most.
OutputsAreUnique ==
  /\ \A t, u \in pool : t # u => t.outputs \cap u.outputs = {}
  /\ \A n \in DOMAIN chain : Outputs(chain[n]) \cap Outputs(pool) = {}
  /\ \A m, n \in DOMAIN chain : m # n => Outputs(chain[m]) \cap Outputs(chain[n]) = {}

ChainInv == TxTypes /\ TxsAreSound /\ SpendsAreOnChain /\ OutputsAreUnique

\* What a new block does to the sets that the blocks make up.
LEMMA ChainGrows ==
  ASSUME NEW S, chain \in Seq(S), NEW block, chain' = Append(chain, block)
  PROVE  /\ Len(chain) \in Nat /\ Len(chain') = Len(chain) + 1
         /\ DOMAIN chain = 1 .. Len(chain) /\ DOMAIN chain' = 1 .. Len(chain) + 1
         /\ \A n \in 1 .. Len(chain) : chain'[n] = chain[n]
         /\ chain'[Len(chain) + 1] = block
         /\ \A n \in 0 .. Len(chain) : OnChain(n)' = OnChain(n) /\ Nullified(n)' = Nullified(n)
         /\ OnChain(Len(chain)) \subseteq OnChain(Len(chain))'
<1>1. chain \in Seq(S \cup {block})
  OBVIOUS
<1>2. /\ Len(chain) \in Nat /\ Len(chain') = Len(chain) + 1
      /\ DOMAIN chain = 1 .. Len(chain) /\ DOMAIN chain' = 1 .. Len(chain) + 1
      /\ \A n \in 1 .. Len(chain) : chain'[n] = chain[n]
      /\ chain'[Len(chain) + 1] = block
  BY <1>1
<1>3. ASSUME NEW n \in 0 .. Len(chain)
      PROVE  OnChain(n)' = OnChain(n) /\ Nullified(n)' = Nullified(n)
  <2>1. \A i \in 1 .. n : chain'[i] = chain[i]
    BY <1>2
  <2> QED
    BY <2>1 DEF OnChain, Nullified
<1>4. OnChain(Len(chain)) \subseteq OnChain(Len(chain))'
  <2>1. \A i \in 1 .. Len(chain) : i \in 1 .. Len(chain') /\ chain'[i] = chain[i]
    BY <1>2
  <2> QED
    BY <2>1 DEF OnChain
<1> QED
  BY <1>2, <1>3, <1>4

LEMMA OnChainGrows ==
  ASSUME NEW m \in Int, NEW n \in Int, m <= n
  PROVE  OnChain(m) \subseteq OnChain(n) /\ Nullified(m) \subseteq Nullified(n)
<1>1. 1 .. m \subseteq 1 .. n
  OBVIOUS
<1> QED
  BY <1>1 DEF OnChain, Nullified

LEMMA InitChain == Init => ChainInv
<1> SUFFICES ASSUME Init PROVE ChainInv
  OBVIOUS
<1>1. /\ chain = <<>> /\ pool = {IncomingTx(i) : i \in Incoming}
      /\ worker.at = "top" /\ received = {} /\ queue = <<>>
  BY DEF Init, Idle
<1>2. chain \in Seq(SUBSET Transaction) /\ DOMAIN chain = {}
  BY <1>1
<1>3. Unsent \subseteq Requests
  BY <1>1 DEF Unsent, Queued, InHand
<1>4. ASSUME NEW i \in Incoming
      PROVE  /\ IncomingTx(i) \in Transaction /\ Sound(IncomingTx(i))
             /\ IncomingTx(i).spends = {} /\ IncomingTx(i).outputs = {<<i, 1>>}
  <2>1. <<i, 1>> \in Name /\ <<i, 1>> \in IncomingNames
    BY DEF Name, IncomingNames
  <2>2. i \notin Unsent
    BY <1>3, RequestAssumption
  <2> QED
    BY <2>1, <2>2 DEF IncomingTx, Tx, Transaction, Sound
<1>5. TxTypes /\ TxsAreSound
  BY <1>1, <1>2, <1>4 DEF TxTypes, TxsAreSound
<1>6. SpendsAreOnChain
  BY <1>1, <1>2, <1>4 DEF SpendsAreOnChain
<1>7. OutputsAreUnique
  <2>1. ASSUME NEW i \in Incoming, NEW j \in Incoming, IncomingTx(i) # IncomingTx(j)
        PROVE  IncomingTx(i).outputs \cap IncomingTx(j).outputs = {}
    <3>1. i # j
      BY <2>1
    <3>2. <<i, 1>> # <<j, 1>>
      BY <3>1
    <3> QED
      BY <1>4, <3>2
  <2> QED
    BY <1>1, <1>2, <2>1 DEF OutputsAreUnique
<1> QED
  BY <1>5, <1>6, <1>7 DEF ChainInv

LEMMA ChainKept ==
  ASSUME ChainInv, UNCHANGED <<chain, pool>>, Unsent' \subseteq Unsent,
         worker'.at = "send" => Spent' \subseteq OnChain(Len(chain))
  PROVE  ChainInv'
<1>1. TxTypes' /\ OutputsAreUnique'
  BY DEF ChainInv, TxTypes, OutputsAreUnique, Outputs
<1>2. \A t : Sound(t) => Sound(t)'
  BY DEF Sound
<1>3. TxsAreSound'
  BY <1>2 DEF ChainInv, TxsAreSound
<1>4. SpendsAreOnChain'
  BY DEF ChainInv, SpendsAreOnChain, OnChain, Outputs, Spends
<1> QED
  BY <1>1, <1>3, <1>4 DEF ChainInv

LEMMA ProposeKeepsChain ==
  ASSUME ChainInv, NEW block \in SUBSET pool, ProposeBlock(block), Unsent' \subseteq Unsent
  PROVE  ChainInv'
<1>0. /\ chain' = Append(chain, block) /\ pool' = pool \ block /\ worker' = worker
      /\ chain \in Seq(SUBSET Transaction) /\ block \in SUBSET Transaction
  BY ProposeFrame DEF ProposeBlock, ChainInv, TxTypes
<1>1. /\ Len(chain) \in Nat /\ Len(chain') = Len(chain) + 1
      /\ DOMAIN chain = 1 .. Len(chain) /\ DOMAIN chain' = 1 .. Len(chain) + 1
      /\ \A n \in 1 .. Len(chain) : chain'[n] = chain[n]
      /\ chain'[Len(chain) + 1] = block
      /\ \A n \in 0 .. Len(chain) : OnChain(n)' = OnChain(n)
      /\ OnChain(Len(chain)) \subseteq OnChain(Len(chain))'
  BY <1>0, ChainGrows
<1>2. TxTypes'
  BY <1>0 DEF ChainInv, TxTypes
<1>3. \A t : Sound(t) => Sound(t)'
  BY DEF Sound
<1>4. TxsAreSound'
  BY <1>0, <1>1, <1>3 DEF ChainInv, TxsAreSound
<1>5. SpendsAreOnChain'
  <2>1. Spends(block) \subseteq OnChain(Len(chain))
    BY DEF Spends, ChainInv, SpendsAreOnChain
  <2>2. ASSUME NEW n \in DOMAIN chain' PROVE Spends(chain'[n]) \subseteq OnChain(n - 1)'
    <3>1. CASE n \in DOMAIN chain
      <4>1. n - 1 \in 0 .. Len(chain) /\ chain'[n] = chain[n]
        BY <1>1, <3>1
      <4>2. Spends(chain[n]) \subseteq OnChain(n - 1) /\ OnChain(n - 1)' = OnChain(n - 1)
        BY <1>1, <3>1, <4>1 DEF ChainInv, SpendsAreOnChain
      <4> QED
        BY <4>1, <4>2
    <3>2. CASE n = Len(chain) + 1
      <4>1. n - 1 = Len(chain) /\ chain'[n] = block /\ Len(chain) \in 0 .. Len(chain)
        BY <1>1, <3>2
      <4>2. OnChain(n - 1)' = OnChain(n - 1)
        BY <1>1, <4>1
      <4> QED
        BY <2>1, <4>1, <4>2
    <3> QED
      BY <1>1, <3>1, <3>2
  <2>3. \A t \in pool' : t.spends \subseteq OnChain(Len(chain))'
    BY <1>0, <1>1 DEF ChainInv, SpendsAreOnChain
  <2>4. worker'.at = "send" => Spent' \subseteq OnChain(Len(chain))'
    BY <1>0, <1>1 DEF ChainInv, SpendsAreOnChain, Spent
  <2>5. \A n \in DOMAIN chain' : Spends(chain[n])' \subseteq OnChain(n - 1)'
    BY <2>2 DEF Spends
  <2> QED
    BY <2>3, <2>4, <2>5 DEF SpendsAreOnChain
<1>6. OutputsAreUnique'
  <2>1. Outputs(block) \subseteq Outputs(pool) /\ Outputs(pool') \subseteq Outputs(pool)
    BY <1>0 DEF Outputs
  <2>2. Outputs(block) \cap Outputs(pool') = {}
    BY <1>0 DEF Outputs, ChainInv, OutputsAreUnique
  <2>3. \A n \in DOMAIN chain' : \/ n \in DOMAIN chain /\ chain'[n] = chain[n]
                                 \/ n = Len(chain) + 1 /\ chain'[n] = block
    <3>1. \A n \in DOMAIN chain' : n \in 1 .. Len(chain) \/ n = Len(chain) + 1
      BY <1>1
    <3> QED
      BY <1>1, <3>1
  <2>4. \A n \in DOMAIN chain : Outputs(chain[n]) \cap Outputs(pool) = {}
    BY DEF ChainInv, OutputsAreUnique
  <2>5. \A n \in DOMAIN chain' : Outputs(chain'[n]) \cap Outputs(pool') = {}
    BY <2>1, <2>2, <2>3, <2>4
  <2>6. \A m, n \in DOMAIN chain' : m # n => Outputs(chain'[m]) \cap Outputs(chain'[n]) = {}
    BY <2>1, <2>3, <2>4 DEF ChainInv, OutputsAreUnique
  <2>7. \A t, u \in pool' : t # u => t.outputs \cap u.outputs = {}
    BY <1>0 DEF ChainInv, OutputsAreUnique
  <2>8. \A n \in DOMAIN chain' : (Outputs(chain[n]) \cap Outputs(pool))' = {}
    BY <2>5 DEF Outputs
  <2>9. \A m, n \in DOMAIN chain' :
           m # n => (Outputs(chain[m]) \cap Outputs(chain[n]))' = {}
    BY <2>6 DEF Outputs
  <2> QED
    BY <2>7, <2>8, <2>9 DEF OutputsAreUnique
<1> QED
  BY <1>2, <1>4, <1>5, <1>6 DEF ChainInv

\* Transactions that a request may add: they make its own outputs, each its
\* own, and spend what is on chain.
TxsOf(r, N) ==
  /\ \A t \in N : /\ t.ours = {} /\ t.spends \subseteq OnChain(Len(chain))
                  /\ \A c \in t.outputs : c[1] = r
  /\ \A t, u \in N : t # u => t.outputs \cap u.outputs = {}

LEMMA SendKeepsChain ==
  ASSUME ChainInv, chain' = chain, Unsent' \subseteq Unsent,
         NEW r \in Unsent, r \notin Unsent',
         NEW N \in SUBSET Transaction, pool' = pool \cup N,
         TxsOf(r, N), worker'.at # "send"
  PROVE  ChainInv'
<1>1. TxTypes'
  BY DEF ChainInv, TxTypes
<1>2. \A t : Sound(t) => Sound(t)'
  BY DEF Sound
<1>3. \A t \in N : Sound(t)'
  BY DEF Sound, TxsOf
<1>4. TxsAreSound'
  BY <1>2, <1>3 DEF ChainInv, TxsAreSound
<1>5. SpendsAreOnChain'
  BY DEF ChainInv, SpendsAreOnChain, TxsOf, OnChain, Outputs, Spends
<1>6. OutputsAreUnique'
  <2>1. \A t \in pool, u \in N : t.outputs \cap u.outputs = {}
    BY DEF ChainInv, TxsAreSound, Sound, TxsOf
  <2>2. Outputs(pool') = Outputs(pool) \cup Outputs(N)
    BY DEF Outputs
  <2>3. \A n \in DOMAIN chain : Outputs(chain[n]) \cap Outputs(N) = {}
    BY DEF ChainInv, TxsAreSound, Sound, TxsOf, Outputs
  <2>4. \A t, u \in pool' : t # u => t.outputs \cap u.outputs = {}
    BY <2>1 DEF ChainInv, OutputsAreUnique, TxsOf
  <2>5. \A n \in DOMAIN chain : Outputs(chain[n]) \cap Outputs(pool') = {}
    BY <2>2, <2>3 DEF ChainInv, OutputsAreUnique
  <2> QED
    BY <2>4, <2>5 DEF ChainInv, OutputsAreUnique, Outputs
<1> QED
  BY <1>1, <1>4, <1>5, <1>6 DEF ChainInv

LEMMA OnChainType ==
  ASSUME TxTypes
  PROVE  OnChain(Len(chain)) \subseteq Name
<1>1. \A n \in 1 .. Len(chain) : chain[n] \subseteq Transaction
  BY DEF TxTypes
<1> QED
  BY <1>1 DEF OnChain, Outputs, Transaction

\* What has a membership proof is on chain.
LEMMA InTreeIsOnChain ==
  ASSUME TreeInv, ListenInv, TxTypes, NEW c, InTree(c)
  PROVE  c \in OnChain(Len(chain))
<1>1. PICK i \in DOMAIN tree : c \in Outputs(chain[tree[i]])
  BY DEF InTree
<1>2. tree[i] \in Nat \ {0} /\ tree[i] <= expected /\ expected \in 0 .. Len(chain)
  BY DEF TreeInv, TreeTypes, TreeFollowsTheChain, ListenInv
<1>3. Len(chain) \in Nat
  BY DEF TxTypes
<1>4. tree[i] \in 1 .. Len(chain)
  BY <1>2, <1>3
<1> QED
  BY <1>1, <1>4 DEF OnChain

LEMMA DepositTxsShape ==
  ASSUME NEW r \in Requests
  PROVE  /\ DepositTxs(r) \subseteq Transaction
         /\ \A t \in DepositTxs(r) : /\ t.ours = {} /\ t.spends = {} /\ t.id \notin Requests
                                     /\ \A c \in t.outputs : c[1] = r
         /\ \A t, u \in DepositTxs(r) : t # u => t.outputs \cap u.outputs = {}
<1>1. DOMAIN DepositEntries(r) \subseteq {<<r, 1>>, <<r, 2>>}
  BY DEF DepositEntries
<1>2. /\ <<r, 1>> \in Name /\ <<r, 2>> \in Name
      /\ <<r, 1>> \notin Requests /\ <<r, 2>> \notin Requests
  BY RequestAssumption DEF Name
<1>3. \A t \in DepositTxs(r) : \E c \in {<<r, 1>>, <<r, 2>>} : t = Tx(c, {c}, {}, {})
  BY <1>1 DEF DepositTxs
<1>4. DepositTxs(r) \subseteq Transaction
  BY <1>2, <1>3 DEF Tx, Transaction
<1>5. \A t \in DepositTxs(r) : /\ t.ours = {} /\ t.spends = {} /\ t.id \notin Requests
                               /\ \A c \in t.outputs : c[1] = r
  BY <1>2, <1>3 DEF Tx
<1>6. ASSUME NEW t \in DepositTxs(r), NEW u \in DepositTxs(r), t # u
      PROVE  t.outputs \cap u.outputs = {}
  <2>1. PICK c \in {<<r, 1>>, <<r, 2>>} : t = Tx(c, {c}, {}, {})
    BY <1>3
  <2>2. PICK e \in {<<r, 1>>, <<r, 2>>} : u = Tx(e, {e}, {}, {})
    BY <1>3
  <2>3. c # e /\ t.outputs = {c} /\ u.outputs = {e}
    BY <1>6, <2>1, <2>2 DEF Tx
  <2> QED
    BY <2>3
<1> QED
  BY <1>4, <1>5, <1>6

LEMMA OutputsShape ==
  ASSUME NEW r \in Requests
  PROVE  OutputsOnChain(r) \subseteq Name /\ \A c \in OutputsOnChain(r) : c[1] = r
BY DEF OutputsOnChain, Name

\* A request that leaves the worker's hands is no longer unsent.
LEMMA InHandIsUnsent ==
  ASSUME QueueInv, worker.at \in Unsending
  PROVE  /\ worker.r \in Unsent /\ worker.r \in Requests
         /\ UNCHANGED <<received, queue>> /\ worker'.at \notin Unsending
            => worker.r \notin Unsent'
<1>1. worker.r \in received \ Queued /\ received \subseteq Requests
  BY DEF QueueInv, Handling
<1> QED
  BY <1>1 DEF Unsent, InHand, Queued

LEMMA EscrowKeepsChain ==
  ASSUME QueueInv, ChainInv, At("escrow"), UNCHANGED <<chain, received, queue>>,
         Unsent' \subseteq Unsent, worker'.at \in {"record", "finish"},
         pool' = pool \cup DepositTxs(worker.r)
  PROVE  ChainInv'
<1>1. /\ worker.r \in Unsent /\ worker.r \in Requests /\ worker.r \notin Unsent'
      /\ worker'.at # "send"
  BY InHandIsUnsent DEF At, Unsending
<1>2. /\ DepositTxs(worker.r) \subseteq Transaction
      /\ \A t \in DepositTxs(worker.r) : /\ t.ours = {} /\ t.spends = {}
                                         /\ \A c \in t.outputs : c[1] = worker.r
      /\ \A t, u \in DepositTxs(worker.r) : t # u => t.outputs \cap u.outputs = {}
  BY <1>1, DepositTxsShape
<1>3. PICK r \in Unsent : r = worker.r
  BY <1>1
<1>4. PICK N \in SUBSET Transaction : N = DepositTxs(worker.r)
  BY <1>2
<1>5. TxsOf(r, N)
  BY <1>2, <1>3, <1>4 DEF TxsOf
<1> QED
  BY <1>1, <1>2, <1>3, <1>4, <1>5, SendKeepsChain

LEMMA OffchainKeepsChain ==
  ASSUME QueueInv, ChainInv, NEW delivered \in BOOLEAN, NEW result \in Results,
         process_transaction_offchain(delivered, result), Unsent' \subseteq Unsent
  PROVE  ChainInv'
<1>1. /\ At("send") /\ UNCHANGED <<chain, received, queue>>
      /\ worker'.at = "report"
  BY EndEffect DEF process_transaction_offchain
<1>2. CASE delivered
  <2> DEFINE t == Tx(worker.r, OutputsOnChain(worker.r), Spent, {})
  <2>1. pool' = pool \cup {t}
    BY <1>2 DEF process_transaction_offchain
  <2>2. worker.r \in Unsent /\ worker.r \in Requests /\ worker.r \notin Unsent'
    BY <1>1, InHandIsUnsent DEF At, Unsending
  <2>3. Spent \subseteq OnChain(Len(chain)) /\ Spent \subseteq Name
    BY <1>1, OnChainType DEF At, ChainInv, SpendsAreOnChain
  <2>4. OutputsOnChain(worker.r) \subseteq Name /\ \A c \in OutputsOnChain(worker.r) : c[1] = worker.r
    BY <2>2, OutputsShape
  <2>5. /\ t \in Transaction /\ t.ours = {} /\ t.spends = Spent
        /\ t.outputs = OutputsOnChain(worker.r)
    BY <2>2, <2>3, <2>4 DEF Tx, Transaction
  <2> HIDE DEF t
  <2>6. PICK r \in Unsent : r = worker.r
    BY <2>2
  <2>7. PICK N \in SUBSET Transaction : N = {t}
    BY <2>5
  <2>8. TxsOf(r, N)
    BY <2>3, <2>4, <2>5, <2>6, <2>7 DEF TxsOf
  <2> QED
    BY <1>1, <2>1, <2>2, <2>6, <2>7, <2>8, SendKeepsChain
<1>3. CASE ~delivered
  BY <1>1, <1>3, ChainKept DEF process_transaction_offchain
<1> QED
  BY <1>2, <1>3

\* Only Escrow, EscrowFails and the delivery touch the pool, and only Prove
\* takes the worker to the delivery.
LEMMA OtherWorkerSteps ==
  ASSUME QueueInv,
         \/ StatusUnreadable \/ CheckStatus \/ Sleep \/ TakeRequest \/ EscrowPanics
         \/ RecordDeposit \/ SelectValue \/ MarkValue \/ SelectFee \/ MarkFee \/ Report \/ Finish
  PROVE  UNCHANGED <<chain, pool>> /\ worker'.at # "send"
<1>1. UNCHANGED <<chain, pool>>
  BY DEF StatusUnreadable, CheckStatus, Sleep, TakeRequest, EscrowPanics, RecordDeposit,
         SelectValue, MarkValue, SelectFee, MarkFee, Report, Finish, chainVars
<1>2. CASE StatusUnreadable \/ CheckStatus \/ Sleep \/ EscrowPanics \/ MarkFee \/ Report
  BY <1>1, <1>2, GoToEffect
  DEF StatusUnreadable, CheckStatus, Sleep, EscrowPanics, MarkFee, Report
<1>3. CASE TakeRequest
  BY <1>1, <1>3, TakeEffect
<1>4. CASE RecordDeposit
  BY <1>1, <1>4, EndEffect DEF RecordDeposit
<1>5. CASE SelectValue
  <2>1. SelectFrom("token", Req[worker.r].value, "spend", "mark")
    BY <1>5 DEF SelectValue
  <2>2. worker'.at \in {"finish", "mark"}
    BY <2>1, SelectEffect
  <2> QED
    BY <1>1, <2>2
<1>6. CASE SelectFee
  <2>1. SelectFrom("fee", Req[worker.r].fee, "fees", "markFee")
    BY <1>6 DEF SelectFee
  <2>2. worker'.at \in {"finish", "markFee"}
    BY <2>1, SelectEffect
  <2> QED
    BY <1>1, <2>2
<1>7. CASE MarkValue
  <2>1. GoTo("prove") \/ GoTo("selectFee")
    BY <1>7 DEF MarkValue
  <2> QED
    BY <1>1, <2>1, GoToEffect
<1>8. CASE Finish
  BY <1>1, <1>8, FinishEffect
<1> QED
  BY <1>2, <1>3, <1>4, <1>5, <1>6, <1>7, <1>8

LEMMA NextChain ==
  ASSUME QueueInv, ListenInv, TreeInv, ChainInv, [Next]_vars
  PROVE  ChainInv'
<1>0. Unsent' \subseteq Unsent
  BY UnsentShrinks
<1>1. ASSUME NEW block \in SUBSET pool, ProposeBlock(block) PROVE ChainInv'
  BY <1>0, <1>1, ProposeKeepsChain
<1>2. CASE ListenerFault \/ ListenerStep
  BY <1>0, <1>2, ListenerFrame, ChainKept DEF ChainInv, SpendsAreOnChain, Spent
<1>3. CASE Crash
  <2>1. UNCHANGED <<chain, pool>> /\ worker'.at = "top"
    BY <1>3 DEF Crash, Boot, Idle, chainVars
  <2> QED
    BY <1>0, <2>1, ChainKept
<1>4. CASE Rest
  BY <1>0, <1>4, RestFrame, ChainKept DEF ChainInv, SpendsAreOnChain, Spent
<1>5. CASE \/ StatusUnreadable \/ CheckStatus \/ Sleep \/ TakeRequest \/ EscrowPanics
           \/ RecordDeposit \/ SelectValue \/ MarkValue \/ SelectFee \/ MarkFee \/ Report \/ Finish
  BY <1>0, <1>5, OtherWorkerSteps, ChainKept
<1>6. CASE Escrow
  <2>1. /\ At("escrow") /\ UNCHANGED <<chain, received, queue>>
        /\ pool' = pool \cup DepositTxs(worker.r) /\ GoTo("record")
    BY <1>6 DEF Escrow
  <2> QED
    BY <1>0, <2>1, GoToEffect, EscrowKeepsChain
<1>7. ASSUME NEW mined \in BOOLEAN, EscrowFails(mined) PROVE ChainInv'
  <2>1. /\ At("escrow") /\ UNCHANGED <<chain, received, queue>> /\ worker'.at = "finish"
        /\ (pool' = pool \cup DepositTxs(worker.r) \/ pool' = pool)
    BY <1>7, EndEffect DEF EscrowFails, Fail
  <2>2. CASE pool' = pool \cup DepositTxs(worker.r)
    BY <1>0, <2>1, <2>2, EscrowKeepsChain
  <2>3. CASE pool' = pool
    BY <1>0, <2>1, <2>3, ChainKept
  <2> QED
    BY <2>1, <2>2, <2>3
<1>8. ASSUME NEW ok \in BOOLEAN, Prove(ok) PROVE ChainInv'
  <2>1. UNCHANGED <<chain, pool>> /\ (ok => \A c \in Spent : InTree(c))
    BY <1>8 DEF Prove, chainVars
  <2>2. worker'.at = "send" => ok
    BY <1>8, ProveEffect
  <2>3. Spent' = Spent
    BY <1>8, ProveEffect DEF Spent, Keys
  <2>4. worker'.at = "send" => Spent' \subseteq OnChain(Len(chain))
    BY <2>1, <2>2, <2>3, InTreeIsOnChain DEF ChainInv
  <2> QED
    BY <1>0, <2>1, <2>4, ChainKept
<1>9. ASSUME NEW delivered \in BOOLEAN, NEW result \in Results,
             process_transaction_offchain(delivered, result)
      PROVE  ChainInv'
  BY <1>0, <1>9, OffchainKeepsChain
<1>10. CASE UNCHANGED vars
  <2>1. UNCHANGED <<chain, pool, worker>>
    BY <1>10 DEF vars, chainVars, queueVars
  <2> QED
    BY <1>0, <2>1, ChainKept DEF ChainInv, SpendsAreOnChain, Spent
<1> QED
  BY <1>1, <1>2, <1>3, <1>4, <1>5, <1>6, <1>7, <1>8, <1>9, <1>10
  DEF Next, Environment, WorkerStep

-----------------------------------------------------------------------------
(* What may be spent *)

EntryFields == {"token", "value", "status"}
EntriesShaped ==
  \A c \in DOMAIN commitments : commitments[c] = [f \in EntryFields |-> commitments[c][f]]

SpendInv == EntriesShaped /\ SpendableIsUnspentOnChain

LEMMA UpToType ==
  ASSUME ListenInv, TxTypes
  PROVE  /\ Len(chain) \in Nat /\ MarkedUpTo \in 0 .. Len(chain) /\ DoneUpTo \in 0 .. Len(chain)
<1>1. Len(chain) \in Nat
  BY DEF TxTypes
<1>2. expected \in 0 .. Len(chain) /\ (phase = "appended" \/ lock # 0 => expected > 0)
  BY DEF ListenInv
<1> QED
  BY <1>1, <1>2 DEF MarkedUpTo, DoneUpTo

\* What a block makes no block up to it has spent.
LEMMA NewIsUnspent ==
  ASSUME ChainInv, NEW n \in DOMAIN chain, NEW c \in Outputs(chain[n])
  PROVE  c \in OnChain(Len(chain)) /\ c \notin Nullified(n)
<1>1. DOMAIN chain = 1 .. Len(chain) /\ Len(chain) \in Nat
  BY DEF ChainInv, TxTypes
<1>2. c \in OnChain(Len(chain))
  BY <1>1 DEF OnChain
<1>3. ASSUME c \in Nullified(n) PROVE FALSE
  <2>1. PICK m \in 1 .. n : c \in Spends(chain[m])
    BY <1>3 DEF Nullified
  <2>2. m \in DOMAIN chain /\ m \in Int /\ n \in Int
    BY <1>1, <2>1
  <2>3. c \in OnChain(m - 1)
    BY <2>1, <2>2 DEF ChainInv, SpendsAreOnChain
  <2>4. PICK k \in 1 .. m - 1 : c \in Outputs(chain[k])
    BY <2>3 DEF OnChain
  <2>5. k \in DOMAIN chain /\ k # n
    BY <1>1, <2>1, <2>2, <2>4
  <2> QED
    BY <2>4, <2>5 DEF ChainInv, OutputsAreUnique
<1> QED
  BY <1>2, <1>3

\* Steps that make nothing spendable and mark no block, whether or not a block
\* is counted.
LEMMA SpendableKept ==
  ASSUME SpendableIsUnspentOnChain, chain' = chain,
         \A c \in DOMAIN commitments' :
           commitments'[c].status = "Unspent" =>
             c \in DOMAIN commitments /\ commitments[c].status = "Unspent",
         \/ "unapplied" \in torn'
         \/ MarkedUpTo' = 0
         \/ "unapplied" \notin torn /\ MarkedUpTo' = MarkedUpTo
  PROVE  SpendableIsUnspentOnChain'
<1> SUFFICES ASSUME NEW c \in DOMAIN commitments', commitments'[c].status = "Unspent"
             PROVE  /\ c \in OnChain(Len(chain))'
                    /\ "unapplied" \notin torn' => c \notin Nullified(MarkedUpTo)'
  BY DEF SpendableIsUnspentOnChain
<1>1. c \in OnChain(Len(chain)) /\ ("unapplied" \notin torn => c \notin Nullified(MarkedUpTo))
  BY DEF SpendableIsUnspentOnChain
<1>2. c \in OnChain(Len(chain))'
  BY <1>1 DEF OnChain, Outputs
<1>3. CASE MarkedUpTo' = 0
  <2>1. 1 .. MarkedUpTo' = {}
    BY <1>3
  <2> QED
    BY <1>2, <2>1 DEF Nullified
<1>4. CASE "unapplied" \notin torn /\ MarkedUpTo' = MarkedUpTo
  BY <1>1, <1>2, <1>4 DEF Nullified, Spends
<1> QED
  BY <1>2, <1>3, <1>4

LEMMA InitSpend == Init => SpendInv
<1> SUFFICES ASSUME Init PROVE SpendInv
  OBVIOUS
<1>1. DOMAIN commitments = {}
  BY DEF Init
<1> QED
  BY <1>1 DEF SpendInv, EntriesShaped, SpendableIsUnspentOnChain

LEMMA MarkKeepsSpend ==
  ASSUME ListenInv, ChainInv, SpendInv, NEW l \in 1 .. MaxListeners, MarkCommitments(l)
  PROVE  SpendInv'
<1>1. /\ lock = l /\ phase = "appended" /\ phase' = "marked"
      /\ commitments' = Marked(Block(l)) /\ UNCHANGED <<chain, expected, torn>>
  BY DEF MarkCommitments, chainVars, historyVars
<1>2. expected \in 1 .. Len(chain) /\ Block(l) = chain[expected]
  BY <1>1, HolderBlock
<1>3. DOMAIN chain = 1 .. Len(chain) /\ Len(chain) \in Nat
  BY DEF ChainInv, TxTypes
<1>4. MarkedUpTo = expected - 1 /\ MarkedUpTo' = expected
  BY <1>1 DEF MarkedUpTo
<1> DEFINE b == chain[expected]
<1>5. /\ DOMAIN commitments' = DOMAIN commitments
      /\ \A c \in DOMAIN commitments :
           commitments'[c] = IF c \in Outputs(b) THEN [commitments[c] EXCEPT !.status = "Unspent"]
                             ELSE IF c \in Spends(b) THEN [commitments[c] EXCEPT !.status = "Spent"]
                             ELSE commitments[c]
  BY <1>1, <1>2 DEF Marked
<1> HIDE DEF b
<1>6. EntriesShaped'
  BY <1>5 DEF SpendInv, EntriesShaped, EntryFields
<1>7. ASSUME NEW c \in DOMAIN commitments, commitments'[c].status = "Unspent"
      PROVE  /\ c \in OnChain(Len(chain))
             /\ "unapplied" \notin torn => c \notin Nullified(expected)
  <2>1. CASE c \in Outputs(b)
    BY <1>2, <1>3, <2>1, NewIsUnspent DEF b
  <2>2. CASE c \notin Outputs(b)
    <3>1. c \notin Spends(b) /\ commitments[c].status = "Unspent"
      BY <1>5, <1>7, <2>2 DEF SpendInv, EntriesShaped, EntryFields
    <3>2. c \in OnChain(Len(chain)) /\ ("unapplied" \notin torn => c \notin Nullified(expected - 1))
      BY <1>4, <3>1 DEF SpendInv, SpendableIsUnspentOnChain
    <3>3. \A n \in 1 .. expected : n \in 1 .. expected - 1 \/ n = expected
      BY <1>2, <1>3
    <3> QED
      BY <3>1, <3>2, <3>3 DEF Nullified, b
  <2> QED
    BY <2>1, <2>2
<1>8. SpendableIsUnspentOnChain'
  BY <1>1, <1>4, <1>5, <1>7 DEF SpendableIsUnspentOnChain, OnChain, Nullified, Outputs, Spends
<1> QED
  BY <1>6, <1>8 DEF SpendInv

\* Storing what a block brings, or refusing it all.
LEMMA StoreEffect ==
  ASSUME ListenInv, ChainInv, NEW l \in 1 .. MaxListeners, StoreReceived(l)
  PROVE  /\ expected \in DOMAIN chain
         /\ UNCHANGED <<chain, pool, expected, torn, worker, crashes>>
         /\ lock # 0 /\ lock' = 0 /\ phase = "marked" /\ phase' = "none"
         /\ \/ /\ commitments' = commitments
               /\ Decrypted(chain[expected]) \cap DOMAIN commitments # {}
            \/ /\ DOMAIN commitments' = DOMAIN commitments \cup Decrypted(chain[expected])
               /\ \A c \in DOMAIN commitments : commitments'[c] = commitments[c]
               /\ \A c \in Decrypted(chain[expected]) \ DOMAIN commitments :
                    commitments'[c] = Entry(Sent[c[1]].token, Sent[c[1]].value, "Unspent")
<1>1. /\ lock = l /\ phase = "marked" /\ lock' = 0 /\ phase' = "none"
      /\ UNCHANGED <<chain, pool, expected, torn, worker, crashes>>
  BY DEF StoreReceived, Release, chainVars, queueVars, historyVars
<1>2. expected \in 1 .. Len(chain) /\ Block(l) = chain[expected] /\ lock # 0
  BY <1>1, HolderBlock
<1>3. DOMAIN chain = 1 .. Len(chain)
  BY DEF ChainInv, TxTypes
<1>4. CASE commitments' = StoreDecrypted(Block(l))
  BY <1>1, <1>2, <1>3, <1>4 DEF StoreDecrypted
<1>5. CASE commitments' = commitments /\ Duplicates(Block(l))
  BY <1>1, <1>2, <1>3, <1>5 DEF Duplicates
<1> QED
  BY <1>4, <1>5 DEF StoreReceived

\* What a block brings for this client is among its outputs and is from others.
LEMMA DecryptedAreOutputs ==
  ASSUME ChainInv, NEW n \in DOMAIN chain
  PROVE  Decrypted(chain[n]) \subseteq Outputs(chain[n]) \cap IncomingNames
BY DEF ChainInv, TxsAreSound, Sound, Decrypted, Outputs

LEMMA StoreKeepsSpend ==
  ASSUME ListenInv, ChainInv, SpendInv, NEW l \in 1 .. MaxListeners, StoreReceived(l)
  PROVE  SpendInv'
<1>1. /\ expected \in DOMAIN chain /\ UNCHANGED <<chain, expected, torn>>
      /\ MarkedUpTo = expected /\ MarkedUpTo' = expected
      /\ \/ commitments' = commitments
         \/ /\ DOMAIN commitments' = DOMAIN commitments \cup Decrypted(chain[expected])
            /\ \A c \in DOMAIN commitments : commitments'[c] = commitments[c]
            /\ \A c \in Decrypted(chain[expected]) \ DOMAIN commitments :
                 commitments'[c] = Entry(Sent[c[1]].token, Sent[c[1]].value, "Unspent")
  BY StoreEffect DEF MarkedUpTo
<1>2. EntriesShaped'
  BY <1>1 DEF SpendInv, EntriesShaped, EntryFields, Entry
<1>3. ASSUME NEW c \in DOMAIN commitments', commitments'[c].status = "Unspent"
      PROVE  /\ c \in OnChain(Len(chain))
             /\ "unapplied" \notin torn => c \notin Nullified(expected)
  <2>1. CASE c \in DOMAIN commitments
    BY <1>1, <1>3, <2>1 DEF SpendInv, SpendableIsUnspentOnChain
  <2>2. CASE c \notin DOMAIN commitments
    <3>1. c \in Outputs(chain[expected])
      BY <1>1, <2>2, DecryptedAreOutputs
    <3> QED
      BY <1>1, <3>1, NewIsUnspent
  <2> QED
    BY <2>1, <2>2
<1>4. SpendableIsUnspentOnChain'
  BY <1>1, <1>3 DEF SpendableIsUnspentOnChain, OnChain, Nullified, Outputs, Spends
<1> QED
  BY <1>2, <1>4 DEF SpendInv

-----------------------------------------------------------------------------
(* The worker's writes *)

\* Entries of request r that wait for the block that makes them.
PendingOf(r, entries) ==
  \A c \in DOMAIN entries : /\ c[1] = r
                            /\ \E token, value : entries[c] = Entry(token, value, "PendingCreation")

\* Change that a request of this client makes for itself.
ChangeOf(outputs) == {c \in outputs : c[2] \in {2, 4}}

LEMMA DepositsArePending ==
  ASSUME NEW r
  PROVE  PendingOf(r, DepositEntries(r)) /\ DOMAIN DepositEntries(r) \subseteq {<<r, 1>>, <<r, 2>>}
BY DEF PendingOf, DepositEntries

LEMMA ChangeIsPending ==
  ASSUME NEW r
  PROVE  /\ PendingOf(r, ChangeEntries(r))
         /\ ChangeOf(OutputsOnChain(r)) \subseteq DOMAIN ChangeEntries(r)
<1>1. DOMAIN ChangeEntries(r) = {<<r, i>> : i \in {j \in {2, 4} : OutputValue(r)[j] > 0}}
  BY DEF ChangeEntries
<1>2. PendingOf(r, ChangeEntries(r))
  BY DEF PendingOf, ChangeEntries
<1>3. ChangeOf(OutputsOnChain(r)) \subseteq DOMAIN ChangeEntries(r)
  BY <1>1 DEF ChangeOf, OutputsOnChain
<1> QED
  BY <1>2, <1>3

LEMMA InsertEffect ==
  ASSUME NEW entries, Insert(entries)
  PROVE  /\ DOMAIN commitments' = DOMAIN commitments \cup DOMAIN entries
         /\ \A c \in DOMAIN commitments : commitments'[c] = commitments[c]
         /\ \A c \in DOMAIN entries \ DOMAIN commitments : commitments'[c] = entries[c]
BY DEF Insert

LEMMA InsertKeepsSpend ==
  ASSUME SpendInv, NEW r, NEW entries, PendingOf(r, entries), Insert(entries),
         UNCHANGED <<chain, expected, phase, torn>>
  PROVE  SpendInv'
<1>1. /\ DOMAIN commitments' = DOMAIN commitments \cup DOMAIN entries
      /\ \A c \in DOMAIN commitments : commitments'[c] = commitments[c]
      /\ \A c \in DOMAIN entries \ DOMAIN commitments :
           \E token, value : commitments'[c] = Entry(token, value, "PendingCreation")
  <2>1. /\ DOMAIN commitments' = DOMAIN commitments \cup DOMAIN entries
        /\ \A c \in DOMAIN commitments : commitments'[c] = commitments[c]
        /\ \A c \in DOMAIN entries \ DOMAIN commitments : commitments'[c] = entries[c]
    BY InsertEffect
  <2>2. \A c \in DOMAIN entries :
          \E token, value : entries[c] = Entry(token, value, "PendingCreation")
    BY DEF PendingOf
  <2> QED
    BY <2>1, <2>2
<1>2. EntriesShaped'
  BY <1>1 DEF SpendInv, EntriesShaped, EntryFields, Entry
<1>3. MarkedUpTo' = MarkedUpTo
  BY DEF MarkedUpTo
<1>4. \A c \in DOMAIN commitments' : commitments'[c].status = "Unspent" =>
        c \in DOMAIN commitments /\ commitments[c].status = "Unspent"
  BY <1>1 DEF Entry
<1> QED
  BY <1>2, <1>3, <1>4, SpendableKept DEF SpendInv

LEMMA MarkedPendingEffect ==
  ASSUME SpendInv, NEW names, commitments' = MarkedPending(names)
  PROVE  /\ DOMAIN commitments' = DOMAIN commitments /\ EntriesShaped'
         /\ \A c \in DOMAIN commitments \cap names : commitments'[c].status = "PendingSpend"
         /\ \A c \in DOMAIN commitments \ names : commitments'[c] = commitments[c]
BY DEF SpendInv, EntriesShaped, EntryFields, MarkedPending, SetStatus

LEMMA PendingKeepsSpend ==
  ASSUME SpendInv, NEW names, commitments' = MarkedPending(names),
         UNCHANGED <<chain, expected, phase, torn>>
  PROVE  SpendInv'
<1>1. MarkedUpTo' = MarkedUpTo
  BY DEF MarkedUpTo
<1>2. \A c \in DOMAIN commitments' : commitments'[c].status = "Unspent" =>
        c \in DOMAIN commitments /\ commitments[c].status = "Unspent"
  BY MarkedPendingEffect
<1>3. EntriesShaped'
  BY MarkedPendingEffect
<1>4. SpendableIsUnspentOnChain
  BY DEF SpendInv
<1>5. SpendableIsUnspentOnChain'
  BY <1>1, <1>2, <1>4, SpendableKept
<1> QED
  BY <1>3, <1>5 DEF SpendInv

LEMMA ProposeKeepsSpend ==
  ASSUME ListenInv, ChainInv, SpendInv, NEW block \in SUBSET pool, ProposeBlock(block)
  PROVE  SpendInv'
<1>1. /\ chain' = Append(chain, block) /\ UNCHANGED <<commitments, expected, phase, torn>>
      /\ chain \in Seq(SUBSET Transaction)
  BY ProposeFrame DEF ProposeBlock, ChainInv, TxTypes
<1>2. MarkedUpTo' = MarkedUpTo /\ MarkedUpTo \in 0 .. Len(chain)
  BY <1>1, UpToType DEF MarkedUpTo, ChainInv
<1>3. OnChain(Len(chain)) \subseteq OnChain(Len(chain))'
  BY <1>1, ChainGrows
<1>4. PICK n \in 0 .. Len(chain) : n = MarkedUpTo
  BY <1>2
<1>5. Nullified(n)' = Nullified(n)
  BY <1>1, ChainGrows
<1>6. Nullified(MarkedUpTo)' = Nullified(MarkedUpTo)
  BY <1>2, <1>4, <1>5 DEF Nullified
<1> QED
  BY <1>1, <1>3, <1>6 DEF SpendInv, SpendableIsUnspentOnChain, EntriesShaped

LEMMA ListenerKeepsSpend ==
  ASSUME ListenInv, ChainInv, SpendInv, ListenerStep \/ ListenerFault
  PROVE  SpendInv'
<1>0. chain' = chain /\ SpendableIsUnspentOnChain /\ EntriesShaped
  BY ListenerFrame DEF SpendInv
<1>a. ASSUME commitments' = commitments,
             \/ "unapplied" \in torn'
             \/ "unapplied" \notin torn /\ MarkedUpTo' = MarkedUpTo
      PROVE  SpendInv'
  <2>1. SpendableIsUnspentOnChain'
    BY <1>0, <1>a, SpendableKept
  <2> QED
    BY <1>0, <1>a, <2>1 DEF SpendInv, EntriesShaped
<1>1. ASSUME NEW l \in 1 .. MaxListeners,
             \/ MissingBlocks(l) \/ SkipBlock(l) \/ StreamTerminated(l) \/ LoseLog(l)
      PROVE  SpendInv'
  <2>1. UNCHANGED <<commitments, expected, phase, torn>>
    BY <1>1 DEF MissingBlocks, SkipBlock, StreamTerminated, LoseLog, dbVars, historyVars
  <2> QED
    BY <1>a, <2>1 DEF MarkedUpTo
<1>2. ASSUME NEW l \in 1 .. MaxListeners, ApplyBlock(l) PROVE SpendInv'
  <2>1. /\ UNCHANGED <<commitments, torn>> /\ expected' = expected + 1 /\ phase' = "appended"
        /\ lock = 0
    BY <1>2 DEF ApplyBlock, HasEvent, historyVars
  <2>2. phase = "none" /\ expected \in Int
    BY <2>1 DEF ListenInv
  <2>3. MarkedUpTo' = MarkedUpTo
    BY <2>1, <2>2 DEF MarkedUpTo
  <2> QED
    BY <1>a, <2>1, <2>3
<1>3. ASSUME NEW l \in 1 .. MaxListeners, ApplyFails(l) PROVE SpendInv'
  BY <1>3, <1>a DEF ApplyFails, dbVars
<1>4. CASE RestartChecks \/ RestartFails \/ RestartResets
  <2>1. UNCHANGED <<commitments, expected, phase>> /\ ("unapplied" \in torn' <=> "unapplied" \in torn)
    BY <1>4 DEF RestartChecks, RestartFails, RestartResets, dbVars, historyVars
  <2> QED
    BY <1>a, <2>1 DEF MarkedUpTo
<1> QED
  BY <1>1, <1>2, <1>3, <1>4, MarkKeepsSpend, StoreKeepsSpend DEF ListenerStep, ListenerFault

\* The worker's other steps write no commitment.
LEMMA WorkerWrites ==
  ASSUME QueueInv, WorkerStep \/ StatusUnreadable
  PROVE  \/ UNCHANGED commitments /\ ~RecordDeposit /\ \A ok \in BOOLEAN : ~Prove(ok)
         \/ MarkValue \/ MarkFee \/ RecordDeposit
         \/ \E ok \in BOOLEAN : Prove(ok)
BY DEF WorkerStep, CheckStatus, Sleep, TakeRequest, Escrow, EscrowFails, EscrowPanics,
       SelectValue, SelectFee, StatusUnreadable, process_transaction_offchain, Report, Finish,
       dbVars

LEMMA WorkerKeepsSpend ==
  ASSUME QueueInv, SpendInv, WorkerStep \/ StatusUnreadable
  PROVE  SpendInv'
<1>0. UNCHANGED <<chain, expected, phase, torn>>
  BY WorkerFrame
<1>1. CASE UNCHANGED commitments
  <2>1. MarkedUpTo' = MarkedUpTo
    BY <1>0 DEF MarkedUpTo
  <2> QED
    BY <1>0, <1>1, <2>1 DEF SpendInv, EntriesShaped, SpendableIsUnspentOnChain, OnChain, Nullified,
                            Outputs, Spends
<1>2. CASE MarkValue \/ MarkFee
  BY <1>0, <1>2, PendingKeepsSpend DEF MarkValue, MarkFee
<1>3. CASE RecordDeposit
  <2>1. Insert(DepositEntries(worker.r)) /\ PendingOf(worker.r, DepositEntries(worker.r))
    BY <1>3, DepositsArePending DEF RecordDeposit
  <2> QED
    BY <1>0, <2>1, InsertKeepsSpend
<1>4. ASSUME NEW ok \in BOOLEAN, Prove(ok) PROVE SpendInv'
  <2>1. Insert(ChangeEntries(worker.r)) /\ PendingOf(worker.r, ChangeEntries(worker.r))
    BY <1>4, ChangeIsPending DEF Prove, StoredChange
  <2> QED
    BY <1>0, <2>1, InsertKeepsSpend
<1> QED
  BY <1>1, <1>2, <1>3, <1>4, WorkerWrites

LEMMA NextSpend ==
  ASSUME QueueInv, ListenInv, ChainInv, SpendInv, [Next]_vars
  PROVE  SpendInv'
<1>a. ASSUME UNCHANGED <<chain, commitments, expected, phase, torn>> PROVE SpendInv'
  BY <1>a DEF SpendInv, EntriesShaped, SpendableIsUnspentOnChain, MarkedUpTo, OnChain, Nullified,
              Outputs, Spends
<1>1. CASE Crash
  <2>1. /\ UNCHANGED <<chain, commitments>> /\ expected' = 0 /\ phase' = "none"
    BY <1>1 DEF Crash, Boot, chainVars
  <2>2. MarkedUpTo' = 0
    BY <2>1 DEF MarkedUpTo
  <2>3. SpendableIsUnspentOnChain'
    BY <2>1, <2>2, SpendableKept DEF SpendInv
  <2> QED
    BY <2>1, <2>3 DEF SpendInv, EntriesShaped
<1>2. CASE Rest
  BY <1>2, <1>a, RestFrame
<1>3. CASE UNCHANGED vars
  BY <1>3, <1>a DEF vars, chainVars, dbVars, listenVars, historyVars
<1> QED
  BY <1>1, <1>2, <1>3, ProposeKeepsSpend, ListenerKeepsSpend, WorkerKeepsSpend
  DEF Next, Environment

-----------------------------------------------------------------------------
(* What the client is credited with *)

\* What is not of a request of this client was brought by a block.
HeldNames ==
  \A c \in DOMAIN commitments : c[1] \in Requests \/ c \in OnChain(Len(chain))

\* What a block brings is stored all at once.
AllOrNone ==
  \A n \in DOMAIN chain :
    Decrypted(chain[n]) \cap DOMAIN commitments # {} =>
      Decrypted(chain[n]) \subseteq DOMAIN commitments

ChangeIsStored ==
  /\ \A t \in pool : t.id \in Requests => ChangeOf(t.outputs) \subseteq DOMAIN commitments
  /\ \A n \in DOMAIN chain : \A t \in chain[n] :
       t.id \in Requests => ChangeOf(t.outputs) \subseteq DOMAIN commitments
  /\ worker.at = "send" => ChangeOf(OutputsOnChain(worker.r)) \subseteq DOMAIN commitments

\* The part of ProcessedBlocksAreCredited that speaks of the blocks applied.
AppliedAreCredited ==
  "unapplied" \notin torn =>
    /\ \A c \in DOMAIN commitments \cap OnChain(MarkedUpTo) :
         commitments[c].status = "PendingCreation" => Req[c[1]].kind = "deposit"
    /\ \A n \in 1 .. DoneUpTo : Decrypted(chain[n]) \subseteq DOMAIN commitments

CreditInv == HeldNames /\ AllOrNone /\ ChangeIsStored /\ AppliedAreCredited

LEMMA InitCredit == Init => CreditInv
<1> SUFFICES ASSUME Init PROVE CreditInv
  OBVIOUS
<1>1. /\ DOMAIN commitments = {} /\ DOMAIN chain = {} /\ worker.at = "top"
      /\ pool = {IncomingTx(i) : i \in Incoming} /\ expected = 0 /\ lock = 0
  BY DEF Init, Idle
<1>2. \A t \in pool : t.id \notin Requests
  BY <1>1, RequestAssumption DEF IncomingTx, Tx
<1>3. 1 .. DoneUpTo = {}
  BY <1>1 DEF DoneUpTo
<1> QED
  BY <1>1, <1>2, <1>3 DEF CreditInv, HeldNames, AllOrNone, ChangeIsStored, AppliedAreCredited

\* Steps that mark no block and store nothing of one.
LEMMA CreditKept ==
  ASSUME CreditInv, ChainInv, chain' = chain, DOMAIN commitments \subseteq DOMAIN commitments',
         \A c \in DOMAIN commitments' \ DOMAIN commitments : c[1] \in Requests,
         \A t \in pool' \ pool : t.id \in Requests =>
           ChangeOf(t.outputs) \subseteq DOMAIN commitments',
         worker'.at = "send" => ChangeOf(OutputsOnChain(worker.r)') \subseteq DOMAIN commitments',
         \A c \in DOMAIN commitments' : commitments'[c].status = "PendingCreation" =>
           \/ c \in DOMAIN commitments /\ commitments[c].status = "PendingCreation"
           \/ Req[c[1]].kind = "deposit"
           \/ \A n \in Int : n <= Len(chain) => c \notin OnChain(n),
         \/ "unapplied" \in torn'
         \/ MarkedUpTo' = 0 /\ DoneUpTo' = 0
         \/ "unapplied" \notin torn /\ MarkedUpTo' = MarkedUpTo /\ DoneUpTo' = DoneUpTo,
         MarkedUpTo' \in Int, MarkedUpTo' <= Len(chain)
  PROVE  CreditInv'
<1>a. OnChain(Len(chain))' = OnChain(Len(chain)) /\ OnChain(MarkedUpTo)' = OnChain(MarkedUpTo')
  BY DEF OnChain, Outputs
<1>1. HeldNames'
  BY <1>a DEF CreditInv, HeldNames
<1>2. AllOrNone'
  <2>1. ASSUME NEW n \in DOMAIN chain, NEW c \in Decrypted(chain[n]), c \in DOMAIN commitments'
        PROVE  Decrypted(chain[n]) \subseteq DOMAIN commitments'
    <3>1. c \in IncomingNames
      BY <2>1, DecryptedAreOutputs
    <3>2. c[1] \notin Requests
      BY <3>1, RequestAssumption DEF IncomingNames
    <3>3. c \in DOMAIN commitments
      BY <2>1, <3>2
    <3> QED
      BY <2>1, <3>3 DEF CreditInv, AllOrNone
  <2> QED
    BY <2>1 DEF AllOrNone, Decrypted
<1>3. ChangeIsStored'
  <2>1. ChangeOf(OutputsOnChain(worker.r))' = ChangeOf(OutputsOnChain(worker.r)')
    BY DEF ChangeOf
  <2>2. \A s : ChangeOf(s)' = ChangeOf(s)
    BY DEF ChangeOf
  <2>3. \A t \in pool' : t.id \in Requests => ChangeOf(t.outputs) \subseteq DOMAIN commitments'
    BY DEF CreditInv, ChangeIsStored
  <2>4. \A n \in DOMAIN chain : \A t \in chain[n] :
          t.id \in Requests => ChangeOf(t.outputs) \subseteq DOMAIN commitments'
    BY DEF CreditInv, ChangeIsStored
  <2> QED
    BY <2>1, <2>2, <2>3, <2>4 DEF ChangeIsStored
<1>4. AppliedAreCredited'
  <2> SUFFICES ASSUME "unapplied" \notin torn'
               PROVE  /\ \A c \in DOMAIN commitments' \cap OnChain(MarkedUpTo)' :
                           commitments'[c].status = "PendingCreation" => Req[c[1]].kind = "deposit"
                      /\ \A n \in 1 .. DoneUpTo' : Decrypted(chain[n])' \subseteq DOMAIN commitments'
    BY DEF AppliedAreCredited
  <2>1. CASE MarkedUpTo' = 0 /\ DoneUpTo' = 0
    <3>1. OnChain(MarkedUpTo)' = {} /\ 1 .. DoneUpTo' = {}
      BY <2>1 DEF OnChain
    <3> QED
      BY <3>1
  <2>2. CASE "unapplied" \notin torn /\ MarkedUpTo' = MarkedUpTo /\ DoneUpTo' = DoneUpTo
    <3>1. OnChain(MarkedUpTo)' = OnChain(MarkedUpTo)
      BY <1>a, <2>2
    <3>2. /\ \A c \in DOMAIN commitments \cap OnChain(MarkedUpTo) :
               commitments[c].status = "PendingCreation" => Req[c[1]].kind = "deposit"
          /\ \A n \in 1 .. DoneUpTo : Decrypted(chain[n]) \subseteq DOMAIN commitments
      BY <2>2 DEF CreditInv, AppliedAreCredited
    <3>3. \A c \in DOMAIN commitments' \cap OnChain(MarkedUpTo)' :
            commitments'[c].status = "PendingCreation" => Req[c[1]].kind = "deposit"
      BY <2>2, <3>1, <3>2
    <3>4. \A n \in 1 .. DoneUpTo' : Decrypted(chain[n])' \subseteq DOMAIN commitments'
      BY <2>2, <3>2 DEF Decrypted
    <3> QED
      BY <3>3, <3>4
  <2> QED
    BY <2>1, <2>2
<1> QED
  BY <1>1, <1>2, <1>3, <1>4 DEF CreditInv

LEMMA MarkKeepsCredit ==
  ASSUME ListenInv, ChainInv, SpendInv, CreditInv, NEW l \in 1 .. MaxListeners,
         MarkCommitments(l)
  PROVE  CreditInv'
<1>1. /\ lock = l /\ phase = "appended" /\ phase' = "marked"
      /\ commitments' = Marked(Block(l))
      /\ UNCHANGED <<chain, pool, expected, torn, lock, worker>>
  BY DEF MarkCommitments, chainVars, historyVars, queueVars
<1>2. expected \in 1 .. Len(chain) /\ Block(l) = chain[expected]
  BY <1>1, HolderBlock
<1>3. MarkedUpTo = expected - 1 /\ MarkedUpTo' = expected /\ DoneUpTo' = DoneUpTo
  BY <1>1 DEF MarkedUpTo, DoneUpTo
<1>4. /\ DOMAIN commitments' = DOMAIN commitments
      /\ \A c \in DOMAIN commitments : commitments'[c].status = "PendingCreation" =>
           c \notin Outputs(chain[expected]) /\ commitments[c].status = "PendingCreation"
  BY <1>1, <1>2 DEF Marked, SpendInv, EntriesShaped, EntryFields
<1>5. HeldNames' /\ AllOrNone'
  BY <1>1, <1>4 DEF CreditInv, HeldNames, AllOrNone, OnChain, Outputs, Decrypted
<1>6. ChangeIsStored'
  BY <1>1, <1>4 DEF CreditInv, ChangeIsStored, ChangeOf, OutputsOnChain, OutputValue
<1>7. ASSUME "unapplied" \notin torn, NEW c \in DOMAIN commitments, c \in OnChain(expected),
             commitments'[c].status = "PendingCreation"
      PROVE  Req[c[1]].kind = "deposit"
  <2>1. c \notin Outputs(chain[expected]) /\ commitments[c].status = "PendingCreation"
    BY <1>4, <1>7
  <2>2. PICK n \in 1 .. expected : c \in Outputs(chain[n])
    BY <1>7 DEF OnChain
  <2>3. n \in 1 .. expected - 1
    BY <1>2, <2>1, <2>2
  <2>4. c \in OnChain(MarkedUpTo)
    BY <1>3, <2>2, <2>3 DEF OnChain
  <2> QED
    BY <1>7, <2>1, <2>4 DEF CreditInv, AppliedAreCredited
<1>8. OnChain(MarkedUpTo)' = OnChain(expected)
  BY <1>1, <1>3 DEF OnChain, Outputs
<1>9. AppliedAreCredited'
  <2>1. "unapplied" \notin torn =>
          \A n \in 1 .. DoneUpTo : Decrypted(chain[n]) \subseteq DOMAIN commitments
    BY DEF CreditInv, AppliedAreCredited
  <2>2. "unapplied" \notin torn' =>
          \A n \in 1 .. DoneUpTo' : Decrypted(chain[n])' \subseteq DOMAIN commitments'
    BY <1>1, <1>3, <1>4, <2>1 DEF Decrypted
  <2>3. "unapplied" \notin torn' =>
          \A c \in DOMAIN commitments' \cap OnChain(MarkedUpTo)' :
            commitments'[c].status = "PendingCreation" => Req[c[1]].kind = "deposit"
    BY <1>1, <1>4, <1>7, <1>8
  <2> QED
    BY <2>2, <2>3 DEF AppliedAreCredited
<1> QED
  BY <1>5, <1>6, <1>9 DEF CreditInv

LEMMA StoreKeepsCredit ==
  ASSUME ListenInv, ChainInv, CreditInv, NEW l \in 1 .. MaxListeners, StoreReceived(l)
  PROVE  CreditInv'
<1> DEFINE brought == Decrypted(chain[expected])
<1>1. /\ expected \in DOMAIN chain /\ UNCHANGED <<chain, pool, expected, torn, worker>>
      /\ lock # 0 /\ lock' = 0 /\ phase = "marked" /\ phase' = "none"
      /\ \/ commitments' = commitments /\ brought \cap DOMAIN commitments # {}
         \/ /\ DOMAIN commitments' = DOMAIN commitments \cup brought
            /\ \A c \in DOMAIN commitments : commitments'[c] = commitments[c]
            /\ \A c \in brought \ DOMAIN commitments :
                 commitments'[c] = Entry(Sent[c[1]].token, Sent[c[1]].value, "Unspent")
  BY StoreEffect
<1>2. /\ DOMAIN chain = 1 .. Len(chain) /\ expected \in Int
  BY DEF ChainInv, TxTypes, ListenInv
<1>3. brought \subseteq Outputs(chain[expected])
  BY <1>1, DecryptedAreOutputs
<1>4. /\ DOMAIN commitments' = DOMAIN commitments \cup brought
      /\ \A c \in DOMAIN commitments' : commitments'[c].status = "PendingCreation" =>
           c \in DOMAIN commitments /\ commitments[c].status = "PendingCreation"
  <2>1. CASE commitments' = commitments /\ brought \cap DOMAIN commitments # {}
    <3>1. brought \subseteq DOMAIN commitments
      BY <1>1, <2>1 DEF CreditInv, AllOrNone
    <3> QED
      BY <2>1, <3>1
  <2>2. CASE ~(commitments' = commitments /\ brought \cap DOMAIN commitments # {})
    <3>1. /\ DOMAIN commitments' = DOMAIN commitments \cup brought
          /\ \A c \in DOMAIN commitments : commitments'[c] = commitments[c]
          /\ \A c \in brought \ DOMAIN commitments :
               commitments'[c] = Entry(Sent[c[1]].token, Sent[c[1]].value, "Unspent")
      BY <1>1, <2>2
    <3> HIDE DEF brought
    <3>2. \A c \in brought \ DOMAIN commitments : commitments'[c].status = "Unspent"
      BY <3>1 DEF Entry
    <3> QED
      BY <3>1, <3>2
  <2> QED
    BY <2>1, <2>2
<1>5. MarkedUpTo' = MarkedUpTo /\ DoneUpTo = expected - 1 /\ DoneUpTo' = expected
  BY <1>1 DEF MarkedUpTo, DoneUpTo
<1>6. HeldNames'
  <2>1. brought \subseteq OnChain(Len(chain))
    BY <1>1, <1>2, <1>3 DEF OnChain
  <2> QED
    BY <1>1, <1>4, <2>1 DEF CreditInv, HeldNames, OnChain, Outputs
<1>7. AllOrNone'
  <2>1. ASSUME NEW n \in DOMAIN chain, NEW c \in Decrypted(chain[n]), c \in DOMAIN commitments'
        PROVE  Decrypted(chain[n]) \subseteq DOMAIN commitments'
    <3>1. CASE n = expected
      BY <1>4, <3>1
    <3>2. CASE n # expected
      <4>1. c \in Outputs(chain[n])
        BY <2>1, DecryptedAreOutputs
      <4>2. c \notin brought
        BY <1>1, <1>3, <3>2, <4>1 DEF ChainInv, OutputsAreUnique
      <4> QED
        BY <1>4, <2>1, <4>2 DEF CreditInv, AllOrNone
    <3> QED
      BY <3>1, <3>2
  <2> QED
    BY <1>1, <2>1 DEF AllOrNone, Decrypted
<1>8. ChangeIsStored'
  <2>1. ChangeOf(OutputsOnChain(worker.r))' = ChangeOf(OutputsOnChain(worker.r))
    BY <1>1 DEF ChangeOf, OutputsOnChain, OutputValue
  <2>2. \A s : ChangeOf(s)' = ChangeOf(s)
    BY DEF ChangeOf
  <2> QED
    BY <1>1, <1>4, <2>1, <2>2 DEF CreditInv, ChangeIsStored
<1>9. AppliedAreCredited'
  <2>1. OnChain(MarkedUpTo)' = OnChain(MarkedUpTo)
    BY <1>1, <1>5 DEF OnChain, Outputs
  <2>2. "unapplied" \notin torn' =>
          \A c \in DOMAIN commitments' \cap OnChain(MarkedUpTo)' :
            commitments'[c].status = "PendingCreation" => Req[c[1]].kind = "deposit"
    BY <1>1, <1>4, <2>1 DEF CreditInv, AppliedAreCredited
  <2>3. ASSUME "unapplied" \notin torn', NEW n \in 1 .. expected
        PROVE  Decrypted(chain[n]) \subseteq DOMAIN commitments'
    <3>1. n \in 1 .. DoneUpTo \/ n = expected
      BY <1>2, <1>5
    <3>2. n \in 1 .. DoneUpTo => Decrypted(chain[n]) \subseteq DOMAIN commitments
      BY <1>1, <2>3 DEF CreditInv, AppliedAreCredited
    <3> QED
      BY <1>4, <3>1, <3>2
  <2> QED
    BY <1>1, <1>5, <2>2, <2>3 DEF AppliedAreCredited, Decrypted
<1> QED
  BY <1>6, <1>7, <1>8, <1>9 DEF CreditInv

LEMMA ProposeKeepsCredit ==
  ASSUME ListenInv, ChainInv, CreditInv, NEW block \in SUBSET pool, ProposeBlock(block)
  PROVE  CreditInv'
<1>1. /\ chain' = Append(chain, block) /\ pool' = pool \ block
      /\ UNCHANGED <<commitments, expected, phase, lock, torn, worker>>
      /\ chain \in Seq(SUBSET Transaction)
  BY ProposeFrame DEF ProposeBlock, ChainInv, TxTypes
<1>2. /\ Len(chain) \in Nat /\ Len(chain') = Len(chain) + 1
      /\ DOMAIN chain = 1 .. Len(chain) /\ DOMAIN chain' = 1 .. Len(chain) + 1
      /\ \A n \in 1 .. Len(chain) : chain'[n] = chain[n]
      /\ chain'[Len(chain) + 1] = block
      /\ \A n \in 0 .. Len(chain) : OnChain(n)' = OnChain(n)
      /\ OnChain(Len(chain)) \subseteq OnChain(Len(chain))'
  BY <1>1, ChainGrows
<1>3. /\ MarkedUpTo' = MarkedUpTo /\ DoneUpTo' = DoneUpTo
      /\ MarkedUpTo \in 0 .. Len(chain) /\ DoneUpTo \in 0 .. Len(chain)
  BY <1>1, UpToType DEF MarkedUpTo, DoneUpTo, ChainInv
<1>4. HeldNames'
  BY <1>1, <1>2 DEF CreditInv, HeldNames
<1>5. ASSUME NEW c \in Decrypted(block) PROVE c \notin DOMAIN commitments
  <2>1. PICK t \in pool : c \in t.ours
    BY <1>5 DEF Decrypted
  <2>2. c \in t.outputs /\ c \in IncomingNames
    BY <2>1 DEF ChainInv, TxsAreSound, Sound
  <2>3. c[1] \notin Requests
    BY <2>2, RequestAssumption DEF IncomingNames
  <2>4. c \notin OnChain(Len(chain))
    <3>1. c \in Outputs(pool)
      BY <2>2 DEF Outputs
    <3> QED
      BY <1>2, <3>1 DEF OnChain, ChainInv, OutputsAreUnique
  <2> QED
    BY <2>3, <2>4 DEF CreditInv, HeldNames
<1>6. \A n \in DOMAIN chain' : n \in DOMAIN chain \/ n = Len(chain) + 1
  BY <1>2
<1>7. AllOrNone'
  <2>1. \A n \in DOMAIN chain' :
          Decrypted(chain'[n]) \cap DOMAIN commitments # {} =>
            Decrypted(chain'[n]) \subseteq DOMAIN commitments
    BY <1>2, <1>5, <1>6 DEF CreditInv, AllOrNone
  <2> QED
    BY <1>1, <2>1 DEF AllOrNone, Decrypted
<1>8. ChangeIsStored'
  <2>1. ChangeOf(OutputsOnChain(worker.r))' = ChangeOf(OutputsOnChain(worker.r))
    BY <1>1 DEF ChangeOf, OutputsOnChain, OutputValue
  <2>2. \A s : ChangeOf(s)' = ChangeOf(s)
    BY DEF ChangeOf
  <2>3. \A n \in DOMAIN chain' : \A t \in chain'[n] :
          t.id \in Requests => ChangeOf(t.outputs) \subseteq DOMAIN commitments
    BY <1>2, <1>6 DEF CreditInv, ChangeIsStored
  <2> QED
    BY <1>1, <2>1, <2>2, <2>3 DEF CreditInv, ChangeIsStored
<1>9. AppliedAreCredited'
  <2>1. PICK m \in 0 .. Len(chain) : m = MarkedUpTo
    BY <1>3
  <2>2. OnChain(m)' = OnChain(m)
    BY <1>2
  <2>3. OnChain(MarkedUpTo)' = OnChain(MarkedUpTo)
    BY <1>3, <2>1, <2>2 DEF OnChain
  <2>4. \A n \in 1 .. DoneUpTo : n \in 1 .. Len(chain)
    BY <1>2, <1>3
  <2>5. \A n \in 1 .. DoneUpTo' : Decrypted(chain[n])' = Decrypted(chain[n])
    BY <1>2, <1>3, <2>4 DEF Decrypted
  <2> QED
    BY <1>1, <1>3, <2>3, <2>5 DEF CreditInv, AppliedAreCredited
<1> QED
  BY <1>4, <1>7, <1>8, <1>9 DEF CreditInv

LEMMA ListenerKeepsCredit ==
  ASSUME ListenInv, ChainInv, SpendInv, CreditInv, ListenerStep \/ ListenerFault
  PROVE  CreditInv'
<1>0. UNCHANGED <<chain, pool, worker>>
  BY ListenerFrame
<1>1. ChangeOf(OutputsOnChain(worker.r)') = ChangeOf(OutputsOnChain(worker.r))
  BY <1>0 DEF ChangeOf, OutputsOnChain, OutputValue
<1>2. worker'.at = "send" => ChangeOf(OutputsOnChain(worker.r)') \subseteq DOMAIN commitments
  BY <1>0, <1>1 DEF CreditInv, ChangeIsStored
<1>3. MarkedUpTo \in Int /\ MarkedUpTo <= Len(chain) /\ Len(chain) \in Nat
  BY UpToType DEF ChainInv
<1>a. ASSUME commitments' = commitments, MarkedUpTo' \in Int, MarkedUpTo' <= Len(chain),
             \/ "unapplied" \in torn'
             \/ "unapplied" \notin torn /\ MarkedUpTo' = MarkedUpTo /\ DoneUpTo' = DoneUpTo
      PROVE  CreditInv'
  BY <1>0, <1>2, <1>a, CreditKept
<1>4. ASSUME NEW l \in 1 .. MaxListeners,
             \/ MissingBlocks(l) \/ SkipBlock(l) \/ StreamTerminated(l) \/ LoseLog(l)
      PROVE  CreditInv'
  <2>1. UNCHANGED <<commitments, expected, phase, lock, torn>>
    BY <1>4 DEF MissingBlocks, SkipBlock, StreamTerminated, LoseLog, dbVars, historyVars
  <2> QED
    BY <1>3, <1>a, <2>1 DEF MarkedUpTo, DoneUpTo
<1>5. ASSUME NEW l \in 1 .. MaxListeners, ApplyBlock(l) PROVE CreditInv'
  <2>1. /\ UNCHANGED <<commitments, torn>> /\ expected' = expected + 1 /\ phase' = "appended"
        /\ lock = 0 /\ lock' # 0
    BY <1>5, ClientBounds DEF ApplyBlock, HasEvent, historyVars
  <2>2. phase = "none" /\ expected \in Int
    BY <2>1 DEF ListenInv
  <2>3. MarkedUpTo' = MarkedUpTo /\ DoneUpTo' = DoneUpTo
    BY <2>1, <2>2 DEF MarkedUpTo, DoneUpTo
  <2> QED
    BY <1>3, <1>a, <2>1, <2>3
<1>6. ASSUME NEW l \in 1 .. MaxListeners, ApplyFails(l) PROVE CreditInv'
  <2>1. /\ UNCHANGED <<commitments, phase>> /\ expected' = expected + 1 /\ "unapplied" \in torn'
        /\ lock = 0 /\ expected = Position(l) /\ Position(l) < Len(chain)
    BY <1>6 DEF ApplyFails, HasEvent, dbVars
  <2>2. phase = "none" /\ expected \in Int
    BY <2>1 DEF ListenInv
  <2>3. MarkedUpTo' \in Int /\ MarkedUpTo' <= Len(chain)
    BY <1>3, <2>1, <2>2 DEF MarkedUpTo
  <2> QED
    BY <1>a, <2>1, <2>3
<1>7. CASE RestartChecks \/ RestartFails \/ RestartResets
  <2>1. /\ UNCHANGED <<commitments, expected, phase, lock>>
        /\ ("unapplied" \in torn' <=> "unapplied" \in torn)
    BY <1>7 DEF RestartChecks, RestartFails, RestartResets, dbVars, historyVars
  <2> QED
    BY <1>3, <1>a, <2>1 DEF MarkedUpTo, DoneUpTo
<1> QED
  BY <1>4, <1>5, <1>6, <1>7, MarkKeepsCredit, StoreKeepsCredit DEF ListenerStep, ListenerFault

LEMMA WorkerKeepsCredit ==
  ASSUME QueueInv, ListenInv, ChainInv, SpendInv, CreditInv, WorkerStep \/ StatusUnreadable
  PROVE  CreditInv'
<1>0. UNCHANGED <<chain, expected, phase, lock, torn>>
  BY WorkerFrame
<1>1. /\ MarkedUpTo' = MarkedUpTo /\ DoneUpTo' = DoneUpTo
      /\ MarkedUpTo' \in Int /\ MarkedUpTo' <= Len(chain)
  BY <1>0, UpToType DEF MarkedUpTo, DoneUpTo, ChainInv
<1>a. ASSUME DOMAIN commitments' = DOMAIN commitments,
             \A c \in DOMAIN commitments : commitments'[c].status = "PendingCreation" =>
               commitments[c].status = "PendingCreation",
             \A t \in pool' \ pool : t.id \in Requests =>
               ChangeOf(t.outputs) \subseteq DOMAIN commitments,
             worker'.at # "send"
      PROVE  CreditInv'
  BY <1>0, <1>1, <1>a, CreditKept
<1>2. CASE MarkValue \/ MarkFee
  <2>1. \E names : commitments' = MarkedPending(names)
    BY <1>2 DEF MarkValue, MarkFee
  <2>2. pool' = pool /\ worker'.at # "send"
    BY <1>2, OtherWorkerSteps
  <2>3. /\ DOMAIN commitments' = DOMAIN commitments
        /\ \A c \in DOMAIN commitments :
             commitments'[c].status = "PendingSpend" \/ commitments'[c] = commitments[c]
    BY <2>1, MarkedPendingEffect
  <2> QED
    BY <1>a, <2>2, <2>3
<1>3. CASE RecordDeposit
  <2>1. Insert(DepositEntries(worker.r)) /\ At("record")
    BY <1>3 DEF RecordDeposit
  <2>2. pool' = pool /\ worker'.at # "send"
    BY <1>3, OtherWorkerSteps
  <2>3. PendingOf(worker.r, DepositEntries(worker.r))
    BY DepositsArePending
  <2>4. worker.r \in Requests /\ Req[worker.r].kind = "deposit"
    BY <2>1 DEF At, QueueInv, Handling
  <2>5. /\ DOMAIN commitments' = DOMAIN commitments \cup DOMAIN DepositEntries(worker.r)
        /\ \A c \in DOMAIN commitments : commitments'[c] = commitments[c]
    BY <2>1, InsertEffect
  <2>6. \A c \in DOMAIN commitments' \ DOMAIN commitments : c[1] = worker.r
    BY <2>3, <2>5 DEF PendingOf
  <2> QED
    BY <1>0, <1>1, <2>2, <2>4, <2>5, <2>6, CreditKept
<1>4. ASSUME NEW ok \in BOOLEAN, Prove(ok) PROVE CreditInv'
  <2>1. Insert(ChangeEntries(worker.r)) /\ At("prove") /\ pool' = pool
    BY <1>4 DEF Prove, StoredChange, chainVars
  <2>2. /\ PendingOf(worker.r, ChangeEntries(worker.r))
        /\ ChangeOf(OutputsOnChain(worker.r)) \subseteq DOMAIN ChangeEntries(worker.r)
    BY ChangeIsPending
  <2>3. worker.r \in Requests /\ worker.r \in Unsent
    BY <2>1, InHandIsUnsent DEF At, Unsending
  <2>4. /\ DOMAIN commitments' = DOMAIN commitments \cup DOMAIN ChangeEntries(worker.r)
        /\ \A c \in DOMAIN commitments : commitments'[c] = commitments[c]
    BY <2>1, InsertEffect
  <2>5. \A c \in DOMAIN commitments' \ DOMAIN commitments : c[1] = worker.r
    BY <2>2, <2>4 DEF PendingOf
  <2>6. ASSUME NEW c, c[1] = worker.r, NEW n \in Int, n <= Len(chain) PROVE c \notin OnChain(n)
    <3>1. DOMAIN chain = 1 .. Len(chain) /\ Len(chain) \in Nat
      BY DEF ChainInv, TxTypes
    <3>2. 1 .. n \subseteq DOMAIN chain
      BY <2>6, <3>1
    <3> QED
      BY <2>3, <2>6, <3>2 DEF OnChain, Outputs, ChainInv, TxsAreSound, Sound
  <2>7. OutputsOnChain(worker.r)' = OutputsOnChain(worker.r)
    BY <1>4, ProveEffect DEF OutputsOnChain, OutputValue
  <2>8. ChangeOf(OutputsOnChain(worker.r)') \subseteq DOMAIN commitments'
    BY <2>2, <2>4, <2>7
  <2> QED
    BY <1>0, <1>1, <2>1, <2>3, <2>4, <2>5, <2>6, <2>8, CreditKept
<1>5. CASE Escrow \/ \E mined \in BOOLEAN : EscrowFails(mined)
  <2>1. commitments' = commitments /\ At("escrow") /\ pool' \subseteq pool \cup DepositTxs(worker.r)
    BY <1>5 DEF Escrow, EscrowFails, dbVars
  <2>2. worker'.at # "send"
    <3>1. GoTo("record") \/ worker' = [worker EXCEPT !.at = "finish", !.result = "Failed"]
      BY <1>5 DEF Escrow, EscrowFails, Fail
    <3>2. CASE GoTo("record")
      BY <3>2, GoToEffect
    <3>3. CASE worker' = [worker EXCEPT !.at = "finish", !.result = "Failed"]
      BY <3>3, EndEffect
    <3> QED
      BY <3>1, <3>2, <3>3
  <2>3. worker.r \in Requests
    BY <2>1, InHandIsUnsent DEF At, Unsending
  <2>4. \A t \in DepositTxs(worker.r) : t.id \notin Requests
    BY <2>3, DepositTxsShape
  <2> QED
    BY <1>a, <2>1, <2>2, <2>4
<1>6. ASSUME NEW delivered \in BOOLEAN, NEW result \in Results,
             process_transaction_offchain(delivered, result)
      PROVE  CreditInv'
  <2> DEFINE t == Tx(worker.r, OutputsOnChain(worker.r), Spent, {})
  <2>1. commitments' = commitments /\ At("send") /\ pool' \subseteq pool \cup {t}
    BY <1>6 DEF process_transaction_offchain, dbVars
  <2>2. worker'.at # "send"
    BY <1>6, EndEffect DEF process_transaction_offchain
  <2>3. ChangeOf(t.outputs) \subseteq DOMAIN commitments
    BY <2>1 DEF Tx, At, CreditInv, ChangeIsStored
  <2> HIDE DEF t
  <2> QED
    BY <1>a, <2>1, <2>2, <2>3
<1>7. CASE \/ StatusUnreadable \/ CheckStatus \/ Sleep \/ TakeRequest \/ EscrowPanics
           \/ SelectValue \/ SelectFee \/ Report \/ Finish
  <2>1. pool' = pool /\ worker'.at # "send"
    BY <1>7, OtherWorkerSteps
  <2>2. commitments' = commitments
    BY <1>7 DEF StatusUnreadable, CheckStatus, Sleep, TakeRequest, EscrowPanics, SelectValue,
                SelectFee, Report, Finish, dbVars
  <2> QED
    BY <1>a, <2>1, <2>2
<1> QED
  BY <1>2, <1>3, <1>4, <1>5, <1>6, <1>7 DEF WorkerStep

LEMMA NextCredit ==
  ASSUME QueueInv, ListenInv, ChainInv, SpendInv, CreditInv, [Next]_vars
  PROVE  CreditInv'
<1>0. Len(chain) \in Nat /\ MarkedUpTo \in Int /\ MarkedUpTo <= Len(chain)
  BY UpToType DEF ChainInv
<1>1. CASE Crash
  <2>1. /\ UNCHANGED <<chain, pool, commitments>> /\ expected' = 0 /\ phase' = "none" /\ lock' = 0
        /\ worker'.at = "top"
    BY <1>1 DEF Crash, Boot, Idle, chainVars
  <2>2. MarkedUpTo' = 0 /\ DoneUpTo' = 0
    BY <2>1 DEF MarkedUpTo, DoneUpTo
  <2> QED
    BY <1>0, <2>1, <2>2, CreditKept
<1>2. CASE Rest \/ UNCHANGED vars
  <2>1. UNCHANGED <<chain, pool, commitments, expected, phase, lock, torn, worker>>
    BY <1>2, RestFrame DEF vars, chainVars, dbVars, listenVars, queueVars, historyVars
  <2>2. MarkedUpTo' = MarkedUpTo /\ DoneUpTo' = DoneUpTo
    BY <2>1 DEF MarkedUpTo, DoneUpTo
  <2>3. ChangeOf(OutputsOnChain(worker.r)') = ChangeOf(OutputsOnChain(worker.r))
    BY <2>1 DEF ChangeOf, OutputsOnChain, OutputValue
  <2>4. worker'.at = "send" => ChangeOf(OutputsOnChain(worker.r)') \subseteq DOMAIN commitments
    BY <2>1, <2>3 DEF CreditInv, ChangeIsStored
  <2> QED
    BY <1>0, <2>1, <2>2, <2>4, CreditKept
<1> QED
  BY <1>1, <1>2, ProposeKeepsCredit, ListenerKeepsCredit, WorkerKeepsCredit
  DEF Next, Environment

LedgerInv == QueueInv /\ TreeInv /\ ListenInv /\ ChainInv /\ SpendInv /\ CreditInv

LEMMA LedgerCorrect == Spec => []LedgerInv
<1>1. Init => LedgerInv
  BY InitQueue, StartsEmpty, InitListen, InitChain, InitSpend, InitCredit DEF LedgerInv
<1>2. LedgerInv /\ [Next]_vars => LedgerInv'
  <2> SUFFICES ASSUME LedgerInv, [Next]_vars PROVE LedgerInv'
    OBVIOUS
  <2>1. QueueInv /\ TreeInv /\ ListenInv /\ ChainInv /\ SpendInv /\ CreditInv
    BY DEF LedgerInv
  <2>2. chain \in Seq(SUBSET Transaction)
    BY <2>1 DEF ChainInv, TxTypes
  <2>3. QueueInv' /\ TreeInv'
    BY <2>1, NextQueue, StepKeepsTree
  <2>4. ListenInv'
    BY <2>1, <2>2, NextListen
  <2>5. ChainInv' /\ SpendInv' /\ CreditInv'
    BY <2>1, NextChain, NextSpend, NextCredit
  <2> QED
    BY <2>3, <2>4, <2>5 DEF LedgerInv
<1> QED
  BY <1>1, <1>2, PTL DEF Spec

\* What the client offers as spendable is on chain and spent in no block it
\* has applied: for any requests, listeners, incoming transfers and crashes.
THEOREM SpendableCorrect == Spec => []SpendableIsUnspentOnChain
<1>1. LedgerInv => SpendableIsUnspentOnChain
  BY DEF LedgerInv, SpendInv
<1> QED
  BY <1>1, LedgerCorrect, PTL

\* Every block that was applied has been credited, in whole, and the change of
\* every transaction of this client on chain is in the store.
THEOREM CreditCorrect == Spec => []ProcessedBlocksAreCredited
<1>1. LedgerInv => ProcessedBlocksAreCredited
  <2> SUFFICES ASSUME LedgerInv PROVE ProcessedBlocksAreCredited
    OBVIOUS
  <2>1. AppliedAreCredited /\ ChangeIsStored
    BY DEF LedgerInv, CreditInv
  <2>2. DOMAIN chain = 1 .. Len(chain)
    BY DEF LedgerInv, ChainInv, TxTypes
  <2>3. \A n \in 1 .. Len(chain), t \in UNION {chain[k] : k \in 1 .. Len(chain)} :
          t \in chain[n] /\ t.id \in Requests =>
            {c \in t.outputs : c[2] \in {2, 4}} \subseteq DOMAIN commitments
    BY <2>1, <2>2 DEF ChangeIsStored, ChangeOf
  <2> QED
    BY <2>1, <2>3 DEF ProcessedBlocksAreCredited, AppliedAreCredited
<1> QED
  BY <1>1, LedgerCorrect, PTL

-----------------------------------------------------------------------------
(* The commitments stored and those selected have their types.  Change is   *)
(* worth something: what is selected has a value, being part of what is     *)
(* stored.                                                                  *)

Stored == [token : {"token", "fee"}, value : Nat \ {0}, status : Statuses]
Offered == [key : Name, value : Nat \ {0}]

EntryInv ==
  /\ DOMAIN commitments \subseteq Name
  /\ \A c \in DOMAIN commitments : commitments[c] \in Stored
  /\ worker.spend \in Seq(Offered) /\ worker.fees \in Seq(Offered)
  /\ worker.at = "selectFee" => Req[worker.r].fee # 0

LEMMA NamesAreFinite == IsFiniteSet(Name)
<1>1. IsFiniteSet(Requests) /\ IsFiniteSet(Incoming)
  BY RequestAssumption
<1>2. IsFiniteSet(Requests \cup Incoming)
  BY <1>1, FS_Union
<1>3. IsFiniteSet(1 .. 4)
  <2> DEFINE a == 1
             b == 4
  <2>1. a \in Int /\ b \in Int
    OBVIOUS
  <2> HIDE DEF a, b
  <2>2. IsFiniteSet(a .. b)
    BY <2>1, FS_Interval
  <2> QED
    BY <2>2 DEF a, b
<1> QED
  BY <1>2, <1>3, FS_Product DEF Name

\* What is on offer is finite, and of the stored commitments.
LEMMA OfferType ==
  ASSUME EntryInv, NEW token
  PROVE  LET S == get_available_commitments(token)
         IN /\ IsFiniteSet(S) /\ S \subseteq Offered
            /\ \A e \in S : /\ e.value \in Nat
                            /\ e.key \in DOMAIN commitments
                            /\ commitments[e.key].status = "Unspent"
<1> DEFINE C == {d \in DOMAIN commitments :
                   commitments[d].token = token /\ commitments[d].status = "Unspent"}
           S == get_available_commitments(token)
           f == [c \in C |-> [key |-> c, value |-> commitments[c].value]]
<1>1. C \subseteq Name
  BY DEF EntryInv
<1>2. IsFiniteSet(C)
  BY <1>1, NamesAreFinite, FS_Subset
<1>3. S = {f[c] : c \in C}
  BY DEF get_available_commitments
<1>4. \A c \in C : /\ f[c] = [key |-> c, value |-> commitments[c].value]
                   /\ commitments[c] \in Stored /\ c \in Name
  BY <1>1 DEF EntryInv
<1>5. IsFiniteSet(S)
  <2>1. f \in Surjection(C, S)
    BY <1>3 DEF Surjection
  <2> HIDE DEF C, S, f
  <2> QED
    BY <1>2, <2>1, FS_Surjection
<1>6. S \subseteq Offered /\ \A e \in S : /\ e.value \in Nat
                                          /\ e.key \in C
  <2>1. \A c \in C : f[c] \in Offered /\ f[c].value \in Nat /\ f[c].key = c
    BY <1>4 DEF Offered, Stored
  <2> HIDE DEF C, S, f
  <2> QED
    BY <1>3, <2>1
<1> QED
  BY <1>5, <1>6

\* What is selected is on offer.
LEMMA SelectionType ==
  ASSUME QueueInv, EntryInv, NEW token, NEW amount \in Nat \ {0},
         NEW field \in {"spend", "fees"}, NEW next, next # "finish",
         SelectFrom(token, amount, field, next), worker'.at = next
  PROVE  /\ worker'[field] \in Seq(Offered)
         /\ Keys(worker'[field]) # {}
         /\ \A c \in Keys(worker'[field]) :
              c \in DOMAIN commitments /\ commitments[c].status = "Unspent"
<1> DEFINE S == get_available_commitments(token)
           chosen == worker'[field]
<1>1. chosen # <<>> /\ \E list \in Orders(S) : chosen = UsableFrom(list, amount)
  BY SelectEffect
<1>2. PICK list \in Orders(S) : chosen = UsableFrom(list, amount)
  BY <1>1
<1>3. /\ IsFiniteSet(S) /\ S \subseteq Offered
      /\ \A e \in S : /\ e.value \in Nat
                      /\ e.key \in DOMAIN commitments
                      /\ commitments[e.key].status = "Unspent"
  BY OfferType
<1> HIDE DEF S
<1>4. chosen \in Seq(S)
  BY <1>1, <1>2, <1>3, ChosenCovers
<1> HIDE DEF chosen
<1>5. \A i \in DOMAIN chosen : chosen[i] \in S
  BY <1>4
<1>6. 1 \in DOMAIN chosen
  BY <1>1, <1>4
<1>7. chosen \in Seq(Offered)
  BY <1>3, <1>4
<1> QED
  BY <1>3, <1>5, <1>6, <1>7 DEF Keys, chosen

\* What is stored: a deposit's outputs, the change, what others send.
LEMMA DepositEntriesType ==
  ASSUME NEW r \in Requests
  PROVE  \A c \in DOMAIN DepositEntries(r) : c \in Name /\ DepositEntries(r)[c] \in Stored
<1>1. Req[r].value \in Nat \ {0} /\ Req[r].deposit_fee \in Nat
  BY RequestAssumption
<1>2. <<r, 1>> \in Name /\ <<r, 2>> \in Name
  BY DEF Name
<1> SUFFICES ASSUME NEW c \in DOMAIN DepositEntries(r)
             PROVE  c \in Name /\ DepositEntries(r)[c] \in Stored
  OBVIOUS
<1>3. c = <<r, 1>> \/ (c = <<r, 2>> /\ Req[r].deposit_fee > 0)
  BY DEF DepositEntries
<1>4. DepositEntries(r)[c] = IF c = <<r, 1>> THEN Entry("token", Req[r].value, "PendingCreation")
                             ELSE Entry("fee", Req[r].deposit_fee, "PendingCreation")
  BY DEF DepositEntries
<1>5. DepositEntries(r)[c] \in Stored
  BY <1>1, <1>3, <1>4 DEF Entry, Stored, Statuses
<1> QED
  BY <1>2, <1>3, <1>5

LEMMA SumOfOffered ==
  ASSUME NEW list \in Seq(Offered)
  PROVE  SumOf(list) \in Nat
<1>1. \A e \in Offered : e.value \in Nat
  BY DEF Offered
<1> QED
  BY <1>1, SumAtLeast

LEMMA ChangeEntriesType ==
  ASSUME EntryInv, NEW r \in Requests
  PROVE  \A c \in DOMAIN ChangeEntries(r) : c \in Name /\ ChangeEntries(r)[c] \in Stored
<1>1. Req[r].value \in Nat \ {0} /\ Req[r].fee \in Nat
  BY RequestAssumption
<1>2. SumOf(worker.spend) \in Nat /\ SumOf(worker.fees) \in Nat
  BY SumOfOffered DEF EntryInv
<1>3. /\ OutputValue(r)[2] = SumOf(worker.spend) - Req[r].value
      /\ OutputValue(r)[4] = SumOf(worker.fees) - Req[r].fee
  BY DEF OutputValue
<1>4. \A i \in {2, 4} : OutputValue(r)[i] > 0 => OutputValue(r)[i] \in Nat \ {0}
  <2>1. SumOf(worker.spend) - Req[r].value \in Int /\ SumOf(worker.fees) - Req[r].fee \in Int
    BY <1>1, <1>2
  <2> QED
    BY <1>3, <2>1
<1> SUFFICES ASSUME NEW i \in {2, 4}, OutputValue(r)[i] > 0
             PROVE  /\ <<r, i>> \in Name
                    /\ Entry(OutputToken[<<r, i>>[2]], OutputValue(r)[<<r, i>>[2]],
                             "PendingCreation") \in Stored
  BY DEF ChangeEntries
<1>5. OutputToken[i] \in {"token", "fee"}
  BY DEF OutputToken
<1>6. <<r, i>> \in Name /\ <<r, i>>[2] = i
  BY DEF Name
<1> QED
  BY <1>4, <1>5, <1>6 DEF Entry, Stored, Statuses

LEMMA ReportEffect ==
  ASSUME QueueInv, NEW delivered, NEW result, process_transaction_offchain(delivered, result)
  PROVE  /\ worker'.spend = worker.spend /\ worker'.fees = worker.fees /\ worker'.r = worker.r
         /\ worker'.at = "report" /\ worker'.result = result
<1>1. worker' = [worker EXCEPT !.at = "report", !.result = result]
  BY DEF process_transaction_offchain
<1> QED
  BY <1>1 DEF QueueInv, WorkerFields

\* Steps that end the handling of a request.
LEMMA EndSteps ==
  ASSUME QueueInv,
         \/ RecordDeposit
         \/ \E mined \in BOOLEAN : EscrowFails(mined)
         \/ \E delivered \in BOOLEAN, result \in Results :
              process_transaction_offchain(delivered, result)
  PROVE  /\ worker'.spend = worker.spend /\ worker'.fees = worker.fees /\ worker'.r = worker.r
         /\ worker'.at \in {"finish", "report"}
<1>1. CASE RecordDeposit
  <2>1. worker' = [worker EXCEPT !.at = "finish", !.result = "Submitted"]
    BY <1>1 DEF RecordDeposit
  <2> QED
    BY <2>1 DEF QueueInv, WorkerFields
<1>2. ASSUME NEW mined \in BOOLEAN, EscrowFails(mined)
      PROVE  /\ worker'.spend = worker.spend /\ worker'.fees = worker.fees
             /\ worker'.r = worker.r /\ worker'.at \in {"finish", "report"}
  <2>1. worker' = [worker EXCEPT !.at = "finish", !.result = "Failed"]
    BY <1>2 DEF EscrowFails, Fail
  <2> QED
    BY <2>1 DEF QueueInv, WorkerFields
<1>3. ASSUME NEW delivered \in BOOLEAN, NEW end \in Results,
             process_transaction_offchain(delivered, end)
      PROVE  /\ worker'.spend = worker.spend /\ worker'.fees = worker.fees
             /\ worker'.r = worker.r /\ worker'.at \in {"finish", "report"}
  BY <1>3, ReportEffect
<1> QED
  BY <1>1, <1>2, <1>3

\* The worker's lists change only when something is selected or it starts anew.
LEMMA WorkerKeepsLists ==
  ASSUME QueueInv, EntryInv, WorkerStep \/ StatusUnreadable
  PROVE  worker'.spend \in Seq(Offered) /\ worker'.fees \in Seq(Offered)
<1>a. ASSUME worker'.spend = worker.spend, worker'.fees = worker.fees
      PROVE  worker'.spend \in Seq(Offered) /\ worker'.fees \in Seq(Offered)
  BY <1>a DEF EntryInv
<1>b. <<>> \in Seq(Offered)
  OBVIOUS
<1>1. ASSUME NEW place, GoTo(place) PROVE worker'.spend = worker.spend /\ worker'.fees = worker.fees
  BY <1>1, GoToEffect
<1>2. CASE CheckStatus \/ Sleep \/ Escrow \/ EscrowPanics \/ MarkValue \/ MarkFee \/ Report
           \/ StatusUnreadable
  BY <1>a, <1>1, <1>2 DEF CheckStatus, Sleep, Escrow, EscrowPanics, MarkValue, MarkFee, Report,
                          StatusUnreadable
<1>3. CASE TakeRequest
  BY <1>b, <1>3, TakeEffect
<1>4. CASE Finish
  BY <1>b, <1>4 DEF Finish, Idle
<1>5. CASE \/ RecordDeposit
           \/ \E mined \in BOOLEAN : EscrowFails(mined)
           \/ \E delivered \in BOOLEAN, result \in Results :
                process_transaction_offchain(delivered, result)
  BY <1>a, <1>5, EndSteps
<1>7. CASE \E ok \in BOOLEAN : Prove(ok)
  BY <1>a, <1>7, ProveEffect
<1>8. CASE SelectValue
  <2>0. Req[worker.r].value \in Nat \ {0}
    BY <1>8, RequestAssumption DEF SelectValue, At, QueueInv, Handling, Unsending
  <2>1. SelectFrom("token", Req[worker.r].value, "spend", "mark")
    BY <1>8 DEF SelectValue
  <2>2. CASE worker'.at = "mark"
    <3>1. worker'.spend \in Seq(Offered)
      BY <2>0, <2>1, <2>2, SelectionType
    <3>2. worker'.fees = worker.fees
      BY <2>1, <2>2, SelectEffect
    <3> QED
      BY <3>1, <3>2 DEF EntryInv
  <2>3. CASE worker'.at # "mark"
    BY <1>a, <2>1, <2>3, SelectEffect
  <2> QED
    BY <2>2, <2>3
<1>9. CASE SelectFee
  <2>1. SelectFrom("fee", Req[worker.r].fee, "fees", "markFee")
    BY <1>9 DEF SelectFee
  <2>2. CASE worker'.at = "markFee"
    <3>0. Req[worker.r].fee \in Nat \ {0}
      BY <1>9, RequestAssumption DEF SelectFee, At, QueueInv, Handling, Unsending, EntryInv
    <3>1. worker'.fees \in Seq(Offered)
      BY <3>0, <2>1, <2>2, SelectionType
    <3>2. worker'.spend = worker.spend
      BY <2>1, <2>2, SelectEffect
    <3> QED
      BY <3>1, <3>2 DEF EntryInv
  <2>3. CASE worker'.at # "markFee"
    BY <1>a, <2>1, <2>3, SelectEffect
  <2> QED
    BY <2>2, <2>3
<1> QED
  BY <1>2, <1>3, <1>4, <1>5, <1>7, <1>8, <1>9 DEF WorkerStep

LEMMA WorkerKeepsFee ==
  ASSUME QueueInv, EntryInv, WorkerStep \/ StatusUnreadable, worker'.at = "selectFee"
  PROVE  Req[worker'.r].fee # 0
<1>1. MarkValue
  <2>1. ASSUME NEW place, place # "selectFee", GoTo(place) PROVE FALSE
    BY <2>1, GoToEffect
  <2>2. ~ (CheckStatus \/ Sleep \/ Escrow \/ EscrowPanics \/ MarkFee \/ Report \/ StatusUnreadable)
    BY <2>1 DEF CheckStatus, Sleep, Escrow, EscrowPanics, MarkFee, Report, StatusUnreadable
  <2>3. ~ TakeRequest /\ ~ Finish
    BY TakeEffect, FinishEffect
  <2>4. ~ \/ RecordDeposit
          \/ \E mined \in BOOLEAN : EscrowFails(mined)
          \/ \E delivered \in BOOLEAN, result \in Results :
               process_transaction_offchain(delivered, result)
    BY EndSteps
  <2>5. ~ \E ok \in BOOLEAN : Prove(ok)
    BY ProveEffect
  <2>6. ~ SelectValue
    <3> SUFFICES ASSUME SelectValue PROVE FALSE
      OBVIOUS
    <3>1. SelectFrom("token", Req[worker.r].value, "spend", "mark")
      BY DEF SelectValue
    <3> QED
      BY <3>1, SelectEffect
  <2>7. ~ SelectFee
    <3> SUFFICES ASSUME SelectFee PROVE FALSE
      OBVIOUS
    <3>1. SelectFrom("fee", Req[worker.r].fee, "fees", "markFee")
      BY DEF SelectFee
    <3> QED
      BY <3>1, SelectEffect
  <2> QED
    BY <2>2, <2>3, <2>4, <2>5, <2>6, <2>7 DEF WorkerStep
<1>2. GoTo(IF Req[worker.r].fee = 0 THEN "prove" ELSE "selectFee")
  BY <1>1 DEF MarkValue
<1> QED
  BY <1>2, GoToEffect

LEMMA NewStatus ==
  ASSUME NEW e \in Stored, NEW status \in Statuses
  PROVE  [e EXCEPT !.status = status] \in Stored
BY DEF Stored

LEMMA EntriesStored ==
  ASSUME EntryInv, NEW entries, Insert(entries),
         \A c \in DOMAIN entries : c \in Name /\ entries[c] \in Stored
  PROVE  DOMAIN commitments' \subseteq Name /\ \A c \in DOMAIN commitments' : commitments'[c] \in Stored
BY InsertEffect DEF EntryInv

LEMMA ListenerKeepsEntries ==
  ASSUME ListenInv, ChainInv, EntryInv, ListenerStep \/ ListenerFault
  PROVE  EntryInv'
<1>0. worker' = worker
  BY ListenerFrame
<1> SUFFICES DOMAIN commitments' \subseteq Name /\ \A c \in DOMAIN commitments' : commitments'[c] \in Stored
  BY <1>0 DEF EntryInv
<1>1. CASE UNCHANGED commitments
  BY <1>1 DEF EntryInv
<1>2. ASSUME NEW l \in 1 .. MaxListeners, MarkCommitments(l)
      PROVE  DOMAIN commitments' \subseteq Name /\ \A c \in DOMAIN commitments' : commitments'[c] \in Stored
  <2>1. commitments' = Marked(Block(l))
    BY <1>2 DEF MarkCommitments
  <2>2. \A c \in DOMAIN commitments : commitments[c] \in Stored
    BY DEF EntryInv
  <2>3. DOMAIN commitments' = DOMAIN commitments
    BY <2>1 DEF Marked
  <2>4. \A c \in DOMAIN commitments :
          \/ commitments'[c] = [commitments[c] EXCEPT !.status = "Unspent"]
          \/ commitments'[c] = [commitments[c] EXCEPT !.status = "Spent"]
          \/ commitments'[c] = commitments[c]
    BY <2>1 DEF Marked
  <2>5. "Unspent" \in Statuses /\ "Spent" \in Statuses
    BY DEF Statuses
  <2> QED
    BY <2>2, <2>3, <2>4, <2>5, NewStatus DEF EntryInv
<1>3. ASSUME NEW l \in 1 .. MaxListeners, StoreReceived(l)
      PROVE  DOMAIN commitments' \subseteq Name /\ \A c \in DOMAIN commitments' : commitments'[c] \in Stored
  <2>1. CASE commitments' = commitments
    BY <1>1, <2>1
  <2>2. CASE commitments' # commitments
    <3>1. /\ expected \in DOMAIN chain
          /\ DOMAIN commitments' = DOMAIN commitments \cup Decrypted(chain[expected])
          /\ \A c \in DOMAIN commitments : commitments'[c] = commitments[c]
          /\ \A c \in Decrypted(chain[expected]) \ DOMAIN commitments :
               commitments'[c] = Entry(Sent[c[1]].token, Sent[c[1]].value, "Unspent")
      BY <1>3, <2>2, StoreEffect
    <3>2. \A t \in chain[expected] : t.ours \subseteq IncomingNames
      BY <3>1 DEF ChainInv, TxsAreSound, Sound
    <3>3. Decrypted(chain[expected]) \subseteq IncomingNames
      BY <3>2 DEF Decrypted
    <3>4. \A c \in IncomingNames :
            c \in Name /\ Entry(Sent[c[1]].token, Sent[c[1]].value, "Unspent") \in Stored
      <4> TAKE c \in IncomingNames
      <4>1. c[1] \in Incoming /\ c \in Name
        BY DEF IncomingNames, Name
      <4>2. Sent[c[1]].token \in {"token", "fee"} /\ Sent[c[1]].value \in Nat \ {0}
        BY <4>1, RequestAssumption
      <4> QED
        BY <4>1, <4>2 DEF Entry, Stored, Statuses
    <3> QED
      BY <3>1, <3>3, <3>4 DEF EntryInv
  <2> QED
    BY <2>1, <2>2
<1>4. ASSUME NEW l \in 1 .. MaxListeners,
             \/ MissingBlocks(l) \/ SkipBlock(l) \/ ApplyBlock(l) \/ StreamTerminated(l)
             \/ LoseLog(l) \/ ApplyFails(l)
      PROVE  UNCHANGED commitments
  BY <1>4 DEF MissingBlocks, SkipBlock, ApplyBlock, StreamTerminated, LoseLog, ApplyFails, dbVars
<1>5. CASE RestartChecks \/ RestartFails \/ RestartResets
  BY <1>1, <1>5 DEF RestartChecks, RestartFails, RestartResets, dbVars
<1> QED
  BY <1>1, <1>2, <1>3, <1>4, <1>5 DEF ListenerStep, ListenerFault

LEMMA NextEntries ==
  ASSUME QueueInv, ListenInv, ChainInv, SpendInv, EntryInv, [Next]_vars
  PROVE  EntryInv'
<1>a. ASSUME UNCHANGED <<commitments, worker>> PROVE EntryInv'
  BY <1>a DEF EntryInv
<1>1. CASE WorkerStep \/ StatusUnreadable
  <2>1. /\ worker'.spend \in Seq(Offered) /\ worker'.fees \in Seq(Offered)
        /\ worker'.at = "selectFee" => Req[worker'.r].fee # 0
    BY <1>1, WorkerKeepsLists, WorkerKeepsFee
  <2> SUFFICES DOMAIN commitments' \subseteq Name
               /\ \A c \in DOMAIN commitments' : commitments'[c] \in Stored
    BY <2>1 DEF EntryInv
  <2>2. CASE UNCHANGED commitments
    BY <2>2 DEF EntryInv
  <2>3. CASE MarkValue \/ MarkFee
    <3>1. PICK names : commitments' = MarkedPending(names)
      BY <2>3 DEF MarkValue, MarkFee
    <3>2. /\ DOMAIN commitments' = DOMAIN commitments
          /\ \A c \in DOMAIN commitments :
               \/ commitments'[c] = [commitments[c] EXCEPT !.status = "PendingSpend"]
               \/ commitments'[c] = commitments[c]
      BY <3>1 DEF MarkedPending, SetStatus
    <3>3. "PendingSpend" \in Statuses
      BY DEF Statuses
    <3> QED
      BY <3>2, <3>3, NewStatus DEF EntryInv
  <2>4. CASE RecordDeposit
    <3>1. worker.r \in Requests /\ Insert(DepositEntries(worker.r))
      BY <2>4 DEF RecordDeposit, At, QueueInv, Handling
    <3> QED
      BY <3>1, DepositEntriesType, EntriesStored
  <2>5. ASSUME NEW ok \in BOOLEAN, Prove(ok)
        PROVE  DOMAIN commitments' \subseteq Name
               /\ \A c \in DOMAIN commitments' : commitments'[c] \in Stored
    <3>1. worker.r \in Requests /\ Insert(ChangeEntries(worker.r))
      BY <2>5 DEF Prove, StoredChange, At, QueueInv, Handling, Unsending
    <3> QED
      BY <3>1, ChangeEntriesType, EntriesStored
  <2> QED
    BY <1>1, <2>2, <2>3, <2>4, <2>5, WorkerWrites
<1>2. CASE Crash
  BY <1>2 DEF Crash, Boot, Idle, EntryInv
<1>3. CASE Rest
  BY <1>3, <1>a, RestFrame
<1>4. CASE \E block \in SUBSET pool : ProposeBlock(block)
  BY <1>4, <1>a, ProposeFrame
<1>5. CASE UNCHANGED vars
  BY <1>5, <1>a DEF vars, dbVars, queueVars
<1> QED
  BY <1>1, <1>2, <1>3, <1>4, <1>5, ListenerKeepsEntries DEF Next, Environment

-----------------------------------------------------------------------------
(* What is selected.  A commitment is Unspent only until it is marked for   *)
(* the one transaction that spends it, and nothing makes it Unspent again:  *)
(* only the block that holds it does, and that block is marked once as long *)
(* as the client does not crash.                                            *)

Known(c) == c \in DOMAIN commitments /\ commitments[c].status # "PendingCreation"
Taken(c) == c \in DOMAIN commitments /\ commitments[c].status \in {"PendingSpend", "Spent"}

SentTxs == pool \cup UNION {chain[n] : n \in DOMAIN chain}
Selecting == {"mark", "selectFee", "markFee", "prove", "send"}

KnownAreOnChain == \A c \in DOMAIN commitments : Known(c) => c \in OnChain(MarkedUpTo)
SentAreTaken == \A t \in SentTxs : \A c \in t.spends : Taken(c)
SentAreDisjoint == \A t, u \in SentTxs : t # u => t.spends \cap u.spends = {}

SelectedAreFree ==
  /\ worker.at \in {"select", "mark", "selectFee"} => worker.fees = <<>>
  /\ worker.at = "mark" => \A c \in Keys(worker.spend) : Known(c)
  /\ worker.at \in {"selectFee", "markFee", "prove", "send"} =>
       \A c \in Keys(worker.spend) : Taken(c)
  /\ worker.at = "markFee" => \A c \in Keys(worker.fees) : Known(c)
  /\ worker.at \in {"prove", "send"} => \A c \in Keys(worker.fees) : Taken(c)
  /\ worker.at \in Selecting => \A t \in SentTxs : t.spends \cap Spent = {}

SelectInv ==
  /\ crashes \in Nat
  /\ crashes = 0 => KnownAreOnChain /\ SentAreTaken /\ SelectedAreFree /\ SentAreDisjoint

LEMMA InitSelect == Init => SelectInv
<1> SUFFICES ASSUME Init PROVE SelectInv
  OBVIOUS
<1>1. /\ crashes = 0 /\ worker.at = "top" /\ worker.spend = <<>> /\ worker.fees = <<>>
      /\ DOMAIN commitments = {}
  BY DEF Init, Idle
<1>2. SentTxs = {IncomingTx(i) : i \in Incoming}
  <2>1. DOMAIN chain = {}
    BY DEF Init
  <2> QED
    BY <2>1 DEF SentTxs, Init
<1>3. \A t \in SentTxs : t.spends = {}
  BY <1>2 DEF IncomingTx, Tx
<1> QED
  BY <1>1, <1>3 DEF SelectInv, KnownAreOnChain, SentAreTaken, SelectedAreFree, SentAreDisjoint,
                    Selecting

\* A step of the listeners takes nothing back.
LEMMA ListenerSelect ==
  ASSUME SelectInv, UNCHANGED <<chain, pool, worker, crashes>>,
         crashes = 0 => /\ KnownAreOnChain'
                        /\ \A c : /\ Known(c) => Known(c)'
                                  /\ Taken(c) => Taken(c)'
  PROVE  SelectInv'
<1>1. SentTxs' = SentTxs /\ Spent' = Spent
  BY DEF SentTxs, Spent
<1> SUFFICES ASSUME crashes = 0
             PROVE  SentAreTaken' /\ SelectedAreFree' /\ SentAreDisjoint'
  BY DEF SelectInv
<1>2. SentAreTaken'
  BY <1>1 DEF SelectInv, SentAreTaken
<1>3. SelectedAreFree'
  BY <1>1 DEF SelectInv, SelectedAreFree, Selecting
<1>4. SentAreDisjoint'
  BY <1>1 DEF SelectInv, SentAreDisjoint
<1> QED
  BY <1>2, <1>3, <1>4

\* OnChain of what is marked only grows.
LEMMA MarkedGrows ==
  ASSUME ListenInv, ChainInv, chain' = chain, MarkedUpTo' \in Int, MarkedUpTo <= MarkedUpTo'
  PROVE  OnChain(MarkedUpTo) \subseteq OnChain(MarkedUpTo)'
<1>1. MarkedUpTo \in Int
  BY UpToType DEF ChainInv
<1>2. PICK m \in Int : m = MarkedUpTo'
  OBVIOUS
<1>3. OnChain(MarkedUpTo) \subseteq OnChain(m)
  BY <1>1, <1>2, OnChainGrows
<1>4. OnChain(MarkedUpTo)' = OnChain(m)
  BY <1>2 DEF OnChain
<1> QED
  BY <1>3, <1>4

LEMMA MarkSelect ==
  ASSUME ListenInv, ChainInv, SpendInv, SelectInv, NEW l \in 1 .. MaxListeners, MarkCommitments(l)
  PROVE  SelectInv'
<1>1. /\ lock = l /\ phase = "appended" /\ phase' = "marked"
      /\ commitments' = Marked(Block(l)) /\ UNCHANGED <<chain, pool, worker, crashes, expected>>
  BY DEF MarkCommitments, chainVars, historyVars, queueVars
<1>2. expected \in 1 .. Len(chain) /\ Block(l) = chain[expected]
  BY <1>1, HolderBlock
<1>3. DOMAIN chain = 1 .. Len(chain) /\ Len(chain) \in Nat
  BY DEF ChainInv, TxTypes
<1>4. MarkedUpTo = expected - 1 /\ MarkedUpTo' = expected
  BY <1>1 DEF MarkedUpTo
<1> DEFINE b == chain[expected]
<1>5. /\ DOMAIN commitments' = DOMAIN commitments
      /\ \A c \in DOMAIN commitments :
           commitments'[c] = IF c \in Outputs(b) THEN [commitments[c] EXCEPT !.status = "Unspent"]
                             ELSE IF c \in Spends(b) THEN [commitments[c] EXCEPT !.status = "Spent"]
                             ELSE commitments[c]
  BY <1>1, <1>2 DEF Marked
<1>6. /\ Outputs(b) \subseteq OnChain(expected) /\ Spends(b) \subseteq OnChain(expected - 1)
      /\ OnChain(expected - 1) \cap Outputs(b) = {}
      /\ OnChain(expected - 1) \subseteq OnChain(expected)
  <2>1. Spends(b) \subseteq OnChain(expected - 1)
    BY <1>2, <1>3 DEF ChainInv, SpendsAreOnChain
  <2>2. Outputs(b) \subseteq OnChain(expected)
    BY <1>2 DEF OnChain
  <2>3. \A i \in 1 .. expected - 1 : i \in DOMAIN chain /\ i # expected
    BY <1>2, <1>3
  <2>4. \A i \in 1 .. expected - 1 : Outputs(chain[i]) \cap Outputs(b) = {}
    BY <1>2, <1>3, <2>3 DEF ChainInv, OutputsAreUnique
  <2>5. OnChain(expected - 1) \cap Outputs(b) = {}
    BY <2>4 DEF OnChain
  <2>6. OnChain(expected - 1) \subseteq OnChain(expected)
    BY <1>2, OnChainGrows
  <2> QED
    BY <2>1, <2>2, <2>5, <2>6
<1> HIDE DEF b
<1>7. \A c \in DOMAIN commitments :
        commitments'[c].status = IF c \in Outputs(b) THEN "Unspent"
                                 ELSE IF c \in Spends(b) THEN "Spent" ELSE commitments[c].status
  BY <1>5 DEF SpendInv, EntriesShaped, EntryFields
<1>8. OnChain(MarkedUpTo)' = OnChain(expected) /\ OnChain(MarkedUpTo) = OnChain(expected - 1)
  BY <1>1, <1>4 DEF OnChain
<1>9. crashes = 0 => /\ KnownAreOnChain'
                     /\ \A c : /\ Known(c) => Known(c)'
                               /\ Taken(c) => Taken(c)'
  <2> SUFFICES ASSUME crashes = 0
               PROVE  /\ KnownAreOnChain'
                      /\ \A c : /\ Known(c) => Known(c)'
                                /\ Taken(c) => Taken(c)'
    OBVIOUS
  <2>0. KnownAreOnChain
    BY DEF SelectInv
  <2>1. KnownAreOnChain'
    BY <1>5, <1>6, <1>7, <1>8, <2>0 DEF KnownAreOnChain, Known
  <2>2. \A c : Known(c) => Known(c)'
    BY <1>5, <1>7 DEF Known
  <2>3. \A c : Taken(c) => Taken(c)'
    BY <1>5, <1>6, <1>7, <1>8, <2>0 DEF Taken, KnownAreOnChain, Known
  <2> QED
    BY <2>1, <2>2, <2>3
<1> QED
  BY <1>1, <1>9, ListenerSelect

LEMMA StoreSelect ==
  ASSUME ListenInv, ChainInv, SelectInv, NEW l \in 1 .. MaxListeners, StoreReceived(l)
  PROVE  SelectInv'
<1>1. /\ UNCHANGED <<chain, pool, worker, crashes, expected>> /\ phase = "marked" /\ phase' = "none"
      /\ expected \in DOMAIN chain
  BY StoreEffect
<1>2. /\ DOMAIN commitments \subseteq DOMAIN commitments'
      /\ \A c \in DOMAIN commitments : commitments'[c] = commitments[c]
      /\ \A c \in DOMAIN commitments' \ DOMAIN commitments : c \in Decrypted(chain[expected])
  BY StoreEffect
<1>3. MarkedUpTo = expected /\ MarkedUpTo' = expected
  BY <1>1 DEF MarkedUpTo
<1>4. OnChain(MarkedUpTo)' = OnChain(expected) /\ OnChain(MarkedUpTo) = OnChain(expected)
  BY <1>1, <1>3 DEF OnChain
<1>5. Decrypted(chain[expected]) \subseteq OnChain(expected)
  <2>1. Decrypted(chain[expected]) \subseteq Outputs(chain[expected])
    BY <1>1, DecryptedAreOutputs
  <2>2. expected \in 1 .. expected
    BY <1>1 DEF ChainInv, TxTypes
  <2> QED
    BY <2>1, <2>2 DEF OnChain
<1>6. KnownAreOnChain => KnownAreOnChain'
  BY <1>2, <1>4, <1>5 DEF KnownAreOnChain, Known
<1>7. \A c : /\ Known(c) => Known(c)'
             /\ Taken(c) => Taken(c)'
  BY <1>2 DEF Known, Taken
<1> QED
  BY <1>1, <1>6, <1>7, ListenerSelect DEF SelectInv

LEMMA ListenerKeepsSelect ==
  ASSUME ListenInv, ChainInv, SpendInv, SelectInv, ListenerStep \/ ListenerFault
  PROVE  SelectInv'
<1>0. UNCHANGED <<chain, pool, worker, crashes>>
  BY ListenerFrame
<1>a. ASSUME commitments' = commitments, MarkedUpTo' \in Int, MarkedUpTo <= MarkedUpTo'
      PROVE  SelectInv'
  <2>1. OnChain(MarkedUpTo) \subseteq OnChain(MarkedUpTo)'
    BY <1>0, <1>a, MarkedGrows
  <2>2. KnownAreOnChain => KnownAreOnChain'
    BY <1>a, <2>1 DEF KnownAreOnChain, Known
  <2>3. \A c : /\ Known(c) => Known(c)'
               /\ Taken(c) => Taken(c)'
    BY <1>a DEF Known, Taken
  <2> QED
    BY <1>0, <2>2, <2>3, ListenerSelect DEF SelectInv
<1>b. MarkedUpTo \in Int /\ expected \in Int
  BY UpToType DEF ChainInv, ListenInv
<1>1. ASSUME NEW l \in 1 .. MaxListeners,
             \/ MissingBlocks(l) \/ SkipBlock(l) \/ StreamTerminated(l) \/ LoseLog(l)
      PROVE  SelectInv'
  <2>1. UNCHANGED <<commitments, expected, phase>>
    BY <1>1 DEF MissingBlocks, SkipBlock, StreamTerminated, LoseLog, dbVars
  <2>2. MarkedUpTo' = MarkedUpTo
    BY <2>1 DEF MarkedUpTo
  <2> QED
    BY <1>a, <1>b, <2>1, <2>2
<1>2. ASSUME NEW l \in 1 .. MaxListeners, ApplyBlock(l) \/ ApplyFails(l) PROVE SelectInv'
  <2>1. /\ commitments' = commitments /\ expected' = expected + 1 /\ lock = 0
        /\ phase' = "appended" \/ phase' = phase
    BY <1>2 DEF ApplyBlock, ApplyFails, HasEvent, dbVars
  <2>2. phase = "none"
    BY <2>1 DEF ListenInv
  <2>3. MarkedUpTo' \in Int /\ MarkedUpTo <= MarkedUpTo'
    BY <1>b, <2>1, <2>2 DEF MarkedUpTo
  <2> QED
    BY <1>a, <2>1, <2>3
<1>3. CASE RestartChecks \/ RestartFails \/ RestartResets
  <2>1. UNCHANGED <<commitments, expected, phase>>
    BY <1>3 DEF RestartChecks, RestartFails, RestartResets, dbVars
  <2>2. MarkedUpTo' = MarkedUpTo
    BY <2>1 DEF MarkedUpTo
  <2> QED
    BY <1>a, <1>b, <2>1, <2>2
<1> QED
  BY <1>1, <1>2, <1>3, MarkSelect, StoreSelect DEF ListenerStep, ListenerFault

\* The worker sends something.
LEMMA SentGrows ==
  ASSUME SelectInv, NEW N, UNCHANGED <<chain, crashes>>, pool' = pool \cup N,
         crashes = 0 =>
           /\ KnownAreOnChain' /\ SelectedAreFree'
           /\ \A c : Taken(c) => Taken(c)'
           /\ \A t \in N : /\ \A c \in t.spends : Taken(c)
                           /\ \A u \in SentTxs \cup N : u # t => t.spends \cap u.spends = {}
  PROVE  SelectInv'
<1>1. SentTxs' = SentTxs \cup N
  BY DEF SentTxs
<1> SUFFICES ASSUME crashes = 0 PROVE SentAreTaken' /\ SentAreDisjoint'
  BY DEF SelectInv
<1>2. SentAreTaken'
  BY <1>1 DEF SelectInv, SentAreTaken
<1>3. SentAreDisjoint'
  <2> SUFFICES ASSUME NEW t \in SentTxs \cup N, NEW u \in SentTxs \cup N, t # u
               PROVE  t.spends \cap u.spends = {}
    BY <1>1 DEF SentAreDisjoint
  <2>1. CASE t \in N
    BY <2>1
  <2>2. CASE u \in N
    <3>1. u.spends \cap t.spends = {}
      BY <2>2
    <3> QED
      BY <3>1
  <2>3. CASE t \in SentTxs /\ u \in SentTxs
    BY <2>3 DEF SelectInv, SentAreDisjoint
  <2> QED
    BY <2>1, <2>2, <2>3
<1> QED
  BY <1>2, <1>3

\* Commitments and chain as they were: what is known stays known.
LEMMA SameKnown ==
  ASSUME UNCHANGED <<chain, commitments, expected, phase>>
  PROVE  /\ KnownAreOnChain => KnownAreOnChain'
         /\ \A c : /\ Known(c)' <=> Known(c)
                   /\ Taken(c)' <=> Taken(c)
<1>1. MarkedUpTo' = MarkedUpTo
  BY DEF MarkedUpTo
<1> QED
  BY <1>1 DEF KnownAreOnChain, Known, Taken, OnChain, Outputs

\* The worker is not selecting, and sends at most deposits.
LEMMA IdleSelect ==
  ASSUME QueueInv, SelectInv, UNCHANGED <<chain, commitments, expected, phase, crashes>>,
         NEW N, pool' = pool \cup N, \A t \in N : t.spends = {},
         worker'.at \notin Selecting, worker'.at = "select" => worker'.fees = <<>>
  PROVE  SelectInv'
<1>1. SelectedAreFree'
  BY DEF SelectedAreFree, Selecting
<1> QED
  BY <1>1, SameKnown, SentGrows DEF SelectInv

LEMMA IdleNone ==
  ASSUME QueueInv, SelectInv, UNCHANGED <<chain, pool, commitments, expected, phase, crashes>>,
         worker'.at \notin Selecting, worker'.at # "select" \/ worker'.fees = <<>>
  PROVE  SelectInv'
<1>1. SelectedAreFree'
  BY DEF SelectedAreFree, Selecting
<1>2. SentTxs' = SentTxs
  BY DEF SentTxs
<1>3. /\ SentAreTaken => SentAreTaken'
      /\ SentAreDisjoint => SentAreDisjoint'
  BY <1>2, SameKnown DEF SentAreTaken, SentAreDisjoint
<1> QED
  BY <1>1, <1>3, SameKnown DEF SelectInv

LEMMA IdleStepsSelect ==
  ASSUME QueueInv, SelectInv, WorkerStep \/ StatusUnreadable,
         ~SelectValue, ~SelectFee, ~MarkValue, ~MarkFee, ~RecordDeposit,
         \A ok \in BOOLEAN : ~Prove(ok),
         \A delivered \in BOOLEAN, result \in Results :
           ~process_transaction_offchain(delivered, result)
  PROVE  SelectInv'
<1>1. UNCHANGED <<chain, expected, phase, crashes>>
  BY WorkerFrame
<1>2. UNCHANGED commitments
  BY WorkerWrites
<1>3. CASE CheckStatus \/ Sleep \/ EscrowPanics \/ StatusUnreadable \/ Report
  <2>1. pool' = pool
    BY <1>3 DEF CheckStatus, Sleep, EscrowPanics, StatusUnreadable, Report, chainVars
  <2>2. \E place \in {"drain", "top", "dead", "finish"} : GoTo(place)
    BY <1>3 DEF CheckStatus, Sleep, EscrowPanics, StatusUnreadable, Report
  <2>3. worker'.at \notin Selecting /\ (worker'.at # "select" \/ worker'.fees = <<>>)
    BY <2>2, GoToEffect DEF Selecting
  <2> QED
    BY <1>1, <1>2, <2>1, <2>3, IdleNone
<1>4. CASE TakeRequest
  <2>1. pool' = pool
    BY <1>4 DEF TakeRequest, chainVars
  <2>2. worker'.at \notin Selecting /\ worker'.fees = <<>>
    BY <1>4, TakeEffect DEF Selecting
  <2> QED
    BY <1>1, <1>2, <2>1, <2>2, IdleNone
<1>5. CASE Finish
  <2>1. pool' = pool
    BY <1>5 DEF Finish, chainVars
  <2>2. worker'.at \notin Selecting /\ (worker'.at # "select" \/ worker'.fees = <<>>)
    BY <1>5, FinishEffect DEF Selecting
  <2> QED
    BY <1>1, <1>2, <2>1, <2>2, IdleNone
<1>6. CASE Escrow \/ \E mined \in BOOLEAN : EscrowFails(mined)
  <2>1. worker.r \in Requests
    BY <1>6 DEF Escrow, EscrowFails, At, QueueInv, Handling, Unsending
  <2>2. \E N \in {{}, DepositTxs(worker.r)} : pool' = pool \cup N
    BY <1>6 DEF Escrow, EscrowFails
  <2>3. PICK N \in {{}, DepositTxs(worker.r)} : pool' = pool \cup N
    BY <2>2
  <2>4. \A t \in N : t.spends = {}
    BY <2>1, <2>3, DepositTxsShape
  <2>5. worker'.at \in {"record", "finish", "report"}
    <3>1. CASE Escrow
      BY <3>1, GoToEffect DEF Escrow
    <3>2. CASE \E mined \in BOOLEAN : EscrowFails(mined)
      BY <3>2, EndSteps
    <3> QED
      BY <1>6, <3>1, <3>2
  <2> QED
    BY <1>1, <1>2, <2>3, <2>4, <2>5, IdleSelect DEF Selecting
<1> QED
  BY <1>3, <1>4, <1>5, <1>6 DEF WorkerStep

\* What is inserted is pending creation.
LEMMA InsertSelect ==
  ASSUME SelectInv, UNCHANGED <<chain, pool, expected, phase, crashes>>,
         NEW entries, NEW r, Insert(entries), PendingOf(r, entries),
         crashes = 0 => SelectedAreFree'
  PROVE  SelectInv'
<1>1. /\ DOMAIN commitments' = DOMAIN commitments \cup DOMAIN entries
      /\ \A c \in DOMAIN commitments : commitments'[c] = commitments[c]
      /\ \A c \in DOMAIN entries \ DOMAIN commitments : commitments'[c] = entries[c]
  BY InsertEffect
<1>2. \A c \in DOMAIN entries : entries[c].status = "PendingCreation"
  BY DEF PendingOf, Entry
<1>3. OnChain(MarkedUpTo)' = OnChain(MarkedUpTo)
  BY DEF MarkedUpTo, OnChain, Outputs
<1>4. \A c : Known(c)' => Known(c)
  BY <1>1, <1>2 DEF Known
<1>5. KnownAreOnChain => KnownAreOnChain'
  BY <1>1, <1>3, <1>4 DEF KnownAreOnChain, Known
<1>6. \A c : Taken(c) => Taken(c)'
  BY <1>1 DEF Taken
<1>7. pool' = pool \cup {}
  OBVIOUS
<1> QED
  BY <1>5, <1>6, <1>7, SentGrows DEF SelectInv

LEMMA RecordSelect ==
  ASSUME QueueInv, SelectInv, RecordDeposit
  PROVE  SelectInv'
<1>1. UNCHANGED <<chain, pool, expected, phase, crashes>>
  BY DEF RecordDeposit, chainVars, listenVars, historyVars
<1>2. Insert(DepositEntries(worker.r)) /\ PendingOf(worker.r, DepositEntries(worker.r))
  BY DepositsArePending DEF RecordDeposit
<1>3. worker'.at \in {"finish", "report"}
  BY EndSteps
<1>4. SelectedAreFree'
  BY <1>3 DEF SelectedAreFree, Selecting
<1> QED
  BY <1>1, <1>2, <1>4, InsertSelect

LEMMA ProveSelect ==
  ASSUME QueueInv, SelectInv, NEW ok \in BOOLEAN, Prove(ok)
  PROVE  SelectInv'
<1>1. UNCHANGED <<chain, pool, expected, phase, crashes>>
  BY DEF Prove, chainVars, listenVars, historyVars
<1>2. Insert(ChangeEntries(worker.r)) /\ PendingOf(worker.r, ChangeEntries(worker.r))
  BY ChangeIsPending DEF Prove, StoredChange
<1>3. /\ worker'.spend = worker.spend /\ worker'.fees = worker.fees
      /\ worker'.at = "send" \/ worker'.at = "finish"
  BY ProveEffect
<1>4. worker.at = "prove"
  BY DEF Prove, At
<1>5. \A c : Taken(c) => Taken(c)'
  BY <1>2, InsertEffect DEF Taken
<1>6. SentTxs' = SentTxs /\ Spent' = Spent
  BY <1>1, <1>3 DEF SentTxs, Spent
<1>7. crashes = 0 => SelectedAreFree'
  <2> SUFFICES ASSUME crashes = 0 PROVE SelectedAreFree'
    OBVIOUS
  <2>1. /\ \A c \in Keys(worker.spend) : Taken(c)
        /\ \A c \in Keys(worker.fees) : Taken(c)
        /\ \A t \in SentTxs : t.spends \cap Spent = {}
    BY <1>4 DEF SelectInv, SelectedAreFree, Selecting
  <2> QED
    BY <1>3, <1>5, <1>6, <2>1 DEF SelectedAreFree, Selecting
<1> QED
  BY <1>1, <1>2, <1>7, InsertSelect

\* What is selected is unspent, so nothing sent spends it.
LEMMA SelectKeepsSelect ==
  ASSUME QueueInv, EntryInv, SelectInv, SelectValue \/ SelectFee
  PROVE  SelectInv'
<1>1. UNCHANGED <<chain, pool, commitments, expected, phase, crashes>> /\ pool' = pool \cup {}
  BY DEF SelectValue, SelectFee, chainVars, dbVars, listenVars, historyVars
<1>2. SentTxs' = SentTxs
  BY <1>1 DEF SentTxs
<1>3. /\ KnownAreOnChain => KnownAreOnChain'
      /\ \A c : /\ Known(c)' <=> Known(c)
                /\ Taken(c)' <=> Taken(c)
  BY <1>1, SameKnown
<1>4. ASSUME NEW keys, \A c \in keys : c \in DOMAIN commitments /\ commitments[c].status = "Unspent",
             crashes = 0
      PROVE  (\A c \in keys : Known(c)) /\ \A t \in SentTxs : t.spends \cap keys = {}
  <2>1. \A c \in keys : Known(c) /\ ~Taken(c)
    BY <1>4 DEF Known, Taken
  <2> QED
    BY <1>4, <2>1 DEF SelectInv, SentAreTaken
<1>5. CASE SelectValue
  <2>0. worker.at = "select" /\ Req[worker.r].value \in Nat \ {0}
    BY <1>5, RequestAssumption DEF SelectValue, At, QueueInv, Handling, Unsending
  <2>1. SelectFrom("token", Req[worker.r].value, "spend", "mark")
    BY <1>5 DEF SelectValue
  <2>2. CASE worker'.at = "mark"
    <3>1. \A c \in Keys(worker'.spend) :
            c \in DOMAIN commitments /\ commitments[c].status = "Unspent"
      BY <2>0, <2>1, <2>2, SelectionType
    <3>2. worker'.fees = worker.fees
      BY <2>1, <2>2, SelectEffect
    <3>3. crashes = 0 => SelectedAreFree'
      <4> SUFFICES ASSUME crashes = 0 PROVE SelectedAreFree'
        OBVIOUS
      <4>1. worker'.fees = <<>>
        BY <2>0, <3>2 DEF SelectInv, SelectedAreFree
      <4>2. Spent' = Keys(worker'.spend)
        BY <4>1 DEF Spent, Keys
      <4>3. /\ \A c \in Keys(worker'.spend) : Known(c)
            /\ \A t \in SentTxs : t.spends \cap Keys(worker'.spend) = {}
        BY <1>4, <3>1
      <4>4. Keys(worker.spend)' = Keys(worker'.spend)
        BY DEF Keys
      <4> QED
        BY <1>2, <1>3, <2>2, <4>1, <4>2, <4>3, <4>4 DEF SelectedAreFree, Selecting
    <3> QED
      BY <1>1, <1>3, <3>3, SentGrows DEF SelectInv
  <2>3. CASE worker'.at # "mark"
    <3>1. worker'.at = "finish"
      BY <2>1, <2>3, SelectEffect
    <3>2. worker'.at \notin Selecting /\ worker'.at # "select"
      BY <3>1 DEF Selecting
    <3> QED
      BY <1>1, <3>2, IdleNone
  <2> QED
    BY <2>2, <2>3
<1>6. CASE SelectFee
  <2>0. worker.at = "selectFee" /\ Req[worker.r].fee \in Nat \ {0}
    BY <1>6, RequestAssumption DEF SelectFee, At, QueueInv, Handling, Unsending, EntryInv
  <2>1. SelectFrom("fee", Req[worker.r].fee, "fees", "markFee")
    BY <1>6 DEF SelectFee
  <2>2. CASE worker'.at = "markFee"
    <3>1. \A c \in Keys(worker'.fees) :
            c \in DOMAIN commitments /\ commitments[c].status = "Unspent"
      BY <2>0, <2>1, <2>2, SelectionType
    <3>2. worker'.spend = worker.spend
      BY <2>1, <2>2, SelectEffect
    <3>3. crashes = 0 => SelectedAreFree'
      <4> SUFFICES ASSUME crashes = 0 PROVE SelectedAreFree'
        OBVIOUS
      <4>1. /\ \A c \in Keys(worker.spend) : Taken(c)
            /\ \A t \in SentTxs : t.spends \cap Spent = {}
        BY <2>0 DEF SelectInv, SelectedAreFree, Selecting
      <4>2. Spent' = Keys(worker.spend) \cup Keys(worker'.fees) /\ Keys(worker.spend) \subseteq Spent
        BY <3>2 DEF Spent, Keys
      <4>3. /\ \A c \in Keys(worker'.fees) : Known(c)
            /\ \A t \in SentTxs : t.spends \cap Keys(worker'.fees) = {}
        BY <1>4, <3>1
      <4>4. Keys(worker.fees)' = Keys(worker'.fees) /\ Keys(worker.spend)' = Keys(worker.spend)
        BY <3>2 DEF Keys
      <4> QED
        BY <1>2, <1>3, <2>2, <4>1, <4>2, <4>3, <4>4 DEF SelectedAreFree, Selecting
    <3> QED
      BY <1>1, <1>3, <3>3, SentGrows DEF SelectInv
  <2>3. CASE worker'.at # "markFee"
    <3>1. worker'.at = "finish"
      BY <2>1, <2>3, SelectEffect
    <3>2. worker'.at \notin Selecting /\ worker'.at # "select"
      BY <3>1 DEF Selecting
    <3> QED
      BY <1>1, <3>2, IdleNone
  <2> QED
    BY <2>2, <2>3
<1> QED
  BY <1>5, <1>6

\* Marking what is known as pending: it is taken from then on.
LEMMA PendingSelect ==
  ASSUME SpendInv, SelectInv, NEW names, commitments' = MarkedPending(names),
         UNCHANGED <<chain, pool, expected, phase, crashes>>,
         crashes = 0 => (\A c \in names : Known(c)) /\ SelectedAreFree'
  PROVE  SelectInv'
<1>1. /\ DOMAIN commitments' = DOMAIN commitments
      /\ \A c \in DOMAIN commitments \cap names : commitments'[c].status = "PendingSpend"
      /\ \A c \in DOMAIN commitments \ names : commitments'[c] = commitments[c]
  BY MarkedPendingEffect
<1>2. MarkedUpTo' = MarkedUpTo /\ SentTxs' = SentTxs
  BY DEF MarkedUpTo, SentTxs
<1>3. OnChain(MarkedUpTo)' = OnChain(MarkedUpTo)
  BY <1>2 DEF OnChain, Outputs
<1>4. \A c : Taken(c) => Taken(c)'
  BY <1>1 DEF Taken
<1> SUFFICES ASSUME crashes = 0 PROVE KnownAreOnChain' /\ SentAreTaken' /\ SentAreDisjoint'
  BY DEF SelectInv
<1>5. \A c \in DOMAIN commitments' : Known(c)' => Known(c)
  BY <1>1 DEF Known
<1>6. KnownAreOnChain'
  BY <1>1, <1>3, <1>5 DEF SelectInv, KnownAreOnChain
<1>7. SentAreTaken' /\ SentAreDisjoint'
  BY <1>2, <1>4 DEF SelectInv, SentAreTaken, SentAreDisjoint
<1> QED
  BY <1>6, <1>7

LEMMA MarkKeepsSelect ==
  ASSUME QueueInv, SpendInv, SelectInv, MarkValue \/ MarkFee
  PROVE  SelectInv'
<1>1. UNCHANGED <<chain, pool, expected, phase, crashes>>
  BY DEF MarkValue, MarkFee, chainVars, listenVars, historyVars
<1>2. SentTxs' = SentTxs
  BY <1>1 DEF SentTxs
<1>3. CASE MarkValue
  <2>1. /\ worker.at = "mark" /\ commitments' = MarkedPending(Keys(worker.spend))
        /\ \E place \in {"prove", "selectFee"} : GoTo(place)
    BY <1>3 DEF MarkValue, At
  <2>2. worker'.at \in {"prove", "selectFee"} /\ worker'.spend = worker.spend
        /\ worker'.fees = worker.fees
    BY <2>1, GoToEffect
  <2>3. \A c \in Keys(worker.spend) : Known(c) => Taken(c)'
    BY <2>1, MarkedPendingEffect DEF Known, Taken
  <2>4. ASSUME crashes = 0
        PROVE  (\A c \in Keys(worker.spend) : Known(c)) /\ SelectedAreFree'
    <3>1. /\ \A c \in Keys(worker.spend) : Known(c)
          /\ worker.fees = <<>> /\ \A t \in SentTxs : t.spends \cap Spent = {}
      BY <2>1, <2>4 DEF SelectInv, SelectedAreFree, Selecting
    <3>2. Spent' = Spent /\ Keys(worker.fees)' = {} /\ Keys(worker.spend)' = Keys(worker.spend)
      BY <2>2, <3>1 DEF Spent, Keys
    <3> QED
      BY <1>2, <2>2, <2>3, <3>1, <3>2 DEF SelectedAreFree, Selecting
  <2> QED
    BY <1>1, <2>1, <2>4, PendingSelect
<1>4. CASE MarkFee
  <2>1. /\ worker.at = "markFee" /\ commitments' = MarkedPending(Keys(worker.fees))
        /\ GoTo("prove")
    BY <1>4 DEF MarkFee, At
  <2>2. worker'.at = "prove" /\ worker'.spend = worker.spend /\ worker'.fees = worker.fees
    BY <2>1, GoToEffect
  <2>3. /\ \A c \in Keys(worker.fees) : Known(c) => Taken(c)'
        /\ \A c : Taken(c) => Taken(c)'
    BY <2>1, MarkedPendingEffect DEF Known, Taken
  <2>4. ASSUME crashes = 0
        PROVE  (\A c \in Keys(worker.fees) : Known(c)) /\ SelectedAreFree'
    <3>1. /\ \A c \in Keys(worker.fees) : Known(c)
          /\ \A c \in Keys(worker.spend) : Taken(c)
          /\ \A t \in SentTxs : t.spends \cap Spent = {}
      BY <2>1, <2>4 DEF SelectInv, SelectedAreFree, Selecting
    <3>2. /\ Spent' = Spent /\ Keys(worker.fees)' = Keys(worker.fees)
          /\ Keys(worker.spend)' = Keys(worker.spend)
      BY <2>2 DEF Spent, Keys
    <3> QED
      BY <1>2, <2>2, <2>3, <3>1, <3>2 DEF SelectedAreFree, Selecting
  <2> QED
    BY <1>1, <2>1, <2>4, PendingSelect
<1> QED
  BY <1>3, <1>4

LEMMA SendSelect ==
  ASSUME QueueInv, SelectInv, NEW delivered \in BOOLEAN, NEW result \in Results,
         process_transaction_offchain(delivered, result)
  PROVE  SelectInv'
<1>1. UNCHANGED <<chain, commitments, expected, phase, crashes>> /\ worker.at = "send"
  BY DEF process_transaction_offchain, At, dbVars, listenVars, historyVars
<1>2. worker'.at = "report"
  BY ReportEffect
<1>3. worker'.at \notin Selecting /\ worker'.at # "select" /\ SelectedAreFree'
  BY <1>2 DEF Selecting, SelectedAreFree
<1>4. CASE ~delivered
  <2>1. pool' = pool
    BY <1>4 DEF process_transaction_offchain
  <2> QED
    BY <1>1, <1>3, <2>1, IdleNone
<1>5. CASE delivered
  <2> DEFINE t == Tx(worker.r, OutputsOnChain(worker.r), Spent, {})
  <2>1. pool' = pool \cup {t} /\ t.spends = Spent
    BY <1>5 DEF process_transaction_offchain, Tx
  <2>2. crashes = 0 => /\ \A c \in Spent : Taken(c)
                       /\ \A u \in SentTxs : u.spends \cap Spent = {}
    BY <1>1 DEF SelectInv, SelectedAreFree, Selecting, Spent
  <2> HIDE DEF t
  <2>3. crashes = 0 =>
          \A v \in {t} : /\ \A c \in v.spends : Taken(c)
                         /\ \A u \in SentTxs \cup {t} : u # v => v.spends \cap u.spends = {}
    BY <2>1, <2>2
  <2> DEFINE N == {t}
  <2> HIDE DEF N
  <2>4. pool' = pool \cup N /\ (crashes = 0 =>
          \A v \in N : /\ \A c \in v.spends : Taken(c)
                       /\ \A u \in SentTxs \cup N : u # v => v.spends \cap u.spends = {})
    BY <2>1, <2>3 DEF N
  <2> QED
    BY <1>1, <1>3, <2>4, SameKnown, SentGrows DEF SelectInv
<1> QED
  BY <1>4, <1>5

\* A block moves what was sent from the pool to the chain.
LEMMA ProposeKeepsSelect ==
  ASSUME ListenInv, ChainInv, SelectInv, NEW block \in SUBSET pool, ProposeBlock(block)
  PROVE  SelectInv'
<1>1. /\ chain' = Append(chain, block) /\ pool' = pool \ block
      /\ UNCHANGED <<commitments, expected, phase, worker, crashes>>
      /\ chain \in Seq(SUBSET Transaction)
  BY ProposeFrame DEF ProposeBlock, ChainInv, TxTypes
<1>2. MarkedUpTo \in 0 .. Len(chain) /\ MarkedUpTo' = MarkedUpTo
  BY <1>1, UpToType DEF ChainInv, MarkedUpTo
<1>3. /\ DOMAIN chain = 1 .. Len(chain) /\ DOMAIN chain' = 1 .. Len(chain) + 1
      /\ Len(chain) \in Nat
      /\ \A n \in 1 .. Len(chain) : chain'[n] = chain[n]
      /\ chain'[Len(chain) + 1] = block
      /\ \A n \in 0 .. Len(chain) : OnChain(n)' = OnChain(n)
  BY <1>1, ChainGrows
<1>4. SentTxs' \subseteq SentTxs
  <2> SUFFICES ASSUME NEW n \in 1 .. Len(chain) + 1 PROVE chain'[n] \subseteq SentTxs
    BY <1>1, <1>3 DEF SentTxs
  <2>1. n \in 1 .. Len(chain) \/ n = Len(chain) + 1
    BY <1>3
  <2> QED
    BY <1>3, <2>1 DEF SentTxs
<1>5. OnChain(MarkedUpTo)' = OnChain(MarkedUpTo)
  BY <1>2, <1>3 DEF OnChain
<1>6. /\ KnownAreOnChain => KnownAreOnChain'
      /\ \A c : (Known(c)' <=> Known(c)) /\ (Taken(c)' <=> Taken(c))
  BY <1>1, <1>5 DEF KnownAreOnChain, Known, Taken
<1>7. /\ SentAreTaken => SentAreTaken'
      /\ SentAreDisjoint => SentAreDisjoint'
  BY <1>4, <1>6 DEF SentAreTaken, SentAreDisjoint
<1>8. SelectedAreFree => SelectedAreFree'
  BY <1>1, <1>4, <1>6 DEF SelectedAreFree, Keys, Spent
<1> QED
  BY <1>1, <1>6, <1>7, <1>8 DEF SelectInv

LEMMA NextSelect ==
  ASSUME QueueInv, ListenInv, ChainInv, SpendInv, EntryInv, SelectInv, [Next]_vars
  PROVE  SelectInv'
<1>1. CASE WorkerStep \/ StatusUnreadable
  <2>1. CASE /\ ~SelectValue /\ ~SelectFee /\ ~MarkValue /\ ~MarkFee /\ ~RecordDeposit
             /\ \A ok \in BOOLEAN : ~Prove(ok)
             /\ \A delivered \in BOOLEAN, result \in Results :
                  ~process_transaction_offchain(delivered, result)
    BY <1>1, <2>1, IdleStepsSelect
  <2> QED
    BY <2>1, SelectKeepsSelect, MarkKeepsSelect, RecordSelect, ProveSelect, SendSelect
<1>2. CASE Crash
  <2>1. crashes' = crashes + 1 /\ crashes \in Nat
    BY <1>2 DEF Crash, SelectInv
  <2> QED
    BY <2>1 DEF SelectInv
<1>3. CASE Rest \/ UNCHANGED vars
  <2>1. UNCHANGED <<chain, pool, commitments, expected, phase, crashes, worker>>
    BY <1>3, RestFrame DEF vars, chainVars, dbVars, listenVars, queueVars, historyVars
  <2>2. SentTxs' = SentTxs /\ Spent' = Spent
    BY <2>1 DEF SentTxs, Spent, Keys
  <2>3. /\ SentAreTaken => SentAreTaken'
        /\ SentAreDisjoint => SentAreDisjoint'
    BY <2>1, <2>2, SameKnown DEF SentAreTaken, SentAreDisjoint
  <2>4. SelectedAreFree => SelectedAreFree'
    BY <2>1, <2>2, SameKnown DEF SelectedAreFree, Keys
  <2> QED
    BY <2>1, <2>3, <2>4, SameKnown DEF SelectInv
<1> QED
  BY <1>1, <1>2, <1>3, ProposeKeepsSelect, ListenerKeepsSelect DEF Next, Environment

LEMMA InitEntries == Init => EntryInv
<1> SUFFICES ASSUME Init PROVE EntryInv
  OBVIOUS
<1>1. DOMAIN commitments = {}
  BY DEF Init
<1>2. worker.spend = <<>> /\ worker.fees = <<>> /\ worker.at = "top"
  BY DEF Init, Boot, Idle
<1> QED
  BY <1>1, <1>2 DEF EntryInv

ClientInv == LedgerInv /\ EntryInv /\ SelectInv

LEMMA ClientCorrect == Spec => []ClientInv
<1>1. Init => EntryInv /\ SelectInv
  BY InitEntries, InitSelect
<1>2. LedgerInv /\ EntryInv /\ SelectInv /\ [Next]_vars => EntryInv' /\ SelectInv'
  <2> SUFFICES ASSUME LedgerInv, EntryInv, SelectInv, [Next]_vars PROVE EntryInv' /\ SelectInv'
    OBVIOUS
  <2>1. QueueInv /\ ListenInv /\ ChainInv /\ SpendInv
    BY DEF LedgerInv
  <2> QED
    BY <2>1, NextEntries, NextSelect
<1> QED
  BY <1>1, <1>2, LedgerCorrect, PTL DEF Spec, ClientInv

\* As long as the client does not crash, no two transactions it has sent spend
\* the same commitment: for any store, any requests, any order of what its
\* listeners, its worker and the chain do, and any choice among commitments of
\* equal value.
THEOREM SelectionCorrect == Spec => []NoDoubleSelection
<1>1. ClientInv => NoDoubleSelection
  BY DEF ClientInv, SelectInv, SentAreDisjoint, SentTxs, NoDoubleSelection
<1> QED
  BY <1>1, ClientCorrect, PTL

-----------------------------------------------------------------------------
(* The remaining types.  A listener stays within the chain and its attempts *)
(* within their maximum; those alive or being started are no more than there *)
(* is room for, since a restart task counts from the moment it is begun.    *)

Requested == {"none", "Queued", "Processing", "Confirmed"} \cup Results

RequestTypes ==
  /\ requests \in [Requests -> Requested]
  /\ mappings \subseteq Requests
  /\ Len(queue) <= MaxQueue
  /\ storing \subseteq received
  /\ worker.at = "report" => worker.result \in Results

ListenerAt(n) == [pos : -1 .. n, attempts : 0 .. MaxAttempts]

Running == Cardinality(Alive) + checking + resetting

ListenerTypes ==
  /\ listeners \in [1 .. MaxListeners -> ListenerAt(Len(chain))]
  /\ dup_key_check \in BOOLEAN
  /\ checking \in Nat /\ resetting \in Nat /\ Running <= MaxListeners
  /\ torn \subseteq {"reset", "unapplied"}

ClientTypes == Len(chain) <= MaxBlocks /\ RequestTypes /\ ListenerTypes

requestState == <<requests, mappings, queue, storing, received, worker>>
listenerState == <<chain, listeners, dup_key_check, checking, resetting, torn>>

LEMMA RequestsSame == RequestTypes /\ UNCHANGED requestState => RequestTypes'
BY DEF RequestTypes, requestState

LEMMA ListenersSame == ListenerTypes /\ UNCHANGED listenerState => ListenerTypes'
BY DEF ListenerTypes, listenerState, Running, Alive

LEMMA StoreRequestType ==
  ASSUME NEW reqs \in [Requests -> Requested], NEW r
  PROVE  store_request(reqs, r) \in [Requests -> Requested]
BY DEF store_request, Requested

LEMMA UpdateRequestType ==
  ASSUME NEW reqs \in [Requests -> Requested], NEW rs, NEW status \in Requested
  PROVE  update_request(reqs, rs, status) \in [Requests -> Requested]
BY DEF update_request

\* Steps of the worker leave the queue alone or take its head.
LEMMA WorkerKeepsRequests ==
  ASSUME QueueInv, RequestTypes, WorkerStep \/ StatusUnreadable
  PROVE  RequestTypes'
<1>a. received' = received /\ storing' = storing
  <2>1. received' = received
    BY WorkerFrame
  <2>2. CASE CheckStatus \/ Sleep \/ TakeRequest \/ Escrow \/ EscrowPanics \/ RecordDeposit
             \/ SelectValue \/ MarkValue \/ SelectFee \/ MarkFee \/ Report \/ Finish
             \/ StatusUnreadable
    BY <2>2 DEF CheckStatus, Sleep, TakeRequest, Escrow, EscrowPanics, RecordDeposit,
       SelectValue, MarkValue, SelectFee, MarkFee, Report, Finish, StatusUnreadable
  <2>3. CASE \/ \E mined \in BOOLEAN : EscrowFails(mined)
             \/ \E ok \in BOOLEAN : Prove(ok)
             \/ \E delivered \in BOOLEAN, end \in Results :
                  process_transaction_offchain(delivered, end)
    <3>1. ASSUME NEW mined \in BOOLEAN, EscrowFails(mined) PROVE storing' = storing
      BY <3>1 DEF EscrowFails
    <3>2. ASSUME NEW ok \in BOOLEAN, Prove(ok) PROVE storing' = storing
      BY <3>2 DEF Prove
    <3>3. ASSUME NEW delivered \in BOOLEAN, NEW end \in Results,
                 process_transaction_offchain(delivered, end)
          PROVE  storing' = storing
      BY <3>3 DEF process_transaction_offchain
    <3> QED
      BY <2>1, <2>3, <3>1, <3>2, <3>3
  <2> QED
    BY <2>1, <2>2, <2>3 DEF WorkerStep
<1>b. worker.at \in Handling => worker.r \in Requests
  BY DEF QueueInv
<1>c. {"Submitted", "Failed", "Processing", "ProposerUnreachable"} \subseteq Requested
  BY DEF Requested, Results
<1>1. CASE CheckStatus \/ Sleep \/ Escrow \/ EscrowPanics \/ MarkValue \/ MarkFee
           \/ StatusUnreadable
  <2>1. PICK place \in {"drain", "top", "dead", "record", "prove", "selectFee"} : GoTo(place)
    BY <1>1 DEF CheckStatus, Sleep, Escrow, EscrowPanics, MarkValue, MarkFee, StatusUnreadable
  <2>2. worker'.at # "report"
    BY <2>1, GoToEffect
  <2>3. UNCHANGED <<requests, mappings, queue>>
    BY <1>1 DEF CheckStatus, Sleep, Escrow, EscrowPanics, MarkValue, MarkFee, StatusUnreadable,
                dbVars
  <2> QED
    BY <1>a, <2>2, <2>3 DEF RequestTypes
<1>2. CASE SelectValue \/ SelectFee
  <2>1. UNCHANGED <<requests, mappings, queue>>
    BY <1>2 DEF SelectValue, SelectFee, dbVars
  <2>2. worker'.at # "report"
    <3>1. CASE SelectValue
      <4>1. SelectFrom("token", Req[worker.r].value, "spend", "mark")
        BY <3>1 DEF SelectValue
      <4> QED
        BY <4>1, SelectEffect
    <3>2. CASE SelectFee
      <4>1. SelectFrom("fee", Req[worker.r].fee, "fees", "markFee")
        BY <3>2 DEF SelectFee
      <4> QED
        BY <4>1, SelectEffect
    <3> QED
      BY <1>2, <3>1, <3>2
  <2> QED
    BY <1>a, <2>1, <2>2 DEF RequestTypes
<1>3. CASE TakeRequest
  <2>1. Head(queue) \in received /\ Len(queue') <= Len(queue) /\ worker'.at # "report"
    BY <1>3, TakeEffect DEF QueueInv
  <2>2. update_request(requests, {Head(queue)}, "Processing") \in [Requests -> Requested]
    BY <1>c, UpdateRequestType DEF RequestTypes
  <2>3. requests' \in [Requests -> Requested]
    BY <1>3, <2>2, StoreRequestType DEF TakeRequest
  <2>4. mappings' = mappings
    BY <1>3 DEF TakeRequest
  <2>5. Len(queue') <= MaxQueue
    BY <1>3, <2>1, TakeEffect, ClientBounds DEF QueueInv, RequestTypes
  <2> QED
    BY <1>a, <2>1, <2>3, <2>4, <2>5 DEF RequestTypes
<1>4. CASE Report \/ Finish
  <2>1. UNCHANGED <<mappings, queue>> /\ worker'.at # "report"
    BY <1>4, GoToEffect, FinishEffect DEF Report, Finish
  <2>2. requests' \in [Requests -> Requested]
    BY <1>4, <1>c, UpdateRequestType DEF Report, Finish, RequestTypes, At, Requested
  <2> QED
    BY <1>a, <2>1, <2>2 DEF RequestTypes
<1>5. CASE RecordDeposit \/ \E mined \in BOOLEAN : EscrowFails(mined)
  <2>1. worker'.at = "finish"
    <3>1. CASE RecordDeposit
      <4>1. worker' = [worker EXCEPT !.at = "finish", !.result = "Submitted"]
        BY <3>1 DEF RecordDeposit
      <4> QED
        BY <4>1 DEF QueueInv, WorkerFields
    <3>2. ASSUME NEW mined \in BOOLEAN, EscrowFails(mined) PROVE worker'.at = "finish"
      <4>1. worker' = [worker EXCEPT !.at = "finish", !.result = "Failed"]
        BY <3>2 DEF EscrowFails, Fail
      <4> QED
        BY <4>1 DEF QueueInv, WorkerFields
    <3> QED
      BY <1>5, <3>1, <3>2
  <2>2. UNCHANGED <<requests, queue>> /\ mappings' \subseteq Requests
    BY <1>5, <1>b DEF RecordDeposit, EscrowFails, dbVars, RequestTypes, At, Handling
  <2> QED
    BY <1>a, <2>1, <2>2 DEF RequestTypes
<1>6. CASE \E ok \in BOOLEAN : Prove(ok)
  <2>1. worker'.at # "report"
    BY <1>6, ProveEffect
  <2>2. UNCHANGED <<requests, queue>> /\ mappings' \subseteq Requests
    BY <1>6, <1>b DEF Prove, RequestTypes, At, Handling, Unsending
  <2> QED
    BY <1>a, <2>1, <2>2 DEF RequestTypes
<1>7. ASSUME NEW delivered \in BOOLEAN, NEW end \in Results,
             process_transaction_offchain(delivered, end)
      PROVE  RequestTypes'
  <2>1. worker'.result \in Results
    BY <1>7, ReportEffect
  <2>2. UNCHANGED <<requests, mappings, queue>>
    BY <1>7 DEF process_transaction_offchain, dbVars
  <2> QED
    BY <1>a, <2>1, <2>2 DEF RequestTypes
<1> QED
  BY <1>1, <1>2, <1>3, <1>4, <1>5, <1>6, <1>7 DEF WorkerStep

LEMMA RestKeepsRequests ==
  ASSUME QueueInv, RequestTypes, Rest
  PROVE  RequestTypes'
<1>1. ASSUME NEW r \in Requests, queue_request(r) PROVE RequestTypes'
  <2>1. UNCHANGED <<requests, mappings, worker>> /\ storing' \subseteq received'
    BY <1>1 DEF queue_request, dbVars, RequestTypes
  <2>2. Len(queue) < MaxQueue /\ queue' = Append(queue, r)
    BY <1>1 DEF queue_request, HasRoom
  <2>3. Len(queue') <= MaxQueue
    BY <2>2, ClientBounds DEF QueueInv
  <2> QED
    BY <2>1, <2>3 DEF RequestTypes
<1>2. ASSUME NEW r \in Requests, StoreQueued(r) PROVE RequestTypes'
  BY <1>2, StoreRequestType DEF StoreQueued, RequestTypes
<1> QED
  BY <1>1, <1>2 DEF Rest

LEMMA ListenerKeepsRequests ==
  ASSUME RequestTypes, ListenerStep \/ ListenerFault
  PROVE  RequestTypes'
<1> USE DEF queueVars
<1>0. UNCHANGED <<queue, received, worker>>
  BY ListenerFrame
<1>1. ASSUME NEW l \in 1 .. MaxListeners,
             \/ MissingBlocks(l) \/ SkipBlock(l) \/ ApplyBlock(l) \/ MarkCommitments(l)
             \/ ApplyFails(l) \/ StreamTerminated(l) \/ LoseLog(l)
      PROVE  RequestTypes'
  BY <1>1, RequestsSame DEF MissingBlocks, SkipBlock, ApplyBlock, MarkCommitments, ApplyFails,
       StreamTerminated, LoseLog, requestState, dbVars
<1>2. ASSUME NEW l \in 1 .. MaxListeners, StoreReceived(l)
      PROVE  RequestTypes'
  <2>1. "Confirmed" \in Requested
    BY DEF Requested
  <2>2. requests' \in [Requests -> Requested]
    BY <1>2, <2>1, UpdateRequestType DEF StoreReceived, RequestTypes
  <2>3. UNCHANGED <<mappings, storing>>
    BY <1>2 DEF StoreReceived
  <2> QED
    BY <1>0, <2>2, <2>3 DEF RequestTypes
<1>3. CASE RestartChecks \/ RestartResets \/ RestartFails
  BY <1>3, RequestsSame DEF RestartChecks, RestartResets, RestartFails, requestState, dbVars
<1> QED
  BY <1>1, <1>2, <1>3 DEF ListenerStep, ListenerFault

LEMMA InitRequests == Init => RequestTypes
<1> SUFFICES ASSUME Init PROVE RequestTypes
  OBVIOUS
<1>1. /\ requests = [r \in Requests |-> "none"] /\ mappings = {}
      /\ Len(queue) = 0 /\ storing = {} /\ worker.at = "top"
  BY DEF Init, Idle
<1> QED
  BY <1>1, ClientBounds DEF RequestTypes, Requested

LEMMA NextRequests ==
  ASSUME QueueInv, RequestTypes, [Next]_vars
  PROVE  RequestTypes'
<1>1. CASE \E block \in SUBSET pool : ProposeBlock(block)
  BY <1>1, RequestsSame DEF ProposeBlock, requestState, dbVars, queueVars
<1>2. CASE ListenerFault \/ ListenerStep
  BY <1>2, ListenerKeepsRequests
<1>3. CASE StatusUnreadable \/ WorkerStep
  BY <1>3, WorkerKeepsRequests
<1>4. CASE Crash
  <2>1. /\ requests' = [r \in Requests |-> "none"] /\ mappings' = mappings
        /\ queue' = <<>> /\ storing' = {} /\ worker' = Idle
    BY <1>4 DEF Crash, Boot
  <2>2. mappings \subseteq Requests
    BY DEF RequestTypes
  <2>3. Len(queue') = 0 /\ worker'.at = "top"
    BY <2>1 DEF Idle
  <2> QED
    BY <2>1, <2>2, <2>3, ClientBounds DEF RequestTypes, Requested
<1>5. CASE Rest
  BY <1>5, RestKeepsRequests
<1>6. CASE UNCHANGED vars
  BY <1>6, RequestsSame DEF vars, requestState, dbVars, queueVars
<1> QED
  BY <1>1, <1>2, <1>3, <1>4, <1>5, <1>6 DEF Next, Environment

\* What a step does to the number of listeners alive.
LEMMA AliveType ==
  IsFiniteSet(Alive) /\ Cardinality(Alive) \in Nat
<1> DEFINE a == 1
<1>1. a \in Int /\ MaxListeners \in Int
  BY ClientBounds
<1> HIDE DEF a
<1>2. IsFiniteSet(a .. MaxListeners)
  BY <1>1, FS_Interval
<1>3. Alive \subseteq a .. MaxListeners
  BY DEF Alive, a
<1> QED
  BY <1>2, <1>3, FS_Subset, FS_CardinalityType

LEMMA AliveStop ==
  ASSUME NEW T, listeners \in [1 .. MaxListeners -> T], NEW l \in 1 .. MaxListeners,
         listeners' = Stop(l)
  PROVE  Cardinality(Alive') \in Nat /\ Cardinality(Alive') <= Cardinality(Alive)
<1>1. Alive' \subseteq Alive
  BY DEF Alive, Stop
<1> QED
  BY <1>1, AliveType, FS_Subset, FS_CardinalityType

LEMMA AliveMove ==
  ASSUME NEW T, listeners \in [1 .. MaxListeners -> T], NEW l \in Alive, NEW here,
         here # Stopped, listeners' = [listeners EXCEPT ![l] = here]
  PROVE  Alive' = Alive
BY DEF Alive

LEMMA AliveStart ==
  ASSUME NEW T, listeners \in [1 .. MaxListeners -> T], NEW l \in (1 .. MaxListeners) \ Alive,
         listeners' = [listeners EXCEPT ![l] = Started]
  PROVE  Cardinality(Alive') = Cardinality(Alive) + 1
<1>1. Started # Stopped
  BY DEF Started, Stopped
<1>2. Alive' = Alive \cup {l}
  BY <1>1 DEF Alive
<1> QED
  BY <1>2, AliveType, FS_AddElement

LEMMA OneAlive ==
  ASSUME NEW ls, ls = [l \in 1 .. MaxListeners |-> IF l = 1 THEN Started ELSE Stopped]
  PROVE  Cardinality({l \in 1 .. MaxListeners : ls[l] # Stopped}) = 1
<1>1. Started # Stopped
  BY DEF Started, Stopped
<1>2. {l \in 1 .. MaxListeners : ls[l] # Stopped} = {1}
  BY <1>1, ClientBounds
<1> QED
  BY <1>2, FS_Singleton

\* A listener that takes a block moves on, and stays within the chain.
LEMMA AdvanceTypes ==
  ASSUME ListenerTypes, Len(chain) \in Nat, NEW l \in Alive, Position(l) < Len(chain),
         listeners' = Advance(l)
  PROVE  listeners' \in [1 .. MaxListeners -> ListenerAt(Len(chain))] /\ Alive' = Alive
<1> DEFINE here == [listeners[l] EXCEPT !.pos = @ + 1]
<1>1. l \in 1 .. MaxListeners /\ listeners[l] \in ListenerAt(Len(chain)) /\ listeners[l] # Stopped
  BY DEF Alive, ListenerTypes
<1>2. here \in ListenerAt(Len(chain)) /\ here.pos = Position(l) + 1
      /\ Position(l) \in -1 .. Len(chain)
  BY <1>1, ClientBounds DEF ListenerAt, Position
<1>3. here # Stopped
  BY <1>2 DEF Stopped
<1>4. listeners' = [listeners EXCEPT ![l] = here]
  BY <1>1 DEF Advance, ListenerTypes
<1> HIDE DEF here
<1>5. listeners' \in [1 .. MaxListeners -> ListenerAt(Len(chain))]
  BY <1>1, <1>2, <1>4 DEF ListenerTypes
<1> QED
  BY <1>3, <1>4, <1>5, AliveMove DEF ListenerTypes

LEMMA StopTypes ==
  ASSUME ListenerTypes, Len(chain) \in Nat, NEW l \in 1 .. MaxListeners, listeners' = Stop(l)
  PROVE  /\ listeners' \in [1 .. MaxListeners -> ListenerAt(Len(chain))]
         /\ Cardinality(Alive') \in Nat /\ Cardinality(Alive') <= Cardinality(Alive)
<1>1. Stopped \in ListenerAt(Len(chain))
  BY ClientBounds DEF Stopped, ListenerAt
<1>2. listeners' \in [1 .. MaxListeners -> ListenerAt(Len(chain))]
  BY <1>1 DEF ListenerTypes, Stop
<1> QED
  BY <1>2, AliveStop DEF ListenerTypes

\* A step that stops a listener, or moves it, and no restart task.
LEMMA ListenersTyped ==
  ASSUME ListenerTypes, UNCHANGED <<chain, checking, resetting>>, dup_key_check' \in BOOLEAN,
         torn' \subseteq {"reset", "unapplied"},
         listeners' \in [1 .. MaxListeners -> ListenerAt(Len(chain))],
         Cardinality(Alive') \in Nat /\ Cardinality(Alive') <= Cardinality(Alive)
  PROVE  ListenerTypes'
<1>1. checking \in Nat /\ resetting \in Nat /\ Running <= MaxListeners
  BY DEF ListenerTypes
<1>2. Running' <= MaxListeners
  BY <1>1, AliveType, ClientBounds DEF Running
<1> QED
  BY <1>1, <1>2 DEF ListenerTypes

LEMMA ListenerKeepsTypes ==
  ASSUME ListenInv, ListenerTypes, Len(chain) \in Nat, ListenerStep \/ ListenerFault
  PROVE  ListenerTypes'
<1> USE DEF historyVars, chainVars
<1>0. chain' = chain
  BY ListenerFrame
<1>t. torn \subseteq {"reset", "unapplied"} /\ dup_key_check \in BOOLEAN
  BY DEF ListenerTypes
<1>a. Cardinality(Alive) \in Nat
  BY AliveType
<1>1. ASSUME NEW l \in 1 .. MaxListeners, MissingBlocks(l) PROVE ListenerTypes'
  <2>1. UNCHANGED <<checking, resetting, dup_key_check, torn>> /\ listeners' = Stop(l)
    BY <1>1 DEF MissingBlocks
  <2> QED
    BY <1>0, <1>t, <2>1, StopTypes, ListenersTyped
<1>2. ASSUME NEW l \in 1 .. MaxListeners, SkipBlock(l) \/ LoseLog(l) PROVE ListenerTypes'
  <2>1. UNCHANGED <<checking, resetting, dup_key_check, torn>> /\ listeners' = Advance(l)
        /\ l \in Alive /\ Position(l) < Len(chain)
    BY <1>2 DEF SkipBlock, LoseLog, HasEvent
  <2>2. listeners' \in [1 .. MaxListeners -> ListenerAt(Len(chain))] /\ Alive' = Alive
    BY <2>1, AdvanceTypes
  <2> QED
    BY <1>0, <1>t, <1>a, <2>1, <2>2, ListenersTyped
<1>3. ASSUME NEW l \in 1 .. MaxListeners, ApplyBlock(l) PROVE ListenerTypes'
  <2>1. UNCHANGED <<checking, resetting, listeners, torn>> /\ dup_key_check' \in BOOLEAN
    BY <1>3 DEF ApplyBlock
  <2> QED
    BY <1>0, <2>1 DEF ListenerTypes, Running, Alive
<1>4. ASSUME NEW l \in 1 .. MaxListeners, MarkCommitments(l) PROVE ListenerTypes'
  BY <1>4, ListenersSame DEF MarkCommitments, listenerState
<1>5. ASSUME NEW l \in 1 .. MaxListeners, StoreReceived(l) PROVE ListenerTypes'
  <2>1. UNCHANGED <<checking, resetting, torn>> /\ dup_key_check' \in BOOLEAN /\ lock = l
        /\ (listeners' = Stop(l) \/ listeners' = Advance(l))
    BY <1>5 DEF StoreReceived, Release
  <2>2. Position(l) = expected - 1 /\ expected \in 1 .. Len(chain)
    BY <2>1 DEF ListenInv, Position
  <2>3. l \in Alive /\ Position(l) < Len(chain)
    BY <2>2 DEF Alive, Stopped, Position
  <2>4. CASE listeners' = Stop(l)
    BY <1>0, <1>t, <2>1, <2>4, StopTypes, ListenersTyped
  <2>5. CASE listeners' = Advance(l)
    <3>1. listeners' \in [1 .. MaxListeners -> ListenerAt(Len(chain))] /\ Alive' = Alive
      BY <2>3, <2>5, AdvanceTypes
    <3> QED
      BY <1>0, <1>t, <1>a, <2>1, <3>1, ListenersTyped
  <2> QED
    BY <2>1, <2>4, <2>5
<1>6. ASSUME NEW l \in 1 .. MaxListeners, ApplyFails(l) PROVE ListenerTypes'
  <2>1. UNCHANGED <<checking, resetting, dup_key_check>> /\ listeners' = Stop(l)
        /\ torn' = torn \cup {"unapplied"}
    BY <1>6 DEF ApplyFails
  <2> QED
    BY <1>0, <1>t, <2>1, StopTypes, ListenersTyped
<1>7. ASSUME NEW l \in 1 .. MaxListeners, StreamTerminated(l) PROVE ListenerTypes'
  <2>1. UNCHANGED <<checking, resetting, dup_key_check, torn>> /\ l \in Alive
    BY <1>7 DEF StreamTerminated
  <2>2. CASE listeners[l].attempts >= MaxAttempts
    <3>1. listeners' = Stop(l)
      BY <1>7, <2>2 DEF StreamTerminated
    <3> QED
      BY <1>0, <1>t, <2>1, <3>1, StopTypes, ListenersTyped
  <2>3. CASE ~(listeners[l].attempts >= MaxAttempts)
    <3> DEFINE here == [pos |-> 0, attempts |-> listeners[l].attempts + 1]
    <3>1. listeners' = [listeners EXCEPT ![l] = here]
      BY <1>7, <2>3 DEF StreamTerminated, ListenerTypes
    <3>2. listeners[l] \in ListenerAt(Len(chain))
      BY DEF ListenerTypes
    <3>3. here \in ListenerAt(Len(chain)) /\ here # Stopped
      BY <2>3, <3>2, ClientBounds DEF ListenerAt, Stopped
    <3> HIDE DEF here
    <3>4. listeners' \in [1 .. MaxListeners -> ListenerAt(Len(chain))]
      BY <3>1, <3>3 DEF ListenerTypes
    <3>5. Alive' = Alive
      BY <2>1, <3>1, <3>3, AliveMove DEF ListenerTypes
    <3> QED
      BY <1>0, <1>t, <1>a, <2>1, <3>4, <3>5, ListenersTyped
  <2> QED
    BY <2>2, <2>3
<1>8. CASE RestartChecks \/ RestartFails
  <2>1. UNCHANGED <<listeners, dup_key_check, torn>> /\ checking > 0 /\ checking' = checking - 1
        /\ (resetting' = resetting \/ resetting' = resetting + 1)
    BY <1>8 DEF RestartChecks, RestartFails
  <2>2. Alive' = Alive
    BY <2>1 DEF Alive
  <2>3. checking \in Nat /\ resetting \in Nat /\ Running <= MaxListeners
    BY DEF ListenerTypes
  <2>a. Cardinality(Alive') = Cardinality(Alive)
    BY <2>2
  <2>4. checking' \in Nat /\ resetting' \in Nat /\ Running' <= MaxListeners
    <3> DEFINE alive == Cardinality(Alive)
    <3>1. alive \in Nat /\ alive + checking + resetting <= MaxListeners
      BY <1>a, <2>3 DEF Running
    <3>2. Running' = alive + checking' + resetting'
      BY <2>a DEF Running
    <3> HIDE DEF alive
    <3> QED
      BY <2>1, <2>3, <3>1, <3>2, ClientBounds
  <2> QED
    BY <1>0, <2>1, <2>4 DEF ListenerTypes
<1>9. CASE RestartResets
  <2>1. PICK l \in (1 .. MaxListeners) \ Alive : listeners' = [listeners EXCEPT ![l] = Started]
    BY <1>9 DEF RestartResets
  <2>2. Cardinality(Alive') = Cardinality(Alive) + 1
    BY <2>1, AliveStart DEF ListenerTypes
  <2>3. UNCHANGED <<checking, dup_key_check>> /\ resetting > 0 /\ resetting' = resetting - 1
    BY <1>9 DEF RestartResets
  <2>4. torn' \subseteq {"reset", "unapplied"}
    BY <1>9, <1>t DEF RestartResets
  <2>5. Started \in ListenerAt(Len(chain))
    BY ClientBounds DEF Started, ListenerAt
  <2>6. listeners' \in [1 .. MaxListeners -> ListenerAt(Len(chain))]
    BY <2>1, <2>5 DEF ListenerTypes
  <2>7. checking \in Nat /\ resetting \in Nat /\ Running <= MaxListeners
    BY DEF ListenerTypes
  <2>8. checking' \in Nat /\ resetting' \in Nat /\ Running' <= MaxListeners
    BY <1>a, <2>2, <2>3, <2>7, ClientBounds DEF Running
  <2> QED
    BY <1>0, <1>t, <2>3, <2>4, <2>6, <2>8 DEF ListenerTypes
<1> QED
  BY <1>1, <1>2, <1>3, <1>4, <1>5, <1>6, <1>7, <1>8, <1>9 DEF ListenerStep, ListenerFault

\* The worker begins a restart task only while there is room for a listener.
LEMMA WorkerKeepsTypes ==
  ASSUME ListenerTypes, WorkerStep \/ StatusUnreadable
  PROVE  ListenerTypes'
<1>0. UNCHANGED <<chain, listeners, torn>>
  BY WorkerFrame
<1>1. CASE CheckStatus
  <2>1. UNCHANGED <<resetting, dup_key_check>>
        /\ \/ checking' = checking
           \/ checking' = checking + 1 /\ Cardinality(Alive) + checking + resetting < MaxListeners
    BY <1>1 DEF CheckStatus
  <2>2. Alive' = Alive
    BY <1>0 DEF Alive
  <2> QED
    BY <1>0, <2>1, <2>2, AliveType, ClientBounds DEF ListenerTypes, Running
<1>2. CASE ~CheckStatus
  <2>1. CASE Sleep \/ TakeRequest \/ Escrow \/ EscrowPanics \/ RecordDeposit \/ SelectValue
             \/ MarkValue \/ SelectFee \/ MarkFee \/ Report \/ Finish \/ StatusUnreadable
    BY <1>0, <2>1, ListenersSame DEF Sleep, TakeRequest, Escrow, EscrowPanics, RecordDeposit,
       SelectValue, MarkValue, SelectFee, MarkFee, Report, Finish, StatusUnreadable,
       listenVars, listenerState
  <2>2. ASSUME NEW mined \in BOOLEAN, EscrowFails(mined) PROVE ListenerTypes'
    BY <1>0, <2>2, ListenersSame DEF EscrowFails, listenVars, listenerState
  <2>3. ASSUME NEW ok \in BOOLEAN, Prove(ok) PROVE ListenerTypes'
    BY <1>0, <2>3, ListenersSame DEF Prove, listenVars, listenerState
  <2>4. ASSUME NEW delivered \in BOOLEAN, NEW end \in Results,
               process_transaction_offchain(delivered, end)
        PROVE  ListenerTypes'
    BY <1>0, <2>4, ListenersSame DEF process_transaction_offchain, listenVars, listenerState
  <2> QED
    BY <1>2, <2>1, <2>2, <2>3, <2>4 DEF WorkerStep
<1> QED
  BY <1>1, <1>2

LEMMA InitTypes == Init => ListenerTypes
<1> SUFFICES ASSUME Init PROVE ListenerTypes
  OBVIOUS
<1>1. /\ chain = <<>> /\ dup_key_check = FALSE /\ checking = 0 /\ resetting = 0 /\ torn = {}
      /\ listeners = [l \in 1 .. MaxListeners |-> IF l = 1 THEN Started ELSE Stopped]
  BY DEF Init
<1>2. Started \in ListenerAt(0) /\ Stopped \in ListenerAt(0) /\ Len(chain) = 0
  BY <1>1, ClientBounds DEF Started, Stopped, ListenerAt
<1>3. Cardinality(Alive) = 1
  BY <1>1, OneAlive DEF Alive
<1>4. Running <= MaxListeners
  BY <1>1, <1>3, ClientBounds DEF Running
<1>5. listeners \in [1 .. MaxListeners -> ListenerAt(Len(chain))]
  BY <1>1, <1>2
<1> QED
  BY <1>1, <1>4, <1>5 DEF ListenerTypes

LEMMA NextTypes ==
  ASSUME ListenInv, ListenerTypes, NEW S, chain \in Seq(S), [Next]_vars
  PROVE  ListenerTypes'
<1>0. Len(chain) \in Nat
  OBVIOUS
<1>1. ASSUME NEW block \in SUBSET pool, ProposeBlock(block) PROVE ListenerTypes'
  <2>1. UNCHANGED <<listeners, dup_key_check, checking, resetting, torn>>
    BY <1>1 DEF ProposeBlock, listenVars, historyVars
  <2>2. chain' = Append(chain, block)
    BY <1>1 DEF ProposeBlock
  <2>3. Len(chain') = Len(chain) + 1
    BY <2>2, ChainGrows
  <2>4. ListenerAt(Len(chain)) \subseteq ListenerAt(Len(chain'))
    BY <1>0, <2>3 DEF ListenerAt
  <2>5. listeners \in [1 .. MaxListeners -> ListenerAt(Len(chain'))]
    BY <2>4 DEF ListenerTypes
  <2> QED
    BY <2>1, <2>5 DEF ListenerTypes, Running, Alive
<1>2. CASE ListenerFault \/ ListenerStep
  BY <1>0, <1>2, ListenerKeepsTypes
<1>3. CASE StatusUnreadable \/ WorkerStep
  BY <1>3, WorkerKeepsTypes
<1>4. CASE Crash
  <2>1. /\ chain' = chain /\ dup_key_check' = FALSE /\ checking' = 0 /\ resetting' = 0
        /\ torn' = {}
        /\ listeners' = [l \in 1 .. MaxListeners |-> IF l = 1 THEN Started ELSE Stopped]
    BY <1>4 DEF Crash, Boot, chainVars
  <2>2. Started \in ListenerAt(Len(chain)) /\ Stopped \in ListenerAt(Len(chain))
    BY <1>0, ClientBounds DEF Started, Stopped, ListenerAt
  <2>3. Cardinality(Alive') = 1
    BY <2>1, OneAlive DEF Alive
  <2>4. Running' <= MaxListeners
    BY <2>1, <2>3, ClientBounds DEF Running
  <2>5. listeners' \in [1 .. MaxListeners -> ListenerAt(Len(chain))]
    BY <2>1, <2>2
  <2> QED
    BY <2>1, <2>4, <2>5 DEF ListenerTypes
<1>5. CASE Rest
  BY <1>5, RestFrame, ListenersSame DEF listenerState, Rest, queue_request, StoreQueued,
     listenVars
<1>6. CASE UNCHANGED vars
  BY <1>6, ListenersSame DEF vars, listenerState, chainVars, listenVars, historyVars
<1> QED
  BY <1>1, <1>2, <1>3, <1>4, <1>5, <1>6 DEF Next, Environment

\* The types that follow from the tree's order and from the lock's holder.
LEMMA AllTypes ==
  ASSUME ClientInv, ClientTypes
  PROVE  TypeOK
<1>1. QueueInv /\ ListenInv /\ ChainInv /\ TreeInv /\ EntryInv
  BY DEF ClientInv, LedgerInv
<1>2. Len(chain) \in Nat /\ expected \in 0 .. Len(chain)
  BY <1>1 DEF ChainInv, TxTypes, ListenInv
<1>3. tree \in Seq(1 .. Len(chain))
  <2>1. tree \in Seq(Nat \ {0})
    BY <1>1 DEF TreeInv, TreeTypes
  <2>2. \A i \in 1 .. Len(tree) : tree[i] \in Nat \ {0} /\ tree[i] <= expected
    BY <1>1, <2>1 DEF TreeInv, TreeFollowsTheChain
  <2>3. \A i \in 1 .. Len(tree) : tree[i] \in 1 .. Len(chain)
    BY <1>2, <2>2
  <2> QED
    BY <2>1, <2>3, SeqDef
<1>4. \A c \in DOMAIN commitments :
        commitments[c] \in [token : {"token", "fee"}, value : Nat \ {0}, status : Statuses]
  BY <1>1 DEF EntryInv, Stored
<1>5. requests \in [Requests -> {"none", "Queued", "Processing", "Confirmed"} \cup Results]
      /\ mappings \subseteq Requests /\ Len(queue) <= MaxQueue /\ storing \subseteq received
  BY DEF ClientTypes, RequestTypes, Requested
<1>6. queue \in Seq(Requests) /\ received \subseteq Requests /\ worker.at \in Places
  BY <1>1 DEF QueueInv
<1>7. \A l \in 1 .. MaxListeners : /\ listeners[l].pos \in -1 .. Len(chain)
                                   /\ listeners[l].attempts \in 0 .. MaxAttempts
  BY DEF ClientTypes, ListenerTypes, ListenerAt
<1>8. lock \in {0} \cup Alive /\ phase \in {"none", "appended", "marked"}
  <2>1. ASSUME lock # 0 PROVE lock \in Alive /\ phase \in {"appended", "marked"}
    <3>1. lock \in 1 .. MaxListeners /\ listeners[lock].pos = expected - 1 /\ expected > 0
          /\ phase \in {"appended", "marked"}
      BY <1>1, <2>1 DEF ListenInv
    <3>2. listeners[lock] # Stopped
      BY <1>2, <3>1 DEF Stopped
    <3> QED
      BY <3>1, <3>2 DEF Alive
  <2> QED
    BY <1>1, <2>1 DEF ListenInv
<1>9. /\ dup_key_check \in BOOLEAN /\ torn \subseteq {"reset", "unapplied"}
      /\ Cardinality(Alive) + checking + resetting <= MaxListeners
  BY DEF ClientTypes, ListenerTypes, Running
<1>10. Len(chain) <= MaxBlocks
  BY DEF ClientTypes
<1> QED
  BY <1>2, <1>3, <1>4, <1>5, <1>6, <1>7, <1>8, <1>9, <1>10 DEF TypeOK

LEMMA ChainIsBounded ==
  ASSUME ChainInv, Len(chain) <= MaxBlocks, [Next]_vars
  PROVE  Len(chain') <= MaxBlocks
<1>1. ASSUME NEW block \in SUBSET pool, ProposeBlock(block) PROVE Len(chain') <= MaxBlocks
  <2>1. Len(chain) < MaxBlocks /\ chain' = Append(chain, block)
    BY <1>1 DEF ProposeBlock
  <2>2. Len(chain') = Len(chain) + 1 /\ Len(chain) \in Nat
    BY <2>1, ChainGrows DEF ChainInv, TxTypes
  <2> QED
    BY <2>1, <2>2, ClientBounds
<1>2. CASE ListenerFault \/ ListenerStep
  BY <1>2, ListenerFrame
<1>3. CASE StatusUnreadable \/ WorkerStep
  BY <1>3, WorkerFrame
<1>4. CASE Crash \/ Rest \/ UNCHANGED vars
  BY <1>4, RestFrame DEF Crash, vars, chainVars
<1> QED
  BY <1>1, <1>2, <1>3, <1>4 DEF Next, Environment

\* Whatever crashes, ends or is retried, the client's state has its types: no
\* more listeners run or are being started than there is room for, none is
\* ahead of the chain or tries more often than max_event_listener_attempts,
\* the lock on the counter is held by one that runs, the queue keeps to
\* max_queue_size, and every status stored is one of those there are.
THEOREM ClientTypeCorrect == Spec => []TypeOK
<1>1. Init => ClientTypes
  <2> SUFFICES ASSUME Init PROVE ClientTypes
    OBVIOUS
  <2>1. Len(chain) <= MaxBlocks
    BY ClientBounds DEF Init
  <2> QED
    BY <2>1, InitRequests, InitTypes DEF ClientTypes
<1>2. ClientInv /\ ClientTypes /\ [Next]_vars => ClientTypes'
  <2> SUFFICES ASSUME ClientInv, ClientTypes, [Next]_vars PROVE ClientTypes'
    OBVIOUS
  <2>1. QueueInv /\ ListenInv /\ ChainInv
    BY DEF ClientInv, LedgerInv
  <2>2. chain \in Seq(SUBSET Transaction)
    BY <2>1 DEF ChainInv, TxTypes
  <2>3. RequestTypes /\ ListenerTypes /\ Len(chain) <= MaxBlocks
    BY DEF ClientTypes
  <2> QED
    BY <2>1, <2>2, <2>3, NextRequests, NextTypes, ChainIsBounded DEF ClientTypes
<1>3. ClientInv /\ ClientTypes => TypeOK
  BY AllTypes
<1> QED
  BY <1>1, <1>2, <1>3, ClientCorrect, PTL DEF Spec

=============================================================================
