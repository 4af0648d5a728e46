--------------------------- MODULE ClientRequests ---------------------------
(***************************************************************************)
(* The client's request queue and the handlers of its requests: queue.rs,  *)
(* client_nf_3.rs, client_operation.rs (REST and service).  One worker     *)
(* takes requests one at a time; at every database or network call a       *)
(* listener may run.                                                       *)
(***************************************************************************)
EXTENDS ClientState

\* Mutant: the queue takes one request more.
RoomForOneMore == Len(queue) <= MaxQueue

HasRoom == Len(queue) < MaxQueue

\* queue_request pushes the request first and stores it afterwards.
queue_request(r) ==
  /\ r \in Requests \ received
  /\ HasRoom
  /\ received' = received \cup {r}
  /\ queue' = Append(queue, r)
  /\ storing' = storing \cup {r}
  /\ UNCHANGED <<chainVars, dbVars, listenVars, worker, historyVars>>

StoreQueued(r) ==
  /\ r \in storing
  /\ storing' = storing \ {r}
  /\ requests' = store_request(requests, r)
  /\ UNCHANGED <<chainVars, commitments, mappings, tree, listenVars, received, queue, worker,
                 historyVars>>

-----------------------------------------------------------------------------
(* process_queue *)

At(place) == worker.at = place
GoTo(place) == worker' = [worker EXCEPT !.at = place]
Fail == worker' = [worker EXCEPT !.at = "finish", !.result = "Failed"]

\* A client that is behind starts one more restart task each time round.
CheckStatus ==
  /\ At("top") /\ lock = 0
  /\ checking' = IF /\ Desynchronized
                    /\ Cardinality(Alive) + checking + resetting < MaxListeners
                 THEN checking + 1 ELSE checking
  /\ GoTo("drain")
  /\ UNCHANGED <<chainVars, dbVars, expected, listeners, lock, phase, dup_key_check, resetting,
                 received, queue, storing, historyVars>>

\* The chain cannot be read: process_queue returns, for good.
StatusUnreadable ==
  /\ At("top") /\ lock = 0
  /\ faults < MaxFaults
  /\ faults' = faults + 1
  /\ GoTo("dead")
  /\ UNCHANGED <<chainVars, dbVars, listenVars, received, queue, storing, torn, crashes>>

Sleep ==
  /\ At("drain") /\ queue = <<>>
  /\ GoTo("top")
  /\ UNCHANGED <<chainVars, dbVars, listenVars, received, queue, storing, historyVars>>

\* Mutant: a request waits for the client to be synchronised.
WaitingInSync == queue # <<>> /\ ~Desynchronized

Waiting == queue # <<>>

\* The request is marked; the handlers of transfers and withdraws store it
\* once more, which shows only if it was not stored yet.
TakeRequest ==
  /\ At("drain") /\ Waiting
  /\ LET r == Head(queue)
         marked == update_request(requests, {r}, "Processing")
         deposit == Req[r].kind = "deposit"
     IN /\ worker' = [Idle EXCEPT !.at = IF deposit THEN "escrow" ELSE "select", !.r = r]
        /\ requests' = IF deposit THEN marked ELSE store_request(marked, r)
  /\ queue' = Tail(queue)
  /\ UNCHANGED <<chainVars, commitments, mappings, tree, listenVars, received, storing,
                 historyVars>>

Finish ==
  /\ At("finish")
  /\ requests' = update_request(requests, {worker.r},
                   IF worker.result = "Submitted" THEN "Submitted" ELSE "Failed")
  /\ worker' = [Idle EXCEPT !.at = "drain"]
  /\ UNCHANGED <<chainVars, commitments, mappings, tree, listenVars, received, queue, storing,
                 historyVars>>

-----------------------------------------------------------------------------
(* handle_deposit *)

\* The outputs of a deposit: its value and, if there is one, its deposit fee.
DepositEntries(r) ==
  [c \in {<<r, 1>>} \cup IF Req[r].deposit_fee > 0 THEN {<<r, 2>>} ELSE {} |->
     IF c = <<r, 1>> THEN Entry("token", Req[r].value, "PendingCreation")
     ELSE Entry("fee", Req[r].deposit_fee, "PendingCreation")]

DepositTxs(r) == {Tx(c, {c}, {}, {}) : c \in DOMAIN DepositEntries(r)}

Escrow ==
  /\ At("escrow")
  /\ pool' = pool \cup DepositTxs(worker.r)
  /\ GoTo("record")
  /\ UNCHANGED <<chain, dbVars, listenVars, received, queue, storing, historyVars>>

\* No approval, or no receipt, whether the call was mined or not.
EscrowFails(mined) ==
  /\ At("escrow")
  /\ pool' = IF mined THEN pool \cup DepositTxs(worker.r) ELSE pool
  /\ Fail
  /\ UNCHANGED <<chain, dbVars, listenVars, received, queue, storing, historyVars>>

\* The node refuses the call: an expect ends the worker's task for good.
EscrowPanics ==
  /\ At("escrow")
  /\ GoTo("dead")
  /\ UNCHANGED <<chainVars, dbVars, listenVars, received, queue, storing, historyVars>>

Insert(entries) ==
  commitments' = [c \in DOMAIN commitments \cup DOMAIN entries |->
                    IF c \in DOMAIN commitments THEN commitments[c] ELSE entries[c]]

\* The commitments are stored once the deposit is on its way.
RecordDeposit ==
  /\ At("record")
  /\ Insert(DepositEntries(worker.r))
  /\ mappings' = mappings \cup {worker.r}
  /\ worker' = [worker EXCEPT !.at = "finish", !.result = "Submitted"]
  /\ UNCHANGED <<chainVars, requests, tree, listenVars, received, queue, storing, historyVars>>

-----------------------------------------------------------------------------
(* handle_transfer and handle_withdraw: selecting what to spend *)

Keys(list) == {list[i].key : i \in DOMAIN list}

SelectFrom(token, amount, field, next) ==
  \E list \in Orders(get_available_commitments(token)) :
    LET chosen == UsableFrom(list, amount)
    IN IF chosen = <<>> THEN Fail
       ELSE worker' = [worker EXCEPT ![field] = chosen, !.at = next]

SelectValue ==
  /\ At("select")
  /\ SelectFrom("token", Req[worker.r].value, "spend", "mark")
  /\ UNCHANGED <<chainVars, dbVars, listenVars, received, queue, storing, historyVars>>

\* Mutant: what is selected stays available.
NotMarked(names) == commitments

MarkedPending(names) == SetStatus(names, "PendingSpend")

MarkValue ==
  /\ At("mark")
  /\ commitments' = MarkedPending(Keys(worker.spend))
  /\ GoTo(IF Req[worker.r].fee = 0 THEN "prove" ELSE "selectFee")
  /\ UNCHANGED <<chainVars, requests, mappings, tree, listenVars, received, queue, storing,
                 historyVars>>

\* A fee that cannot be paid leaves the value's commitments marked.
SelectFee ==
  /\ At("selectFee")
  /\ SelectFrom("fee", Req[worker.r].fee, "fees", "markFee")
  /\ UNCHANGED <<chainVars, dbVars, listenVars, received, queue, storing, historyVars>>

MarkFee ==
  /\ At("markFee")
  /\ commitments' = MarkedPending(Keys(worker.fees))
  /\ GoTo("prove")
  /\ UNCHANGED <<chainVars, requests, mappings, tree, listenVars, received, queue, storing,
                 historyVars>>

-----------------------------------------------------------------------------
(* handle_client_operation *)

Spent == Keys(worker.spend) \cup Keys(worker.fees)

\* The values of the four outputs.  A withdraw's first one is zero on chain.
OutputValue(r) ==
  <<Req[r].value, SumOf(worker.spend) - Req[r].value,
    Req[r].fee, SumOf(worker.fees) - Req[r].fee>>

OutputsOnChain(r) ==
  {<<r, i>> : i \in {j \in 1 .. 4 : /\ OutputValue(r)[j] > 0
                                    /\ ~(j = 1 /\ Req[r].kind = "withdraw")}}

\* Change for the client itself, stored before anything is sent.
ChangeEntries(r) ==
  [c \in {<<r, i>> : i \in {j \in {2, 4} : OutputValue(r)[j] > 0}} |->
     Entry(OutputToken[c[2]], OutputValue(r)[c[2]], "PendingCreation")]

\* Mutant: the change is not stored.
NoChange(r) == <<>>

StoredChange(r) == ChangeEntries(r)

\* client_operation finds a membership proof for everything it spends, or the
\* request fails; proving may fail as well.
Prove(ok) ==
  /\ At("prove")
  /\ Insert(StoredChange(worker.r))
  /\ mappings' = mappings \cup {worker.r}
  /\ ok => \A c \in Spent : InTree(c)
  /\ IF ok THEN worker' = [worker EXCEPT !.at = "send", !.known = RootIsKnown(tree)]
     ELSE Fail
  /\ UNCHANGED <<chainVars, requests, tree, listenVars, received, queue, storing, historyVars>>

\* send_to_proposer_with_retry, to every proposer.  A proposer takes only a
\* transaction on a root it knows.  One whose answer comes too late, or that
\* refuses the retry of what it already holds, has it all the same.
process_transaction_offchain(delivered, result) ==
  /\ At("send")
  /\ delivered => worker.known
  /\ result = "Submitted" => delivered
  /\ pool' = IF delivered
             THEN pool \cup {Tx(worker.r, OutputsOnChain(worker.r), Spent, {})}
             ELSE pool
  /\ worker' = [worker EXCEPT !.at = "report", !.result = result]
  /\ UNCHANGED <<chain, dbVars, listenVars, received, queue, storing, historyVars>>

Report ==
  /\ At("report")
  /\ requests' = update_request(requests, {worker.r}, worker.result)
  /\ GoTo("finish")
  /\ UNCHANGED <<chainVars, commitments, mappings, tree, listenVars, received, queue, storing,
                 historyVars>>

Results == {"Submitted", "ProposerUnreachable", "Failed"}

WorkerStep ==
  \/ CheckStatus
  \/ Sleep
  \/ TakeRequest
  \/ Escrow
  \/ \E mined \in BOOLEAN : EscrowFails(mined)
  \/ EscrowPanics
  \/ RecordDeposit
  \/ SelectValue
  \/ MarkValue
  \/ SelectFee
  \/ MarkFee
  \/ \E ok \in BOOLEAN : Prove(ok)
  \/ \E delivered \in BOOLEAN, result \in Results :
       process_transaction_offchain(delivered, result)
  \/ Report
  \/ Finish

=============================================================================
