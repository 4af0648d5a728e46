------------------------------- MODULE Client -------------------------------
(***************************************************************************)
(* One client: its REST interface, its queue worker and its event          *)
(* listeners, interleaved with each other and with the chain.              *)
(***************************************************************************)
EXTENDS ClientListener, ClientRequests

Environment ==
  \/ \E block \in SUBSET pool : ProposeBlock(block)
  \/ ListenerFault
  \/ StatusUnreadable
  \/ Crash

Rest == \E r \in Requests : queue_request(r) \/ StoreQueued(r)

Next ==
  \/ Environment
  \/ Rest
  \/ ListenerStep
  \/ WorkerStep

Spec == Init /\ [][Next]_vars

\* The listeners and the worker are tokio tasks that run whenever they can.
\* Nothing is assumed of the chain, of users, or of the proposers' answers.
FairSpec ==
  /\ Spec
  /\ WF_vars(ListenerStep)
  /\ WF_vars(WorkerStep)

-----------------------------------------------------------------------------
(* Properties *)

Statuses == {"PendingCreation", "Unspent", "PendingSpend", "Spent"}
Places == {"top", "drain", "escrow", "record", "select", "mark", "selectFee", "markFee",
           "prove", "send", "report", "finish", "dead"}

TypeOK ==
  /\ Len(chain) <= MaxBlocks
  /\ \A c \in DOMAIN commitments :
       commitments[c] \in [token : {"token", "fee"}, value : Nat \ {0}, status : Statuses]
  /\ requests \in [Requests -> {"none", "Queued", "Processing", "Confirmed"} \cup Results]
  /\ mappings \subseteq Requests
  /\ tree \in Seq(1 .. Len(chain))
  /\ expected \in 0 .. Len(chain)
  /\ \A l \in 1 .. MaxListeners : /\ listeners[l].pos \in -1 .. Len(chain)
                                  /\ listeners[l].attempts \in 0 .. MaxAttempts
  /\ lock \in {0} \cup Alive
  /\ phase \in {"none", "appended", "marked"} /\ dup_key_check \in BOOLEAN
  /\ Cardinality(Alive) + checking + resetting <= MaxListeners
  /\ queue \in Seq(Requests) /\ Len(queue) <= MaxQueue
  /\ storing \subseteq received /\ received \subseteq Requests
  /\ worker.at \in Places
  /\ torn \subseteq {"reset", "unapplied"}

\* The tree never holds a block twice or out of order, though several
\* listeners deliver the same blocks; and it holds every block counted in
\* expected unless a restart has emptied it or a block could not be applied.
TreeFollowsTheChain ==
  /\ \A i, j \in DOMAIN tree : i < j => tree[i] < tree[j]
  /\ \A i \in DOMAIN tree : tree[i] <= expected
  /\ torn = {} => Len(tree) = expected

\* Blocks whose commitments have been marked, and blocks done with.
MarkedUpTo == IF phase = "appended" THEN expected - 1 ELSE expected
DoneUpTo == IF lock # 0 THEN expected - 1 ELSE expected

\* What the client offers as spendable, and counts in its balance, is on
\* chain and not spent in any block it has applied, through crashes and
\* replays, unless a block was counted that could not be applied.
SpendableIsUnspentOnChain ==
  \A c \in DOMAIN commitments :
    commitments[c].status = "Unspent" =>
      /\ c \in OnChain(Len(chain))
      /\ "unapplied" \notin torn => c \notin Nullified(MarkedUpTo)

\* Nothing the client receives is forgotten: change it stored before sending
\* is credited by the block that holds it, and so is what others send.
ProcessedBlocksAreCredited ==
  "unapplied" \notin torn =>
    /\ \A c \in DOMAIN commitments \cap OnChain(MarkedUpTo) :
         commitments[c].status = "PendingCreation" => Req[c[1]].kind = "deposit"
    /\ \A n \in 1 .. DoneUpTo : Decrypted(chain[n]) \subseteq DOMAIN commitments
    /\ \A n \in 1 .. Len(chain), t \in UNION {chain[k] : k \in 1 .. Len(chain)} :
         t \in chain[n] /\ t.id \in Requests =>
           {c \in t.outputs : c[2] \in {2, 4}} \subseteq DOMAIN commitments

\* As long as the client does not crash, no two transactions it has sent
\* spend the same commitment, in whatever order they reach the chain.
NoDoubleSelection ==
  crashes = 0 =>
    \A t, u \in pool \cup UNION {chain[n] : n \in DOMAIN chain} :
      t # u => t.spends \cap u.spends = {}

\* As long as the worker is alive the client ends up having seen every block:
\* a listener that died over a lost block or a refused document is replaced.
CatchesUp == <>[]At("dead") \/ <>[](expected = Len(chain))

\* Every request in the queue is taken from it, unless the worker has died.
RequestsAreTaken ==
  \A r \in Requests :
    (\E i \in DOMAIN queue : queue[i] = r) ~>
      (At("dead") \/ ~\E i \in DOMAIN queue : queue[i] = r)

=============================================================================
