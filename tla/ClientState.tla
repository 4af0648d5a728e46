----------------------------- MODULE ClientState -----------------------------
(***************************************************************************)
(* A Nightfall client: what it keeps in memory and in MongoDB, and the     *)
(* chain and proposers as it sees them.                                    *)
(*                                                                         *)
(* A commitment is named <<r, i>>, the i-th output of request r; names are *)
(* distinct because salts and deposit secrets are random.  Others'         *)
(* transfers to this client are the members of Incoming, with one output.  *)
(***************************************************************************)
EXTENDS Integers, Sequences, FiniteSets, FiniteSetsExt, CommitmentSelection

CONSTANTS
  Requests,      \* requests the client receives, each with its own X-Request-ID
  Req,           \* Req[r] = [kind, value, fee, deposit_fee]
  Incoming,      \* transfers others make to this client
  Sent,          \* Sent[i] = [token, value] of the commitment each of them carries
  MaxQueue,      \* max_queue_size
  MaxAttempts,   \* max_event_listener_attempts
  MaxBlocks,     \* bound: blocks ever proposed
  MaxListeners,  \* bound: listeners alive or being started at once
  MaxFaults,     \* bound: lost logs and ended streams
  MaxCrashes     \* bound: crashes of the client process

Kinds == {"deposit", "transfer", "withdraw"}

ASSUME RequestAssumption ==
  /\ Req \in [Requests -> [kind : Kinds, value : Nat \ {0}, fee : Nat, deposit_fee : Nat]]
  /\ Sent \in [Incoming -> [token : {"token", "fee"}, value : Nat \ {0}]]
  /\ IsFiniteSet(Requests) /\ IsFiniteSet(Incoming)
  /\ Requests \cap Incoming = {}
  /\ \A r, s \in Requests, i \in {1, 2} : r # <<s, i>>   \* no request is named as a commitment

ASSUME ClientBounds ==
  /\ MaxQueue \in Nat \ {0} /\ MaxAttempts \in Nat \ {0} /\ MaxListeners \in Nat \ {0}
  /\ MaxBlocks \in Nat /\ MaxFaults \in Nat /\ MaxCrashes \in Nat

VARIABLES
  (* Outside the client *)
  chain,        \* the blocks on chain; block n of the code is chain[n + 1]
  pool,         \* escrowed deposits and transactions that proposers hold
  (* MongoDB *)
  commitments,  \* the commitments collection: name -> [token, value, status]
  requests,     \* the first document of each request, the one find and update reach
  mappings,     \* requests whose outputs are in request_commitment_mappings
  tree,         \* the commitment tree: numbers of the blocks appended to it
  (* The event listeners *)
  expected,     \* get_expected_layer2_blocknumber
  listeners,    \* listeners[l] = [pos, attempts] of a running listener, or Stopped
  lock,         \* the listener that holds the lock on expected, or 0
  phase,        \* how far it is with its block
  dup_key_check,\* whether it refuses to store a commitment twice
  checking,     \* restart tasks that have not looked at the status yet
  resetting,    \* restart tasks that have
  (* The request queue *)
  received,     \* requests the REST interface has accepted
  queue,        \* get_queue
  storing,      \* requests pushed on the queue but not yet stored
  worker,       \* process_queue and the handler it is in
  (* What happened *)
  torn,         \* why a block counted in expected may be missing from the tree
  crashes, faults

chainVars == <<chain, pool>>
dbVars == <<commitments, requests, mappings, tree>>
listenVars == <<expected, listeners, lock, phase, dup_key_check, checking, resetting>>
queueVars == <<received, queue, storing, worker>>
historyVars == <<torn, crashes, faults>>

vars == <<chainVars, dbVars, listenVars, queueVars, historyVars>>

-----------------------------------------------------------------------------
(* Transactions and blocks *)

\* The tokens of a request's four outputs: value, change, fee, fee change.
OutputToken == <<"token", "token", "fee", "fee">>

\* A transaction on its way to the chain or on it: its non-zero commitments,
\* what it spends, and whose secrets it carries for this client.
Tx(id, outputs, spends, ours) ==
  [id |-> id, outputs |-> outputs, spends |-> spends, ours |-> ours]

IncomingTx(i) == Tx(i, {<<i, 1>>}, {}, {<<i, 1>>})

Outputs(block) == UNION {t.outputs : t \in block}
Spends(block) == UNION {t.spends : t \in block}
Decrypted(block) == UNION {t.ours : t \in block}

OnChain(n) == UNION {Outputs(chain[i]) : i \in 1 .. n}
Nullified(n) == UNION {Spends(chain[i]) : i \in 1 .. n}

\* The commitment tree has a root the chain knows, so a proof on it is accepted.
RootIsKnown(t) == t # <<>> /\ Len(t) <= Len(chain) /\ \A i \in DOMAIN t : t[i] = i

InTree(c) == \E i \in DOMAIN tree : c \in Outputs(chain[tree[i]])

\* Mutant: being one block behind goes unnoticed.
FarBehind == expected + 1 < Len(chain)

\* get_synchronisation_status, which takes the lock on expected.  No block
\* with number expected is stored when expected is the chain's number.
Desynchronized == expected < Len(chain)

-----------------------------------------------------------------------------
(* The collections *)

Entry(token, value, status) == [token |-> token, value |-> value, status |-> status]

\* A filter on _id or nullifier reaches the documents that exist.
SetStatus(names, status) ==
  [c \in DOMAIN commitments |->
     IF c \in names THEN [commitments[c] EXCEPT !.status = status] ELSE commitments[c]]

\* store_request inserts one more document; only the first is ever seen.
store_request(reqs, r) == IF reqs[r] = "none" THEN [reqs EXCEPT ![r] = "Queued"] ELSE reqs

\* update_request changes nothing when there is no document.
update_request(reqs, rs, status) ==
  [r \in Requests |-> IF r \in rs /\ reqs[r] # "none" THEN status ELSE reqs[r]]

get_available_commitments(token) ==
  {[key |-> c, value |-> commitments[c].value] :
     c \in {d \in DOMAIN commitments :
              commitments[d].token = token /\ commitments[d].status = "Unspent"}}

-----------------------------------------------------------------------------
(* The process starts: the tree and the requests are dropped, commitments  *)
(* and mappings are kept.                                                  *)

Stopped == [pos |-> -1, attempts |-> 0]
Started == [pos |-> 0, attempts |-> 1]
Alive == {l \in 1 .. MaxListeners : listeners[l] # Stopped}

Idle == [at |-> "top", r |-> <<>>, spend |-> <<>>, fees |-> <<>>, known |-> FALSE,
         result |-> "none"]

Boot ==
  /\ requests' = [r \in Requests |-> "none"]
  /\ tree' = <<>>
  /\ expected' = 0
  /\ listeners' = [l \in 1 .. MaxListeners |-> IF l = 1 THEN Started ELSE Stopped]
  /\ lock' = 0 /\ phase' = "none" /\ dup_key_check' = FALSE
  /\ checking' = 0 /\ resetting' = 0
  /\ queue' = <<>> /\ storing' = {} /\ worker' = Idle

Init ==
  /\ chain = <<>> /\ pool = {IncomingTx(i) : i \in Incoming}
  /\ commitments = <<>> /\ mappings = {}
  /\ requests = [r \in Requests |-> "none"]
  /\ tree = <<>>
  /\ expected = 0
  /\ listeners = [l \in 1 .. MaxListeners |-> IF l = 1 THEN Started ELSE Stopped]
  /\ lock = 0 /\ phase = "none" /\ dup_key_check = FALSE
  /\ checking = 0 /\ resetting = 0
  /\ received = {} /\ queue = <<>> /\ storing = {} /\ worker = Idle
  /\ torn = {} /\ crashes = 0 /\ faults = 0

Crash ==
  /\ crashes < MaxCrashes
  /\ crashes' = crashes + 1
  /\ Boot
  /\ torn' = {}
  /\ UNCHANGED <<chainVars, commitments, mappings, received, faults>>

\* A proposer puts transactions in a block; the contract and the circuits let
\* no commitment be spent twice, nor before a root that holds it is on chain.
ProposeBlock(block) ==
  /\ Len(chain) < MaxBlocks
  /\ block # {} /\ block \subseteq pool
  /\ \A t \in block : t.spends \cap Nullified(Len(chain)) = {}
  /\ \A t, u \in block : t # u => t.spends \cap u.spends = {}
  /\ chain' = Append(chain, block)
  /\ pool' = pool \ block
  /\ UNCHANGED <<dbVars, listenVars, queueVars, historyVars>>

=============================================================================
