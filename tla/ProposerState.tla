---------------------------- MODULE ProposerState ----------------------------
(***************************************************************************)
(* The state of one proposer (nightfall_proposer) and the chain it follows. *)
(*                                                                         *)
(* The proposer runs three tasks over a shared database: the event         *)
(* listener (module EventListener), the REST server, which takes client    *)
(* transactions in, and the block assembler with its finality checker      *)
(* (module BlockAssembly).  The chain is the environment: the Nightfall    *)
(* contract, another proposer and the turns that RoundRobin hands out.     *)
(*                                                                         *)
(* A block's data is the bag of deposits and the bag of client             *)
(* transactions in it; the order inside a block is not kept.               *)
(***************************************************************************)
EXTENDS Integers, Sequences, FiniteSetsExt

CONSTANTS
  Deposits,     \* deposits, each escrowed at most once
  Txs,          \* client transactions (transfers and withdraws)
  NullifierOf,  \* the nullifier a transaction spends
  Bare,         \* the withdraws that make no commitment: no change, no fee
  BLOCK_SIZE,   \* entries in a block: 64, 256 or 1024 in the code
  GROUP,        \* deposits in one entry: 4 in the code
  MaxAttempts,  \* max_event_listener_attempts, at least 1
  MaxSends,     \* bound on how often a client sends one transaction
  MaxFaults     \* bound on logs lost and on subscriptions that fail or end

ASSUME ProposerAssumption ==
  /\ IsFiniteSet(Deposits) /\ IsFiniteSet(Txs)
  /\ Bare \subseteq Txs
  /\ BLOCK_SIZE \in Nat \ {0} /\ GROUP \in Nat \ {0} /\ MaxAttempts \in Nat \ {0}
  /\ MaxSends \in Nat /\ MaxFaults \in Nat

VARIABLES
  log,            \* the contract's events, oldest first
  ourTurn,        \* get_current_proposer_address() is this proposer
  attempts,       \* `attempts` of each nested start_event_listener
  listener,       \* what the event listener is about to do
  pos,            \* events that the current subscription has delivered
  expected,       \* LAYER2_BLOCKNUMBER, the next block number expected
  synchronised,   \* SYNCHRONISATION_STATUS
  leaves,         \* commitment tree: the commitments of each batch inserted
  nullifiers,     \* nullifier tree
  roots,          \* historic root tree: n is the root that block n - 1 made
  stored,         \* the collection of StoredBlock documents
  deposits,       \* mempool deposits, a bag
  transactions,   \* client transactions with in_mempool, a bag
  checked,        \* transactions checked by the REST server and not stored yet
  running,        \* BlockAssemblyStatus
  assembler,      \* what the assembly loop is about to do
  assembled,      \* the block it is about to queue
  pending_blocks, \* blocks queued for the finality checker
  draining,       \* blocks it has taken out; it holds the queue's lock meanwhile
  sent, faults,   \* how often each bounded event has happened
  lost,           \* history variable: the last block event that the current
                  \* subscription lost, as a position in log, or 0
  faulty          \* a block was lost, or one of ours failed or was refused

chainVars    == <<log, ourTurn>>
listenerVars == <<attempts, listener, pos, expected, faults, lost>>
treeVars     == <<leaves, nullifiers, roots>>
mempoolVars  == <<deposits, transactions>>
intakeVars   == <<checked, sent>>
assemblyVars == <<running, assembler, assembled, pending_blocks, draining>>
vars == <<chainVars, listenerVars, treeVars, mempoolVars, intakeVars, assemblyVars,
          synchronised, stored, faulty>>

Us == "us"
Other == "other"
Nowhere == -1

NoDeposits == [d \in Deposits |-> 0]
NoTxs == [t \in Txs |-> 0]
Count(bag) == MapThenSumSet(LAMBDA x : bag[x], DOMAIN bag)
Support(bag) == {x \in DOMAIN bag : bag[x] > 0}
Once(S, T) == [x \in S |-> IF x \in T THEN 1 ELSE 0]

\* A proposed block.  `onto` is the number of L2 blocks whose trees it was
\* computed on, or Nowhere if the proposer's trees were no state of the chain.
Block == [by : {Us, Other}, deps : [Deposits -> Nat], txs : [Txs -> Nat],
          onto : Nat \cup {Nowhere}]
NoBlock == [by |-> Us, deps |-> NoDeposits, txs |-> NoTxs, onto |-> Nowhere]

DepositEscrowed(d) == [kind |-> "deposit", deposit |-> d]
BlockProposed(b) == [kind |-> "block", block |-> b]

\* The commitments of a block, which are also what a StoredBlock is hashed on.
Commitments(b) == [deps |-> b.deps, txs |-> [t \in Txs |-> IF t \in Bare THEN 0 ELSE b.txs[t]]]
Nullifiers(b) == {NullifierOf[t] : t \in Support(b.txs)}

\* The blocks among the first n events, the contract's count of blocks, and
\* the blocks.
BlocksIn(n) == Cardinality({i \in 1 .. n : log[i].kind = "block"})

layer2_block_number == BlocksIn(Len(log))

EventOf(n) == CHOOSE i \in 1 .. Len(log) : log[i].kind = "block" /\ BlocksIn(i) = n

Blocks == [n \in 1 .. layer2_block_number |-> log[EventOf(n)].block]
Escrowed == {log[i].deposit : i \in {j \in DOMAIN log : log[j].kind = "deposit"}}

\* What the contract and its nullifier root have taken.
BlockEvents == {i \in DOMAIN log : log[i].kind = "block"}
Redeemed == UNION {Support(log[i].block.deps) : i \in BlockEvents}
SpentOnChain == UNION {Nullifiers(log[i].block) : i \in BlockEvents}

\* The trees that the contract's roots stand for after n blocks.
ChainLeaves(n) == LET blocks == Blocks IN [i \in 1 .. n |-> Commitments(blocks[i])]
ChainNullifiers(n) == LET blocks == Blocks IN UNION {Nullifiers(blocks[i]) : i \in 1 .. n}
ChainRoots(n) == [i \in 1 .. n + 1 |-> i - 1]

TreesAreAt(n) ==
  /\ Len(roots) = n + 1 /\ n \in 0 .. layer2_block_number
  /\ leaves = ChainLeaves(n) /\ nullifiers = ChainNullifiers(n) /\ roots = ChainRoots(n)

\* The transactions spend commitments of the first block.
SpendRoot == 1

Init ==
  /\ log = <<>> /\ ourTurn \in BOOLEAN
  /\ attempts = <<0>> /\ listener = "retry" /\ pos = 0 /\ expected = 0
  /\ synchronised = FALSE
  /\ leaves = <<>> /\ nullifiers = {} /\ roots = <<0>>
  /\ stored = <<>>
  /\ deposits = NoDeposits /\ transactions = NoTxs
  /\ checked = NoTxs /\ sent = NoTxs
  /\ running = TRUE /\ assembler = "waiting" /\ assembled = NoBlock
  /\ pending_blocks = <<>> /\ draining = <<>>
  /\ faults = 0 /\ lost = 0 /\ faulty = FALSE

-----------------------------------------------------------------------------
(* The chain *)

\* The conditions under which the contract accepts a block at the head.
Acceptable(b) ==
  /\ b.onto = layer2_block_number
  /\ \A d \in Support(b.deps) : b.deps[d] = 1 /\ d \in Escrowed \ Redeemed
  /\ \A t \in Support(b.txs) : b.txs[t] = 1
  /\ Nullifiers(b) \cap SpentOnChain = {}

EscrowDeposit(d) ==
  /\ d \notin Escrowed
  /\ log' = Append(log, DepositEscrowed(d))
  /\ UNCHANGED <<ourTurn, listenerVars, treeVars, mempoolVars, intakeVars, assemblyVars,
                 synchronised, stored, faulty>>

\* Another proposer has its turn and makes a correct block.
OtherProposes(D, T) ==
  LET b == [by |-> Other, deps |-> Once(Deposits, D), txs |-> Once(Txs, T), onto |-> layer2_block_number]
      spent == {NullifierOf[t] : t \in T}
  IN /\ ~ourTurn
     /\ D \cup T # {}
     /\ D \subseteq Escrowed \ Redeemed
     /\ T # {} => /\ Cardinality(spent) = Cardinality(T)
                  /\ spent \cap SpentOnChain = {}
                  /\ layer2_block_number >= SpendRoot
     /\ log' = Append(log, BlockProposed(b))
     /\ UNCHANGED <<ourTurn, listenerVars, treeVars, mempoolVars, intakeVars, assemblyVars,
                    synchronised, stored, faulty>>

PassTurn ==
  /\ ourTurn' = ~ourTurn
  /\ UNCHANGED <<log, listenerVars, treeVars, mempoolVars, intakeVars, assemblyVars,
                 synchronised, stored, faulty>>

=============================================================================
