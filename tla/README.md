# Verification of Nightfall_4

TLA+ models of Nightfall_4's contracts and of its off-chain processes, TLC runs
that check them on small instances, and TLAPS proofs for every value of the
constants. `PROJECT.json` maps every definition to the lines it models and lists
the runs, mutants, hazards, findings and theorems.

Nightfall_4 is a zero-knowledge rollup. Clients escrow tokens in a contract on
layer 1, hold them as commitments on layer 2, transfer and withdraw them; registered
proposers take turns to roll client transactions up into layer 2 blocks.

## 1. Inventory

| Part | State | Operations | Talks to |
|---|---|---|---|
| `RoundRobin.sol` | ring of proposers in a mapping, storage copy `current`, URLs, stakes, `escrow`, pending withdrawals, start of the turn | bootstrap, add, remove, rotate (with fine or expulsion), withdraw | asked by Nightfall and by every proposer and client whose turn it is |
| `Nightfall.sol` | fee bindings of deposits, withdrawal flags, block number, tree roots, ether and tokens held | `escrow_funds`, `propose_block`, `descrow_funds` | emits `DepositEscrowed`, `BlockProposed`; calls RoundRobin, X509, the verifier, token contracts |
| X509, Allowlist, `validate_certificate.rs` | trusted keys, key of an address and address of a key, expiry, revocation, policies, usages, allowlist | validate an intermediate or an end user, revoke in two ways, the owner's lists | guards most calls of the two above; enrolled through a REST handler that first dry-runs |
| Proposer event listener | next block number expected, synchronisation status, three trees, stored blocks | subscribe, handle a deposit, handle a block, restart | events in; shares database and status with the assembler |
| Proposer intake (REST) | mempool of client transactions | check, store | called by clients, with retries |
| Proposer assembler and finality checker | mempools, trees, stored blocks, queue of pending blocks | trigger, pause, resume, assemble, queue, propose | `propose_block` |
| Client requests | queue, request status | queue, process, retry | REST in, proposers out |
| Client commitment store | commitments and their status | reserve, mark spent or unspent, confirm | event listener, request handlers |
| Commitment selection | none | choose inputs for an amount | commitment store |
| Merkle trees (`lib`) | nodes, cache, indexed leaves | append, insert, membership and non-membership proofs | both databases |
| Client circuit, KEM-DEM, preimages | none | build and prove an operation, decrypt a received one | client requests, block handling of every client |
| Rollup circuits, deposit circuit, prover | none | collect paths and roots, prove, merge | block assembly, `propose_block` |
| Verifier contract | none | verify | `propose_block` |
| Deployer, configuration, bindings, tests | - | - | - |

What is hard, and what makes each part correct:

* **RoundRobin.** `current` is a *copy* of a mapping entry. Exits, fines and
  registrations change the entry and not always the copy. Correct: the books
  agree, the register of URLs and the count agree with the mapping, turns are not
  cut short, and proposers do take turns.
* **Nightfall.** A deposit is bound in one call and redeemed in another, a
  withdrawal flag is cleared, then a transfer is tried, then perhaps the flag is set
  back. The caller says what fee it binds, and the proposer which slots of a deposit
  transaction it fills. Correct: the contract owes exactly what it holds, of every token and
  of ether, but for the deposits it let in unchecked and the fees that were not paid.
* **Proposer.** Three tasks share a database, two locks and a status flag; a block of
  ours changes the trees when it is assembled and not when it is accepted; events are
  lost and replayed; a block may be refused after everything else has been done.
  Correct: when it says it is synchronised its trees are the chain's; it never puts a
  thing into two blocks; it notices gaps; nobody waits for ever.
* **Client.** Commitments are reserved before a proof is made and never released on
  failure; several listeners confirm or spend them concurrently; a crash keeps the
  commitments and drops the tree. Correct: what is offered as spendable is on chain and
  unspent, no commitment is put into two transactions, change and incoming
  transfers arrive, requests are taken and listeners replaced.
* **Trees.** A proposer inserts a block of its own leaf by leaf for the circuit and the
  blocks of others whole from the event; appends may be previews that live in a cache; a
  batch may be refused half way. Correct: every replica and the contract come to the same
  roots, what the assembler hands to the circuits satisfies them, and non-membership
  proofs exist exactly for what has not been inserted.
* **Operations.** Four input and four output slots, some empty, some holding a token of
  amount zero; the sender stores its change and the recipient has to find the rest by
  decrypting. Correct: what is selected can be proved, and every commitment that can be
  spent is held by exactly one client who can open it.
* **X509.** Two mappings kept in step by hand, trust that is recorded when it is
  established, fields found by counting DER elements, a date computed by hand, and an
  enrolment that runs after its check. Correct: bindings are one-to-one, trust is
  rooted, an enrolled address belongs to whoever has the key.

## 2. Modules

| Module | Models | Status |
|---|---|---|
| `RoundRobin` | `RoundRobin.sol`, one action per external call | done |
| `ProposerRing` | abstract: a queue whose head has the turn | done |
| `RoundRobinOrder` | the contract's list as that queue (refinement mapping) | done |
| `SumTheorems` | the laws of the finite sums the ledgers need, and TLAPS proofs about `CommitmentSelection` | done |
| `RoundRobinProofs` | TLAPS proofs about `RoundRobin` | done |
| `Nightfall` | `Nightfall.sol` and what an accepted rollup proof establishes | done |
| `NightfallProofs` | TLAPS proofs about `Nightfall` | done |
| `ProposerState` | the proposer's variables, the chain it follows | done |
| `EventListener` | `nightfall_event_listener.rs`, `nightfall_event.rs` | done |
| `BlockAssembly` | intake, trigger, `assemble_block.rs`, `block_assembly.rs` | done |
| `Proposer` | composition of the three, fairness, properties | done |
| `ProposerProofs` | TLAPS proofs about `Proposer` | done |
| `CommitmentSelection` | `commitment_selection.rs` as operators | done |
| `TransferCircuit` | preimages, nullifiers, KEM-DEM, the unified circuit and the deposit circuit as relations | done |
| `PrivateLedger` | operations of several clients on `TransferCircuit` and `CommitmentSelection`, and what blocks do to their wallets | done |
| `PrivateLedgerProofs` | TLAPS proofs about `PrivateLedger`, with the circuit and the selection it uses | done |
| `ClientState` | the client's variables, collections, start and crash | done |
| `ClientListener` | the client's `nightfall_event_listener.rs`, `nightfall_event.rs` | done |
| `ClientRequests` | `queue.rs`, `client_nf_3.rs`, both `client_operation.rs` | done |
| `Client` | composition of the three, fairness, properties | done |
| `ClientProofs` | TLAPS proofs about `Client` | done |
| `MutableTree` | `mutable.rs`, `append_only.rs`: nodes, cache, paths, frontier | done |
| `IndexedTree` | `indexed.rs`: linked leaves, batches, non-membership | done |
| `RollupCircuits` | what the base and merge circuits of `rollup_prover.rs` check | done |
| `Trees` | two proposers drive the three trees: assembly, events, resets | done |
| `TreesProofs` | TLAPS proofs about `Trees` and the insertions of `IndexedTree` | done |
| `DerParser` | `DerParser.sol` and the readers of `X509.sol`, over a tree of elements | done |
| `X509` | `X509.sol`, `Allowlist.sol`, the REST handler, one action per call | done |
| `Certification` | their composition with owner, authorities, users and time | done |
| `CertificationProofs` | TLAPS proofs about `Certification` | done |
| `MC*` | constants for TLC | done |

Still to come, in this order:

1. `Wallet`: an abstract wallet in which a commitment is created, reserved and spent
   once, implemented by `Client` while it does not crash.

### How state and actions correspond to the code

**RoundRobin.** One TLA+ variable per storage variable, plus `balance`,
`block` (block.number) and `l2` (Nightfall's block number). A call that reverts is no
step; Solidity's checked subtraction is a guard. `_remove_proposer` is split by what it
writes (`Unlinked`, `SelfLinked`, `Successor`, `Deregister`) so that the two calls that
use it share it. `rotate_proposer` is a disjunction of its three ways through.

**Nightfall.** Keys are the tuples that the contract hashes. Instead of three roots the
model keeps the ledger they stand for: unspent value per token and the nullifiers.
`verify_rollup_proof` is the conditions that the circuits enforce. Each used slot of a
deposit transaction is an entry of its own; `behind_padding` marks the ones behind an empty first
slot, which the contract skips with it (`Checked` are the others) while the circuits insert
their commitments all the same. A caller sends any ether with any fee: `MsgValue` is only what
this repository's client sends, and `RepositorySpec` is the contract when all callers are that
client and all blocks this proposer's (`Assembled`: no empty slot before a deposit). `known` is
`tokenIdMapping`; an included withdraw of a token it does not hold is paid in ether. `inserted` are
the deposits in the commitment tree, redeemed or not. `surplus` is a history variable:
ether received beyond what was bound, less ether paid for unknown tokens.

**Proposer.** One variable per piece of shared state. A tree is the sequence of batches
inserted into it, a root is the number of the block that made it, and
`onto` of a block records which state of the chain it was computed on (the
contract accepts only the head). One action per way out of a handler:
`process_propose_block_event` is `MissingBlocks`, `SkipBlock`, `BlockHashError`
and `AcceptBlock`. The lock on the synchronisation status is held from assembly until
the block is queued (`assembler = "push"`), the queue's lock while blocks are proposed
(`draining` not empty). Intake does not take either lock, so checking and storing are
two actions. `attempts` is a stack: a restart runs a new retry loop inside the old one.
A pause that arrives while a block is assembled is taken to arrive when the trigger is next awaited, where
the status is read. `faulty`, `lost`, `drops` and `sent` only record or bound what happened.

**Client.** A commitment is named by the request and output that make it; `tree` is the
sequence of blocks appended to the commitment tree. `listeners` holds every
listener task, since each status check that finds the client behind spawns one more. The
lock on the expected block number is held from the first check to the end of
`process_propose_block_event`, so counting a block and appending it are one step
(`ApplyBlock`, or `ApplyFails` in between); marking commitments and storing
what was received are steps of their own, because the request handlers do not take that lock.
`worker` is the single queue worker: `at` says which database or network call is next.
Change and mappings are stored in the step that looks up membership proofs (`Prove`):
nothing of the request can be on chain before. `requests` keeps the first document of
a request, the only one that `find_one` and `update_one` reach. Stored blocks are not state:
without layer 1 reorganisations a stored block always has the hash of the one on chain.
The driver's duplicate-key error is taken to be the one that
`store_commitments` tests for. A failed database write is one of the failures of
`EscrowFails` (after the call was mined), of `Prove`, or a `StoreQueued` that never happens.
The fee token is distinct from the token that is moved. `torn` only records why a counted
block may be missing from the tree.

**TransferCircuit and PrivateLedger.** A hash is the tuple of what was hashed, so hashes
are injective; a point is the set of scalars the generator was multiplied by, so both ends
of a key exchange come to the same point; a masked element can be unmasked with its key
and place and is noise otherwise. `assess_operation_integrity` is the conjunction of the
circuit's constraints over the record of inputs that `client_operation` builds, slot by
slot. A request is one step here and every client handles a block when it is
included, because the interleavings are those of `Client`; in return amounts, slots, keys and
salts are all there. `results` records how requests ended, `deposited` and `claims` what
the properties compare with.

**Trees.** A node is the nested tuple of the leaves below it, so a root says what the
tree holds; the hash of two empty nodes is empty, as in `mutable.rs`. A tree keeps nodes,
cache and metadata apart. The assembler's insertion records the paths and roots that
`RollupCircuits` then checks. `spoiled` marks a proposer whose assembly failed or whose
block was refused after it was inserted.

**X509.** One variable per mapping or setting. A certificate is a tree of DER elements
and the readers walk it as the code does, by counting and by comparing the bytes of any
element at depth 5 with an OID's; no name in the run's certificates holds such bytes. A signature names
its key and its message. The REST handler's dry run and its transaction are two
actions. `SECONDS_PER_DAY` scales the calendar, whose arithmetic is checked over the last days
of a February.

## 3. Runs

| Run | Shows |
|---|---|
| `rr_ledger` | three accounts: books, count, URL register, fines and turns are right in every order of calls, and each operation relinks correctly from a fresh copy |
| `rr_ring` | two accounts: the contract implements `ProposerRing` |
| `rr_current_registered` | **violated**: see findings |
| `rr_rotation_available` | **violated**: see findings |
| `nightfall_escrow` | an ERC20 and an ERC721, deposits with too little, the right and too much ether, blocks with and without an empty first slot: what the contract holds and what it owes, in tokens and in ether, differ by the deposits inserted unchecked, the fees not paid and the withdraws of unknown tokens, and by nothing else; a binding is final |
| `proposer` | a deposit, a transfer and a withdraw without commitments, two proposers, a log lost or a stream ended: restart never panics, roots follow the chain, own blocks are disjoint, without a fault a synchronised proposer has the chain's trees, and every block of the chain is handled in the end once the newest one's event is delivered |
| `proposer_resync` | **violated**: see findings |
| `client_wallet` | a transfer with a fee and a withdraw, two incoming commitments, two listeners, a crash: what is spendable is on chain and unspent, change and incoming transfers are credited, no commitment is put into two transactions without a crash |
| `client_progress` | a deposit with its fee, one fault and a crash: the tree holds blocks once and in order, listeners are replaced until all blocks are seen, requests are taken |
| `private_transfers` | two clients, every wallet of up to four coins, zero amounts, transfers to oneself, withdraws and deposits: the selection is best, what is selected can be proved, every spendable commitment has one owner and amounts add up |
| `trees` | two proposers, failed assemblies, refused blocks and resets: replicas and contract agree on the roots, the proofs the trees give verify (those of assembled blocks in the rollup's circuits), non-membership is exact |
| `x509_register` | root, intermediate, user with a renewal and a self-signed certificate, under changing policies and time: bindings, trust, key ownership, parsing, expiry, and what ends an enrolment |

**Bounds.** Three accounts are the fewest with a neighbour that is not also the
successor; with two the copy cannot go stale, which is why the refinement is checked
there. Three L1 blocks cover a turn, a cooldown and a late return; the penalties are
chosen so that a stake can be fined once and not twice. For Nightfall one secret makes every
two deposits of a token collide, and blocks of up to two entries hold a deposit and its fee's
deposit, checked or behind padding, or a deposit with its spending; two blocks hold a deposit and
a replay or a withdraw of it. Fees 0 and 1 with payments 0 to 3 are every case of the
comparison with `2 * fee`: less than the fee, the fee, twice the fee, more. For the proposer three layer 2 blocks
are possible (one deposit, two transactions), one per transaction and
either proposer; one interruption of the stream replays everything once; `MaxAttempts = 2`
lets a listener give up. `GROUP` and `BLOCK_SIZE` are parameters;
`BLOCK_SIZE = 2` makes selection leave something out. `MaxSends` and `MaxFaults` bound the
environment only. The chain needs no bound: each block redeems a deposit or
spends a nullifier. For the client two requests compete for the same
two commitments, so that selection, reservation, change and failure meet blocks, replays and a
second listener in every order; a queue of one fills up; three blocks hold the incoming
transfers and what is made of them. The faults (a lost log, an ended
stream, a read that fails) are in `client_progress`, where `MaxAttempts = 1` makes each ended stream
final and replacement the only way on. In `private_transfers` four coins of amounts 1, 2, 5 and 7 contain exact pairs, equal amounts
and a pair found first that a later one beats; `MaxAmount = 7` stands for 2^96 - 1, so two coins can
exceed it; two requests with a block between them are a transfer and what its
recipient, or its sender with the change, does next. In `trees` two blocks of two
subtrees fill half a commitment tree, and the five contents put nullifiers above,
below, between and twice; a third block would repeat the second. In `x509_register` one
account may enrol with four certificates over two days, one before and one after
expiry.

**Deadlock.** It is not checked for the contracts, whose bounded counters
run out, nor for the client, whose worker may have died, nor for `trees`, `private_transfers` and
`x509_register`, which end at their bounds; it is checked for the proposer.

**Fairness.** `FairSpec` of `Proposer` assumes weak fairness of the
listener, of the assembler's queueing and of the finality checker (`FinalityChecker`:
draining and proposing); `FairSpec` of `Client` of the listeners
together and of the worker. Each is a tokio task that is polled whenever it is
runnable, and tokio's locks are granted in order. Nothing is assumed of the
chain, of clients, of the operator, or of the assembler's trigger. `CatchesUp` speaks of runs in which,
from some point on, the newest block's event is not one that its subscription lost and the listener has
not given up: a gap in front of that event is then noticed by its number
(`MissingBlocks`), whatever was lost before. A lost event that nothing
follows is noticed by nothing in the code, so such runs promise nothing.

## 4. Findings

1. `rr_current_registered`. With three proposers the current one's neighbour leaves,
   then the current one does: the stale copy hands the turn to the deleted entry.
   Proposers are registered and nobody has the turn.
2. `rr_rotation_available`. With the shipped stake 4, fine 3, exit penalty 2, a proposer
   fined once and lazy again can be neither fined nor expelled; rotation reverts.
3. `proposer_resync`. The restart that should re-synchronise a proposer empties its
   trees and keeps the number of the next block expected: the replay skips all earlier
   blocks and the proposer is then synchronised without them.

4. `nightfall_escrow`, `EtherBacked`. `escrow_funds` binds the fee it is called with and
   compares what was paid only with `2 * fee` (`Nightfall.sol:478-481`), so a deposit can bind
   a fee that was not paid, against `doc/nf_4.md:66` and the comment at `:408-409`. The proposer that redeems
   it is paid out of other users' ether, or its block reverts. The equation holds with its
   term `surplus`, which such a deposit takes below zero.
5. `nightfall_escrow`, `TokensBacked`. A deposit transaction whose first slot is empty is taken for
   a dummy (`:253-271`, against the comment at `:234-235`): the deposits in its other slots, which the
   circuit allows (`deposit_circuit.rs:63-70`, test at `:239-254`), are inserted and never compared with
   `feeBinding`. The equation holds with its term `Unbacked`. `assemble_block` never makes
   such a transaction.
6. `x509_register`, `EnrolmentLasts`. The comments at `X509.sol:608` and `:631` say of a
   revocation that "they will lose their allowlisted status". The two calls delete the key of the
   address, and `x509Check` then finds identifier zero not revoked: the address stays
   certified until the certificate ends, unless identifier zero is revoked too.

The first three have a run that TLC finds violated; the last three are read off a property that
holds and states what the code does where the text says otherwise.

Seen while modelling, without a property of their own: an ERC3525 can be deposited
(`Nightfall.sol:442-447`) and its withdraw included, and `descrow_funds` has no branch
that pays it (`:577-612`); `reset_tree` of the historic root
tree does not put back the zero leaf at index 0; a second block assembled before
the first one's event is always refused, because its historic root is computed and not
kept; a withdraw without commitments is never filtered as stale; `attempts` of the
listener is never reset; `find_deposit` looks in the wrong collection; a lazy
expulsion passes the turn on twice; a registration behind a stale copy
cannot be reached by the rotation. In the client: a restart resets the tree and not the
expected block number, as in finding 3, so later transactions fail for want of a membership
proof (`torn` = "reset"); every error of a block handler ends its listener, because
`handle_event` renames it; a refused escrow call or an unreadable block number ends the queue worker for good
while requests are still accepted; after a crash the replay makes reserved
commitments available again, so two transactions may spend one; a fee that
cannot be covered leaves the value's commitments reserved; a deposit whose block is handled
before its record is stored stays pending until a replay; the worker's last status write
may replace Confirmed, and always replaces ProposerUnreachable. In the trees:
`append_sub_trees` compares with `>` and lets one subtree too many in; the append-only tree
never writes its root, and its last leaf indexes the frontier past its end; a second
preview before the first one's event is flushed over its nodes. In the circuit: amounts are
limited to 96 bits and deposits are not, so a larger deposit can be made and
never spent; a request for more than the range is refused only by the prover, with its
commitments reserved; a spent fee commitment of amount zero would make
every proof fail, and only the strict comparison in `find_subset_commitments` keeps one from
being selected. In X509: `revokeKeyByAddressSignature` works only for keys of
authorities; a name's attribute that has the bytes of an extension's OID is found before the
extension.

## 5. Proofs

Every theorem below holds for every value of the constants that its module's
`ASSUME` admits; a run checks the same formula, and the assumption, on a small instance.
The assumptions give constants their types, say which sets are finite, and repeat the
`require`s of the contracts' initialisers; bounds on counters are arbitrary.

### Sums (`SumTheorems`)

Ledgers are sums over sets of accounts, deposits or commitments. `SumFunctionOnSet` is a
recursive function over subsets, so nothing follows from it before its equation is known:
`RecursionExists` builds the function by induction on the size of the subsets, `SumPick`
reads off the equation, and `SumAdd`, `SumUpdate`, `SumUnion`, `SumReindex` are the laws
the ledgers use. The library's induction theorems take a predicate as a parameter, which
no prover here can instantiate; the inductions go by a least counterexample in a set of
naturals (`Induction`) or over the subsets of a finite set (`SubsetInduction`), with the
property as a set.

### RoundRobin (`RoundRobinProofs`)

From `RoundRobinAssumption` (the `require`s of `initialize`, and that zero is no account):

* `TypeCorrect`: `TypeOK` is inductive. What is to be shown is that no subtraction
  leaves the naturals, which rests on the guards of `CanRemove` and `CanFine`.
* `CountCorrect`, `UrlsCorrect`: neither is inductive alone. `RegistryInv` adds
  that an entry is empty or carries its own address (`AddrInv`, so that writes to
  links never register anybody) and that the registered set is finite. The lemmas
  `JoinKeepsRegistry`, `LeaveKeepsRegistry` and `StayKeepsRegistry` say what an
  operation does to the set; each action is one of the three, however damaged the links are.
* `FreshLinksCorrect`: from a fresh copy and inverse links every operation leaves
  inverse links, for a ring of any size. It rests on what `LinkedBehind`, `Unlinked` and
  `SelfLinked` write, stated entry by entry in the `*Shape` lemmas.
* `EscrowCorrect`, `SolventCorrect`: the escrow is the sum of the stakes, and the balance
  covers escrow and pending withdraws. `MoneyInv` joins the two with `StakeInv` (only
  registered proposers have a stake, the null entry has none), without which a removal could drop a stake that is
  still counted.
* `FinesCorrect`, `TurnCorrect`: only the proposer whose turn it is is fined, and a turn is
  not cut short.
* `RingUnlessExit`, `RingWhileFresh`, `RingCorrect`: `RingInv`. Inverse links alone do not
  make one ring, so `RingOrder` adds a list of the registered proposers in which each
  entry names the next and the last names the first (`Order`). An operation appends to that
  list, closes a gap in it or turns it (`JoinOrder`, `LeaveOrder`, `TurnOrder`), and
  `ListIsTheOrder` shows that `get_proposers`, a recursive function, walks it. `Fresh` is lost
  only when a proposer leaves by `remove_proposer` while three or more are registered
  (`NextOrder`); without that the ring is whole for any number of proposers, with at
  most two registered without exception.
* `TurnsWhileFresh`, `TurnsCorrect`: the contract implements `ProposerRing`, step by step
  (`QueueStep`), while the copy is fresh and no expulsion happens among three or
  more: that one is a leaving and a rotation in one call, which passes over a proposer. With at
  most two registered neither hypothesis is needed.

### Nightfall (`NightfallProofs`)

* `NightfallTypeCorrect`, `TokensCorrect`, `EtherCorrect`: whatever callers pay and proposers
  fill in, the contract holds what it owes but for `Unbacked`, the deposits inserted and not redeemed,
  and, of ether, but for `surplus`. `LedgerInv` adds to the types that a binding that was never
  made is blank (`Tidy`) and that a redeemed deposit is inserted (`RedeemedIn`), and keeps
  both balances as equations between sums (`Balanced`).
* `PayableCorrect`: as long as nothing is unbacked and `surplus` is not negative (`Solid`), the fees of any
  block that passes its checks and the tokens of any included withdraw are covered
  (`Payable`), so neither payment fails for lack of funds.
* `ExactCorrect`: with callers that pay what the client pays and blocks as `assemble_block` makes
  them (`RepositorySpec`) both terms stay zero: the contract holds exactly what it owes (`Exact`)
  and `Payable` holds throughout.
* `BindingCorrect`: a deposit stays bound to its fee, stays escrowed and is not un-redeemed.

### Certification (`CertificationProofs`)

* `BindingCorrect`, `EnrolmentCorrect`: keys and enrolled accounts are bound one to one, and
  an enrolment ends only by time, by allowlisting being turned on or, when identifier zero
  is revoked, by revoking its own key.
* `CertificationTypeCorrect`, `TrustCorrect`, `HolderCorrect`: from the hypothesis
  `ParserIsSound`, which says that the DER readers find a certificate's fields when they find
  any. TLC checks it, with more, as `ReadersFindTheFields`. `TrustInv` joins
  the two invariants with the types of the request in flight: each certificate that passes
  the checks prolongs a chain from an anchor (`VouchedIsRooted`), and chains only grow
  (`ChainGrows`).
* `ExpiryCorrect`: an enrolled address is good until the day its certificate ends, by the
  calendar. `DaysAreTheCalendars` shows that the truncating divisions of `DaysFromDate`
  count the calendar's days for every date from 2000 to 2099: the days of the years before
  are `365 y + (y + 3) \div 4` by induction (`YearsInDays`), those of the months before come
  out of eleven steps (`MonthsInDays`). `CalendarDates`, that certificates end on days
  there are, is a hypothesis, since the parser checks only the digits; `MCX509`
  assumes it of its instance.

### Proposer (`ProposerProofs`)

From `ProposerAssumption`:

* `RestartCorrect`: `RestartIsNeverSynchronised` is not inductive, since the
  assembler sets the status when the chain has no block; `RestartInv` adds that a
  restart implies that there is a block.
* `RootsCorrect`: `RootsFollowTheChain` with the types of `roots` and
  `expected`; the two guards of `AcceptBlock` pin the block's number to `expected`.
* `ProposerTypeCorrect`: `TypeOK`. That `expected` stays within the contract's count needs
  `BlocksIn`: the events before `pos` hold no more blocks than the whole log.
* `OwnBlocksCorrect`: `OwnBlocksAreDisjoint` is not inductive. A document is written when
  a block is assembled and deleted when the event of its number arrives with another
  content, so `OwnInv` adds: every block of ours on the chain that the listener has yet
  to see, and every one in flight that the contract can still accept, has its document
  (`OursAreDocumented`, `InFlightIsDocumented`); and until the trees are emptied documents
  are numbered as they come (`DocsAreInOrder`), so a new one hides no older one.
* `FaultFreeCorrect`: `FaultFreeInv` says that, with no fault so far, either a block in
  flight is `Doomed` (built on a chain that has grown since: its refusal is a fault) or
  the state is `Clean`: the roots are the chain's up to `expected` and the trees hold the
  blocks up to `expected` (`AtRest`), these and the one block of ours in flight
  (`Awaiting`), or these and our block that is on the chain and still to be handled
  (`Landed`). Assembling, proposing and accepting move around these three in turn.

### Client (`ClientProofs`)

From `RequestAssumption` and `ClientBounds`, for any number of listeners:

* `TreeCorrect`: `TreeInv` adds to `TreeFollowsTheChain` the types
  of the tree, the counter and the listeners. A block is applied only when its number is the
  counter's, which bounds every number in the tree (the second conjunct, which makes the first
  inductive); resets and failures are recorded in `torn` in the step they happen.
* `SpendableCorrect`, `CreditCorrect`: what the client holds as unspent is unspent on the
  blocks it has processed, and what those blocks gave it is stored. Neither is inductive
  without knowing where every transaction comes from: `LedgerInv` adds that a request is in
  one place of queue and worker at a time and makes its transaction once (`QueueInv`), that
  the lock's holder is a listener at the block it applies (`ListenInv`), that
  outputs and spends on chain are unique (`ChainInv`), and that a block's outputs are
  credited all or not at all (`CreditInv`).
* `SelectionCorrect`: `NoDoubleSelection`. `SelectInv` says that a commitment the client
  knows is on chain, that whatever a sent transaction spends is taken in the store, that sent
  transactions spend disjoint sets, and that what the worker has selected and not yet sent is
  in no sent transaction. It needs what selection returns (`WhatIsChosen` of
  `SumTheorems`) and `LedgerInv`, since a block processed late may set the status of a
  commitment back.
* `ClientTypeCorrect`: `TypeOK`. Requests stay requests wherever queue, worker and records
  hold them (`RequestTypes`), each listener keeps the program point, block and attempts that
  belong to it (`ListenerTypes`), and the counter stays on the chain by `TreeInv`.

### Selection and the private ledger (`SumTheorems`, `PrivateLedgerProofs`)

* `ChoiceIsBest`: on a sorted list of any length and any target above zero the three passes
  of `find_usable_commitments` choose best. The two-pointer walk is a recursive function on
  pairs of places; `DropHigh` and `DropLow` say that the place a step leaves behind belongs to
  no better pair, and the induction is on the gap between the places. `OrdersExist` gives that
  a finite offer can be sorted.
* `BestSelectionCorrect`: the same of every wallet a client can reach. It rests on
  `WalletInv`: wallets are finite, and every entry is of a known token, of its slot, of a
  natural amount, and opened by its client (`Owned`); the first output of every pooled
  transaction is of some amount of a known token, since a recipient stores what it decrypts.
* `ProvableCorrect`: under `DepositsInRange`. `RangeInv` adds that wallets and pooled
  transactions hold amounts the circuit can range-check. `SpendFits` shows that the four slots
  that selection and padding fill are placeholders or different commitments of the client,
  all but the first of some amount, and that change is no larger than a commitment spent;
  `Provable` shows that such slots satisfy every constraint. `DepositsInRange` is a
  hypothesis because neither `escrow_funds` nor the client limits a deposit to 96 bits;
  `MCPrivateLedger` assumes it of its instance.

* `OwnersCorrect`: `EveryTokenHasAnOwner`. That a commitment has an owner says nothing of where
  its opening is before it is mined, so `LedgerInv` follows every commitment from its salt to its
  nullifier: a salt on chain, in the pool, in escrow or in a wallet is `Past`, never one that an
  operation to come can give (`MinedTxs`, `PoolTxs`, `EscrowData`, `EntriesFit`); a pooled
  transaction spends what is on chain and unspent, and no two of them share an input or an output
  (`InPool`, `Apart`); an entry's status says where its commitment is (`EntryFits`);
  no two clients hold the same commitment (`NotShared`); every output but a recipient's is known
  to a client before its block, and the recipient's afterwards (`Known`). The sums are kept by
  transaction: `AddTx` says what a new transaction changes in the ledger of a chain,
  `SentBalances` that what an operation spends it leaves, withdraws and pays, `DecryptedIs` that
  the recipient decrypts the preimage that was hashed, `BlockBalances` that a block moves between
  escrow and ledger only what it deposits. A selected input is unspent in the pool since selection
  marks it in the step it is sent; that is where an operation needs `WhatIsFound`.
  From `LedgerAssumption`: requests and deposits are of known clients and tokens and of
  natural amounts, and the first deposits are a sequence of such amounts.

In `Client` the order in which the store returns commitments of equal value is any order that
sorts them (`Orders`), so the theorems about it do not depend on the database.

### Trees (`TreesProofs`)

From `HeightsAssumption` and `ContentsAssumption` (a block is as many commitments as
nullifiers, padded to whole subtrees, which is what `assemble_block` proposes), for any
proposers, heights and blocks:

* `ListsCorrect`: `ListsAreSorted`. Every stored leaf database is one list in increasing order.
* `RefusalCorrect`: `SpentAreRefused`. A proposer refuses a value exactly when a block
  in its trees has nullified it, whichever of the two insertions put it there.

The insertions of `IndexedTree` are loops, written as folds. `StoreEquation`,
`RefreshEquation`, `InsertEquation`, `BatchEquation` and `AddEquation` say that each fold
satisfies its recursion, so that its values on `1 .. k` are the states the loop goes through
(the `*IsRun` lemmas) and the invariants of a loop are proved by an induction over `k`. That
induction is `NatInduct`, by the smallest counterexample.

`DbInv` is the loop's invariant of a leaf database: indices are places, values are natural and
different, and every leaf is linked to the next greater value (`Linked`; `LinkedIsSorted` makes it
the property). `LowLeaf` finds the leaf a new value goes behind and `StoreLeaf` keeps the
links. A database that is the list of some values becomes the list of these and the inserted
ones: `InsertLeavesExtends` for a subtree of the circuit's insertion, `CircuitExtends` for the
whole of it, and `BatchExtends` for the event's, where `ChunksCover` says that the subtrees a
block is cut into hold all of it. `TreesInv` then joins the types of what is in memory and stored
(`TablesInv`), that blocks are contents (`BlocksInv`), and that a stored database is the list
of what the proposer has inserted, its assembly included (`ListsInv`), which makes both
properties follow; it has one lemma per action.

`NonMembershipCorrect` joins the two as the run's `NonMembershipIsExact`. That an answer's
path verifies (`AnswersVerify`, in the run's `ProofsVerify`) is about hashes and stays
with TLC, like the roots and the circuit's paths.

### Only model-checked

* Liveness: fairness and `ENABLED` are out of the prover's reach.
* Of the trees, `ReplicasHoldTheChain` and `ProofsVerify`: what the node
  hashes come to is computed by recursion over tree levels, which would take an induction over data.
* `ReadersFindTheFields`, for the same reason: the DER readers recurse over a certificate's
  bytes. The theorems about `Certification` that need it name it as a hypothesis (`ParserIsSound`).
* The action properties not listed above.

## 6. Not modelled

Proof generation and verification (field and pairing arithmetic): represented by what
they establish. Hashing, signatures, encryption, calldata layout, serialization: abstracted
to injective constructors. Upgrade mechanics, ownership and the owner's address setters, the sanctions list. Layer 1
reorganisations. Failed read-only RPC calls of the proposer. Time: turns, waits and finality are
nondeterministic choices of when. Deployment, configuration, test doubles.
Of the client: webhooks, balance queries and parsing of requests. Of the rollup prover:
accumulators, verification keys and the recursion between the two curves beyond the order
of merging.
