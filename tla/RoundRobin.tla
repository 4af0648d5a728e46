----------------------------- MODULE RoundRobin -----------------------------
(***************************************************************************)
(* The proposer manager contract, blockchain_assets/contracts/RoundRobin.sol *)
(*                                                                         *)
(* Registered proposers form a doubly linked ring in the mapping           *)
(* `proposers`; `current` is a storage COPY of one entry of that mapping,  *)
(* not a reference to it, so its links can differ from the mapping's.      *)
(* Each action is one external call that succeeds; a call that reverts     *)
(* changes nothing and is no step.  Solidity's checked subtraction is a    *)
(* guard.                                                                  *)
(***************************************************************************)
EXTENDS Integers, FiniteSets, Functions

CONSTANTS
  Addr,                \* accounts that x509 certifies and no sanction lists
  Urls,                \* proposer URLs
  NoAddr,              \* address(0)
  NoUrl,               \* the empty string
  STAKE, LAZY_PENALTY, EXIT_PENALTY,
  COOLDOWN_BLOCKS, ROTATION_BLOCKS,
  FINALIZATION_BLOCKS, \* 64 in the contract
  MaxBlock, MaxL2,     \* bounds on the two block counters
  Amounts,             \* the amounts withdraw() is called with
  MaxBalance           \* bound on the ether paid in and not withdrawn

\* The require() conditions of initialize(), and that zero is not an account;
\* an account is 160 bits.
ASSUME RoundRobinAssumption ==
  /\ NoAddr \notin Addr /\ IsFiniteSet(Addr)
  /\ NoUrl \notin Urls
  /\ STAKE \in Nat /\ LAZY_PENALTY \in Nat /\ EXIT_PENALTY \in Nat
  /\ COOLDOWN_BLOCKS \in Nat /\ ROTATION_BLOCKS \in Nat /\ FINALIZATION_BLOCKS \in Nat
  /\ COOLDOWN_BLOCKS > 0
  /\ STAKE >= EXIT_PENALTY
  /\ LAZY_PENALTY > EXIT_PENALTY
  /\ MaxBlock \in Nat /\ MaxL2 \in Nat /\ MaxBalance \in Nat
  /\ Amounts \subseteq Nat

VARIABLES
  proposers,         \* the ring, one entry for every address, zero included
  pending_withdraws, \* stake a deregistered proposer may take back
  proposer_urls,     \* the URLs in use
  last_exit_block,   \* 0, or the block of an exit as current proposer
  current,           \* copy of the current proposer's entry
  start_l1_block,    \* L1 block at which the current turn began
  start_l2_block,    \* L2 block number at which it began
  proposer_count,
  escrow,            \* stake the contract believes it holds
  balance,           \* ether the contract holds
  block,             \* block.number
  l2                 \* nightfall.layer2_block_number()

money == <<escrow, balance, pending_withdraws>>
turn  == <<start_l1_block, start_l2_block>>
chain == <<block, l2>>
vars  == <<proposers, proposer_urls, last_exit_block, current, proposer_count,
           money, turn, chain>>

Address == Addr \cup {NoAddr}

Proposer == [stake : Nat, addr : Address, url : Urls \cup {NoUrl},
             next_addr : Address, previous_addr : Address]

\* What `delete proposers[p]`, and a key never written, read as.
Deleted == [stake |-> 0, addr |-> NoAddr, url |-> NoUrl,
            next_addr |-> NoAddr, previous_addr |-> NoAddr]

Sole(a, u) == [stake |-> STAKE, addr |-> a, url |-> u,
               next_addr |-> a, previous_addr |-> a]

Registered == {a \in Addr : proposers[a].addr = a}

-----------------------------------------------------------------------------
(* The deployed contract: the deployment script initialises it and calls   *)
(* bootstrapDefaultProposer before it hands the address to anyone.         *)

Init ==
  /\ \E a \in Addr, u \in Urls :
       /\ current = Sole(a, u)
       /\ proposers = [x \in Address |-> IF x = a THEN Sole(a, u) ELSE Deleted]
       /\ proposer_urls = {u}
  /\ pending_withdraws = [a \in Addr |-> 0]
  /\ last_exit_block = [a \in Addr |-> 0]
  /\ proposer_count = 1
  /\ escrow = STAKE
  /\ balance = STAKE
  /\ block = 1 /\ start_l1_block = 1
  /\ l2 = 0 /\ start_l2_block = 0

\* The owner seeds an empty ring.
bootstrapDefaultProposer(a, u) ==
  /\ proposer_count = 0
  /\ u \notin proposer_urls
  /\ current' = Sole(a, u)
  /\ proposers' = [proposers EXCEPT ![a] = Sole(a, u)]
  /\ proposer_urls' = proposer_urls \cup {u}
  /\ proposer_count' = 1
  /\ escrow' = escrow + STAKE
  /\ balance + STAKE <= MaxBalance
  /\ balance' = balance + STAKE
  /\ start_l1_block' = block /\ start_l2_block' = l2
  /\ UNCHANGED <<pending_withdraws, last_exit_block, chain>>

-----------------------------------------------------------------------------
(* Registration *)

\* The four link writes of add_proposer, in order.  They follow the links of
\* the copy c, not those of P[c.addr].
LinkedBehind(P, c, a, u) ==
  LET new == [stake |-> STAKE, addr |-> a, url |-> u,
              next_addr |-> c.addr, previous_addr |-> c.previous_addr]
      Q == [P EXCEPT ![a] = new]
      R == [Q EXCEPT ![c.addr].previous_addr = a]
      S == [R EXCEPT ![c.previous_addr].next_addr = a]
  IN IF c.next_addr = c.addr THEN [S EXCEPT ![c.addr].next_addr = a] ELSE S

CooledDown(a) ==
  last_exit_block[a] # 0 => block > last_exit_block[a] + COOLDOWN_BLOCKS

add_proposer(a, u) ==
  /\ CooledDown(a)
  /\ proposers[a].addr = NoAddr
  /\ u \notin proposer_urls
  /\ proposers' = LinkedBehind(proposers, current, a, u)
  /\ current' = proposers'[current.addr]
  /\ proposer_urls' = proposer_urls \cup {u}
  /\ proposer_count' = proposer_count + 1
  /\ escrow' = escrow + STAKE
  /\ balance + STAKE <= MaxBalance
  /\ balance' = balance + STAKE
  /\ UNCHANGED <<pending_withdraws, last_exit_block, turn, chain>>

-----------------------------------------------------------------------------
(* _remove_proposer, called by remove_proposer and by lazy_penalize_proposer *)

\* Mutant: every leaver pays the exit penalty.
ExitStakeAlwaysFined(p) == proposers[p].stake - EXIT_PENALTY

\* p's stake once the exit penalty of a current proposer is taken.
ExitStake(p) ==
  IF p = current.addr THEN proposers[p].stake - EXIT_PENALTY ELSE proposers[p].stake

\* Mutant: the only proposer may leave.
CanRemoveTheLast(p) ==
  /\ p # NoAddr
  /\ proposers[p].addr = p
  /\ p = current.addr => proposers[p].stake >= EXIT_PENALTY
  /\ escrow >= proposers[p].stake
  /\ proposer_count > 0

CanRemove(p) ==
  /\ p # NoAddr
  /\ proposers[p].addr = p
  /\ p = current.addr => /\ proposer_count > 1
                         /\ proposers[p].stake >= EXIT_PENALTY
  /\ escrow >= proposers[p].stake
  /\ proposer_count > 0

\* Mutant: only the next proposer's link is mended.
HalfUnlinked(P, p) ==
  [[P EXCEPT ![P[p].next_addr].previous_addr = P[p].previous_addr] EXCEPT ![p] = Deleted]

\* The neighbours are joined and the entry deleted.
Unlinked(P, p) ==
  LET Q == [P EXCEPT ![P[p].next_addr].previous_addr = P[p].previous_addr]
      R == [Q EXCEPT ![P[p].previous_addr].next_addr = P[p].next_addr]
  IN [R EXCEPT ![p] = Deleted]

SelfLinked(P, a) ==
  [P EXCEPT ![a].next_addr = a, ![a].previous_addr = a]

\* `current` when the unlinking starts: a leaving current proposer has handed
\* over to the entry its copy names next, copied before the ring is relinked.
Successor(p) ==
  IF p = current.addr
  THEN [proposers EXCEPT ![p].stake = ExitStake(p)][current.next_addr]
  ELSE current

\* The mapping and the copy that _remove_proposer(p) leaves.
RingWithout(p) ==
  IF proposer_count = 2
  THEN SelfLinked(Unlinked(proposers, p), Successor(p).addr)
  ELSE Unlinked(proposers, p)

\* Mutant: the copy of the last proposer is not refreshed.
CurrentNotRefreshed(p) == Successor(p)

CurrentWithout(p) ==
  IF proposer_count = 2 THEN RingWithout(p)[Successor(p).addr] ELSE Successor(p)

\* Mutants: the exit penalty stays in `escrow`; the URL is not freed; the
\* count is not reduced.
DeregisterKeepingPenalty(p) ==
  /\ escrow' = escrow - ExitStake(p)
  /\ pending_withdraws' = [pending_withdraws EXCEPT ![p] = @ + ExitStake(p)]
  /\ proposer_urls' = proposer_urls \ {proposers[p].url}
  /\ proposer_count' = proposer_count - 1
  /\ UNCHANGED <<last_exit_block, balance, chain>>

DeregisterKeepingUrl(p) ==
  /\ escrow' = escrow - proposers[p].stake
  /\ pending_withdraws' = [pending_withdraws EXCEPT ![p] = @ + ExitStake(p)]
  /\ proposer_count' = proposer_count - 1
  /\ UNCHANGED <<proposer_urls, last_exit_block, balance, chain>>

DeregisterKeepingCount(p) ==
  /\ escrow' = escrow - proposers[p].stake
  /\ pending_withdraws' = [pending_withdraws EXCEPT ![p] = @ + ExitStake(p)]
  /\ proposer_urls' = proposer_urls \ {proposers[p].url}
  /\ UNCHANGED <<proposer_count, last_exit_block, balance, chain>>

\* Everything else that _remove_proposer(p) assigns, the turn excepted.
Deregister(p) ==
  /\ escrow' = escrow - proposers[p].stake
  /\ pending_withdraws' = [pending_withdraws EXCEPT ![p] = @ + ExitStake(p)]
  /\ proposer_urls' = proposer_urls \ {proposers[p].url}
  /\ proposer_count' = proposer_count - 1
  /\ last_exit_block' = IF p = current.addr
                        THEN [last_exit_block EXCEPT ![p] = block]
                        ELSE last_exit_block
  /\ UNCHANGED <<balance, chain>>

NewTurn == start_l1_block' = block /\ start_l2_block' = l2

remove_proposer(p) ==
  /\ CanRemove(p)
  /\ proposers' = RingWithout(p)
  /\ current' = CurrentWithout(p)
  /\ Deregister(p)
  /\ IF p = current.addr THEN NewTurn ELSE UNCHANGED turn

-----------------------------------------------------------------------------
(* Rotation *)

\* Mutant: the turn does not wait for finality.
CanRotateEarly == block >= start_l1_block + ROTATION_BLOCKS

can_rotate == block >= start_l1_block + ROTATION_BLOCKS + FINALIZATION_BLOCKS

Lazy == l2 = start_l2_block

\* lazy_penalize_proposer fines the current proposer, or expels it when its
\* stake does not cover the fine.
CanFine  == proposers[current.addr].stake >= LAZY_PENALTY /\ escrow >= LAZY_PENALTY
CanExpel == proposers[current.addr].stake < LAZY_PENALTY /\ CanRemove(current.addr)

RotateDiligent ==
  /\ can_rotate /\ ~Lazy
  /\ current' = proposers[current.next_addr]
  /\ NewTurn
  /\ UNCHANGED <<proposers, proposer_urls, last_exit_block, proposer_count, money, chain>>

RotateFining ==
  /\ can_rotate /\ Lazy /\ CanFine
  /\ proposers' = [proposers EXCEPT ![current.addr].stake = @ - LAZY_PENALTY]
  /\ escrow' = escrow - LAZY_PENALTY
  /\ current' = proposers'[current.next_addr]
  /\ NewTurn
  /\ UNCHANGED <<proposer_urls, last_exit_block, proposer_count,
                 balance, pending_withdraws, chain>>

\* The removal already hands over to the next proposer; rotate_proposer then
\* advances once more.
RotateExpelling ==
  /\ can_rotate /\ Lazy /\ CanExpel
  /\ proposers' = RingWithout(current.addr)
  /\ current' = proposers'[CurrentWithout(current.addr).next_addr]
  /\ Deregister(current.addr)
  /\ NewTurn

rotate_proposer == RotateDiligent \/ RotateFining \/ RotateExpelling

-----------------------------------------------------------------------------
\* Mutants: the withdrawable amount is not checked; it is not reduced.
WithdrawUnchecked(a, amount) ==
  /\ amount <= balance
  /\ pending_withdraws' = [pending_withdraws EXCEPT ![a] = @ - amount]
  /\ balance' = balance - amount
  /\ UNCHANGED <<proposers, proposer_urls, last_exit_block, current,
                 proposer_count, escrow, turn, chain>>

WithdrawRepeatable(a, amount) ==
  /\ amount <= pending_withdraws[a]
  /\ amount <= balance
  /\ balance' = balance - amount
  /\ UNCHANGED <<proposers, proposer_urls, last_exit_block, current,
                 pending_withdraws, proposer_count, escrow, turn, chain>>

withdraw(a, amount) ==
  /\ amount <= pending_withdraws[a]
  /\ amount <= balance
  /\ pending_withdraws' = [pending_withdraws EXCEPT ![a] = @ - amount]
  /\ balance' = balance - amount
  /\ UNCHANGED <<proposers, proposer_urls, last_exit_block, current,
                 proposer_count, escrow, turn, chain>>

\* The owner points the manager at another Nightfall contract, n blocks long.
set_nightfall(n) ==
  /\ l2' = n
  /\ UNCHANGED <<proposers, proposer_urls, last_exit_block, current,
                 proposer_count, money, turn, block>>

\* Nightfall.propose_block succeeds only for get_current_proposer_address().
ProposeBlock ==
  /\ current.addr \in Addr
  /\ l2 < MaxL2
  /\ l2' = l2 + 1
  /\ UNCHANGED <<proposers, proposer_urls, last_exit_block, current,
                 proposer_count, money, turn, block>>

MineL1Block ==
  /\ block < MaxBlock
  /\ block' = block + 1
  /\ UNCHANGED <<proposers, proposer_urls, last_exit_block, current,
                 proposer_count, money, turn, l2>>

Next ==
  \/ \E a \in Addr, u \in Urls : bootstrapDefaultProposer(a, u) \/ add_proposer(a, u)
  \/ \E a \in Addr : remove_proposer(a)
  \/ rotate_proposer
  \/ \E a \in Addr, amount \in Amounts : withdraw(a, amount)
  \/ \E n \in 0 .. MaxL2 : set_nightfall(n)
  \/ ProposeBlock
  \/ MineL1Block

Spec == Init /\ [][Next]_vars

-----------------------------------------------------------------------------
(* Properties *)

TypeOK ==
  /\ proposers \in [Address -> Proposer]
  /\ current \in Proposer
  /\ pending_withdraws \in [Addr -> Nat]
  /\ last_exit_block \in [Addr -> Nat]
  /\ proposer_urls \subseteq Urls
  /\ proposer_count \in Nat
  /\ escrow \in Nat /\ balance \in Nat
  /\ block \in Nat /\ start_l1_block \in Nat
  /\ l2 \in Nat /\ start_l2_block \in Nat

\* `escrow`, which every operation adjusts by hand and two of them adjust
\* twice, is the sum of the stakes in the mapping: no fine, exit or expulsion
\* takes from it more or less than it takes from a proposer.
EscrowIsTheStakes ==
  escrow = SumFunctionOnSet([a \in Addr |-> proposers[a].stake], Addr)

\* The contract holds the ether for every stake and every pending withdrawal,
\* so a deregistered proposer's withdraw() never fails for lack of funds.
Solvent ==
  balance >= escrow + SumFunctionOnSet(pending_withdraws, Addr)

\* proposer_count, which decides whether the current proposer may leave and
\* when the last one is linked to itself, is the number of registered
\* proposers, whatever has happened to the links.
CountIsTheRegistered == proposer_count = Cardinality(Registered)

\* The URLs marked in use are those of the registered proposers, and no two
\* share one: an exit or an expulsion frees the URL and nothing else does.
UrlsAreTheRegistered ==
  /\ proposer_urls = {proposers[a].url : a \in Registered}
  /\ \A a, b \in Registered : proposers[a].url = proposers[b].url => a = b

\* What account a can still get back from the contract.
Worth(a) == proposers[a].stake + pending_withdraws[a]

\* Only the account whose turn it is can be fined: no call by anybody, and no
\* rotation, costs another account anything but what it withdraws itself.
OnlyTheCurrentProposerIsFined ==
  [][\A a \in Addr \ {current.addr} :
       Worth(a)' < Worth(a) => Worth(a) - Worth(a)' = balance - balance']_vars

\* A turn ends early only if the proposer whose turn it is leaves; otherwise
\* it lasts ROTATION_BLOCKS + FINALIZATION_BLOCKS, however others register,
\* leave or rotate meanwhile.  (While nobody holds the turn there is none to
\* cut short.)
TurnIsNotCutShort ==
  [][/\ current.addr \in Registered /\ current.addr' # current.addr
     /\ block < start_l1_block + ROTATION_BLOCKS + FINALIZATION_BLOCKS
     => /\ current.addr \notin Registered'
        /\ last_exit_block'[current.addr] = block]_vars

\* The copy `current` agrees with the mapping.
Fresh ==
  /\ current.addr \in Registered
  /\ current.next_addr = proposers[current.addr].next_addr
  /\ current.previous_addr = proposers[current.addr].previous_addr

\* The two link fields of the registered entries are inverse to each other
\* and never leave the registered entries.
Links ==
  \A a \in Registered :
    /\ proposers[a].next_addr \in Registered
    /\ proposers[a].previous_addr \in Registered
    /\ proposers[proposers[a].next_addr].previous_addr = a
    /\ proposers[proposers[a].previous_addr].next_addr = a

\* The links are well formed after every step from a state in which they are
\* and the copy is fresh: each operation by itself relinks correctly, the
\* expulsion inside a rotation and the last-but-one exit included, and it is
\* only a stale `current` that can damage the ring.
FreshStepKeepsLinks == [][Fresh /\ Links => Links']_vars

\* get_proposers(): from the copy, along the mapping, proposer_count entries.
get_proposers[i \in 1 .. proposer_count] ==
  IF i = 1 THEN current ELSE proposers[get_proposers[i - 1].next_addr]

\* What clients and proposers rely on when they ask for the list: it names
\* every registered proposer, the current one first.
ListIsComplete ==
  {get_proposers[i].addr : i \in 1 .. proposer_count} = Registered

\* The ring as it should be.
RingInv == Fresh /\ Links /\ ListIsComplete

\* Only a registered proposer is ever the current one.
CurrentIsRegistered == current.addr \in Registered

\* Once the turn is over and another proposer is waiting, rotate_proposer
\* succeeds.
RotationIsAvailable ==
  can_rotate /\ CurrentIsRegistered /\ proposer_count > 1
  => ~Lazy \/ CanFine \/ CanExpel

=============================================================================
