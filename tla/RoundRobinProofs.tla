-------------------------- MODULE RoundRobinProofs --------------------------
(***************************************************************************)
(* Proofs about RoundRobin for any set of accounts and URLs and any        *)
(* economics that initialize() accepts.                                    *)
(***************************************************************************)
EXTENDS RoundRobinOrder, SumTheorems

-----------------------------------------------------------------------------
(* What the link surgery leaves alone. *)

\* P and Q agree on everything but the links, at every address but a.
SameButLinks(P, Q, a) ==
  \A x \in Address \ {a} :
    Q[x].addr = P[x].addr /\ Q[x].url = P[x].url /\ Q[x].stake = P[x].stake

\* Registering a writes a's entry; elsewhere it changes links only.
LEMMA LinkedBehindShape ==
  ASSUME NEW P \in [Address -> Proposer], NEW c \in Proposer,
         NEW a \in Addr, NEW u \in Urls
  PROVE  LET Q == LinkedBehind(P, c, a, u)
         IN /\ Q \in [Address -> Proposer]
            /\ SameButLinks(P, Q, a)
            /\ Q[a].addr = a /\ Q[a].url = u /\ Q[a].stake = STAKE
<1> DEFINE new == [stake |-> STAKE, addr |-> a, url |-> u,
                   next_addr |-> c.addr, previous_addr |-> c.previous_addr]
           Q1 == [P EXCEPT ![a] = new]
           Q2 == [Q1 EXCEPT ![c.addr].previous_addr = a]
           Q3 == [Q2 EXCEPT ![c.previous_addr].next_addr = a]
           Q4 == [Q3 EXCEPT ![c.addr].next_addr = a]
<1>1. /\ Q1 \in [Address -> Proposer] /\ SameButLinks(P, Q1, a)
      /\ Q1[a].addr = a /\ Q1[a].url = u /\ Q1[a].stake = STAKE
  BY RoundRobinAssumption DEF Address, Proposer, SameButLinks
<1> HIDE DEF Q1
<1>2. /\ Q2 \in [Address -> Proposer] /\ SameButLinks(P, Q2, a)
      /\ Q2[a].addr = a /\ Q2[a].url = u /\ Q2[a].stake = STAKE
  BY <1>1 DEF Address, Proposer, SameButLinks
<1> HIDE DEF Q2
<1>3. /\ Q3 \in [Address -> Proposer] /\ SameButLinks(P, Q3, a)
      /\ Q3[a].addr = a /\ Q3[a].url = u /\ Q3[a].stake = STAKE
  BY <1>2 DEF Address, Proposer, SameButLinks
<1> HIDE DEF Q3
<1>4. /\ Q4 \in [Address -> Proposer] /\ SameButLinks(P, Q4, a)
      /\ Q4[a].addr = a /\ Q4[a].url = u /\ Q4[a].stake = STAKE
  BY <1>3 DEF Address, Proposer, SameButLinks
<1> HIDE DEF Q4
<1>5. LinkedBehind(P, c, a, u) = IF c.next_addr = c.addr THEN Q4 ELSE Q3
  BY DEF LinkedBehind, Q1, Q2, Q3, Q4
<1> QED
  BY <1>3, <1>4, <1>5

\* Unlinking p deletes p's entry; elsewhere it changes links only.
LEMMA UnlinkedShape ==
  ASSUME NEW P \in [Address -> Proposer], NEW p \in Addr
  PROVE  LET Q == Unlinked(P, p)
         IN /\ Q \in [Address -> Proposer]
            /\ SameButLinks(P, Q, p)
            /\ Q[p] = Deleted
<1> DEFINE nx == P[p].next_addr
           pv == P[p].previous_addr
           Q1 == [P EXCEPT ![nx].previous_addr = pv]
           Q2 == [Q1 EXCEPT ![pv].next_addr = nx]
<1>1. nx \in Address /\ pv \in Address
  BY DEF Address, Proposer
<1> HIDE DEF nx, pv
<1>2. Q1 \in [Address -> Proposer] /\ SameButLinks(P, Q1, p)
  BY <1>1 DEF Address, Proposer, SameButLinks
<1> HIDE DEF Q1
<1>3. Q2 \in [Address -> Proposer] /\ SameButLinks(P, Q2, p)
  BY <1>1, <1>2 DEF Address, Proposer, SameButLinks
<1> HIDE DEF Q2
<1>4. Unlinked(P, p) = [Q2 EXCEPT ![p] = Deleted]
  BY DEF Unlinked, Q1, Q2, nx, pv
<1>5. Deleted \in Proposer
  BY DEF Deleted, Proposer, Address
<1> QED
  BY <1>3, <1>4, <1>5 DEF Address, SameButLinks

\* Linking an address to itself changes no other field anywhere.
LEMMA SelfLinkedShape ==
  ASSUME NEW P \in [Address -> Proposer], NEW s \in Address
  PROVE  LET Q == SelfLinked(P, s)
         IN /\ Q \in [Address -> Proposer]
            /\ \A x \in Address :
                 Q[x].addr = P[x].addr /\ Q[x].url = P[x].url /\ Q[x].stake = P[x].stake
  BY DEF SelfLinked, Address, Proposer

\* What _remove_proposer(p) makes of the mapping and of the copy.
LEMMA RemovalShape ==
  ASSUME TypeOK, NEW p \in Addr, CanRemove(p)
  PROVE  /\ RingWithout(p) \in [Address -> Proposer]
         /\ SameButLinks(proposers, RingWithout(p), p)
         /\ RingWithout(p)[p].addr = NoAddr /\ RingWithout(p)[p].stake = 0
         /\ CurrentWithout(p) \in Proposer
         /\ ExitStake(p) \in Nat
<1>1. ExitStake(p) \in Nat
  <2>1. proposers[p].stake \in Nat
    BY DEF TypeOK, Address, Proposer
  <2> QED
    BY <2>1, RoundRobinAssumption DEF ExitStake, CanRemove
<1>2. Successor(p) \in Proposer
  <2>1. current.next_addr \in Address
    BY DEF TypeOK, Proposer
  <2>2. [proposers EXCEPT ![p].stake = ExitStake(p)] \in [Address -> Proposer]
    BY <1>1 DEF TypeOK, Address, Proposer
  <2> QED
    BY <2>1, <2>2 DEF Successor, TypeOK
<1> DEFINE U == Unlinked(proposers, p)
<1>3. /\ U \in [Address -> Proposer]
      /\ SameButLinks(proposers, U, p)
      /\ U[p].addr = NoAddr /\ U[p].stake = 0
  BY UnlinkedShape DEF TypeOK, Deleted
<1>4. Successor(p).addr \in Address
  BY <1>2 DEF Proposer
<1> HIDE DEF U
<1> DEFINE L == SelfLinked(U, Successor(p).addr)
<1>5. /\ L \in [Address -> Proposer]
      /\ SameButLinks(proposers, L, p)
      /\ L[p].addr = NoAddr /\ L[p].stake = 0
  <2>1. /\ L \in [Address -> Proposer]
        /\ \A x \in Address :
             L[x].addr = U[x].addr /\ L[x].url = U[x].url /\ L[x].stake = U[x].stake
    BY <1>3, <1>4, SelfLinkedShape
  <2>2. p \in Address
    BY DEF Address
  <2> HIDE DEF L
  <2> QED
    BY <1>3, <2>1, <2>2 DEF SameButLinks
<1>6. RingWithout(p) = IF proposer_count = 2 THEN L ELSE U
  BY DEF RingWithout, U
<1> HIDE DEF L
<1>7. /\ RingWithout(p) \in [Address -> Proposer]
      /\ SameButLinks(proposers, RingWithout(p), p)
      /\ RingWithout(p)[p].addr = NoAddr /\ RingWithout(p)[p].stake = 0
  BY <1>3, <1>5, <1>6
<1>8. CurrentWithout(p) \in Proposer
  BY <1>2, <1>4, <1>7 DEF CurrentWithout
<1> QED
  BY <1>1, <1>7, <1>8

-----------------------------------------------------------------------------
(* Type correctness *)

LEMMA InitType == Init => TypeOK
<1> SUFFICES ASSUME Init PROVE TypeOK
  OBVIOUS
<1>1. PICK a \in Addr, u \in Urls :
        /\ current = Sole(a, u)
        /\ proposers = [x \in Address |-> IF x = a THEN Sole(a, u) ELSE Deleted]
        /\ proposer_urls = {u}
  BY DEF Init
<1>2. Sole(a, u) \in Proposer /\ Deleted \in Proposer
  BY RoundRobinAssumption DEF Sole, Deleted, Proposer, Address
<1> QED
  BY <1>1, <1>2, RoundRobinAssumption DEF Init, TypeOK

LEMMA NextType == TypeOK /\ [Next]_vars => TypeOK'
<1> SUFFICES ASSUME TypeOK, [Next]_vars PROVE TypeOK'
  OBVIOUS
<1>0. /\ current.next_addr \in Address
      /\ current.addr \in Address
      /\ \A x \in Address : proposers[x] \in Proposer /\ proposers[x].stake \in Nat
  BY DEF TypeOK, Proposer
<1>1. ASSUME NEW a \in Addr, NEW u \in Urls, bootstrapDefaultProposer(a, u)
      PROVE  TypeOK'
  <2>1. Sole(a, u) \in Proposer
    BY RoundRobinAssumption DEF Sole, Proposer, Address
  <2> QED
    BY <1>1, <2>1, RoundRobinAssumption
    DEF bootstrapDefaultProposer, TypeOK, Address, chain
<1>2. ASSUME NEW a \in Addr, NEW u \in Urls, add_proposer(a, u)
      PROVE  TypeOK'
  <2>1. proposers' \in [Address -> Proposer]
    BY <1>2, LinkedBehindShape DEF add_proposer, TypeOK
  <2>2. current' \in Proposer
    BY <1>0, <1>2, <2>1 DEF add_proposer
  <2> QED
    BY <1>2, <2>1, <2>2, RoundRobinAssumption DEF add_proposer, TypeOK, turn, chain
<1>3. ASSUME NEW p \in Addr, CanRemove(p), Deregister(p)
      PROVE  /\ pending_withdraws' \in [Addr -> Nat]
             /\ last_exit_block' \in [Addr -> Nat]
             /\ proposer_urls' \subseteq Urls
             /\ proposer_count' \in Nat
             /\ escrow' \in Nat /\ balance' \in Nat /\ block' \in Nat /\ l2' \in Nat
  <2>1. ExitStake(p) \in Nat /\ proposers[p].stake \in Nat
    BY <1>3, <1>0, RemovalShape DEF Address
  <2> QED
    BY <1>3, <2>1 DEF Deregister, CanRemove, TypeOK, chain
<1>4. ASSUME NEW p \in Addr, remove_proposer(p)
      PROVE  TypeOK'
  <2>1. proposers' \in [Address -> Proposer] /\ current' \in Proposer
    BY <1>4, RemovalShape DEF remove_proposer
  <2>2. start_l1_block' \in Nat /\ start_l2_block' \in Nat
    BY <1>4 DEF remove_proposer, NewTurn, turn, TypeOK
  <2> QED
    BY <1>3, <1>4, <2>1, <2>2 DEF remove_proposer, TypeOK
<1>5. CASE RotateDiligent
  BY <1>0, <1>5 DEF RotateDiligent, NewTurn, TypeOK, money, chain
<1>6. CASE RotateFining
  <2>1. proposers[current.addr].stake - LAZY_PENALTY \in Nat /\ escrow - LAZY_PENALTY \in Nat
    BY <1>0, <1>6, RoundRobinAssumption DEF RotateFining, CanFine, TypeOK
  <2>2. proposers' \in [Address -> Proposer]
    BY <1>0, <1>6, <2>1 DEF RotateFining, TypeOK, Proposer
  <2> QED
    BY <1>0, <1>6, <2>1, <2>2 DEF RotateFining, NewTurn, TypeOK, chain
<1>7. CASE RotateExpelling
  <2>1. current.addr \in Addr /\ CanRemove(current.addr)
    BY <1>0, <1>7 DEF RotateExpelling, CanExpel, CanRemove, Address
  <2>2. proposers' \in [Address -> Proposer] /\ CurrentWithout(current.addr) \in Proposer
    BY <1>7, <2>1, RemovalShape DEF RotateExpelling
  <2>3. current' \in Proposer
    BY <1>7, <2>2 DEF RotateExpelling, Proposer
  <2> QED
    BY <1>3, <1>7, <2>1, <2>2, <2>3 DEF RotateExpelling, NewTurn, TypeOK
<1>8. ASSUME NEW a \in Addr, NEW amount \in Amounts, withdraw(a, amount)
      PROVE  TypeOK'
  <2>1. amount \in Nat
    BY RoundRobinAssumption
  <2> QED
    BY <1>8, <2>1 DEF withdraw, TypeOK, turn, chain
<1>9. ASSUME NEW n \in 0 .. MaxL2, set_nightfall(n)
      PROVE  TypeOK'
  BY <1>9, RoundRobinAssumption DEF set_nightfall, TypeOK, money, turn
<1>10. CASE ProposeBlock
  BY <1>10 DEF ProposeBlock, TypeOK, money, turn
<1>11. CASE MineL1Block
  BY <1>11 DEF MineL1Block, TypeOK, money, turn
<1>12. CASE UNCHANGED vars
  BY <1>12 DEF vars, TypeOK, money, turn, chain
<1> QED
  BY <1>1, <1>2, <1>4, <1>5, <1>6, <1>7, <1>8, <1>9, <1>10, <1>11, <1>12
  DEF Next, rotate_proposer

\* Every field keeps its type whatever the sequence of calls: in particular
\* no unsigned quantity (stake, escrow, withdrawable amount, count, balance)
\* ever goes below zero.
THEOREM TypeCorrect == Spec => []TypeOK
  BY InitType, NextType, PTL DEF Spec

-----------------------------------------------------------------------------
(* The registry: who is registered, how many they are, which URLs they use. *)

\* An entry holds its own address or none, and the zero entry holds none:
\* stray link writes never make an entry look registered.
AddrInv ==
  /\ proposers[NoAddr].addr = NoAddr
  /\ \A a \in Addr : proposers[a].addr \in {a, NoAddr}

RegistryInv ==
  /\ AddrInv
  /\ IsFiniteSet(Registered)
  /\ CountIsTheRegistered
  /\ UrlsAreTheRegistered

\* A step that enters one unregistered account under an unused URL.
LEMMA JoinKeepsRegistry ==
  ASSUME RegistryInv, TypeOK, NEW a \in Addr, NEW u \in Urls,
         SameButLinks(proposers, proposers', a),
         proposers'[a].addr = a, proposers'[a].url = u,
         proposers[a].addr = NoAddr, u \notin proposer_urls,
         proposer_urls' = proposer_urls \cup {u},
         proposer_count' = proposer_count + 1
  PROVE  RegistryInv'
<1>1. a \notin Registered
  BY RoundRobinAssumption DEF Registered
<1>2. Registered' = Registered \cup {a}
  BY DEF Registered, SameButLinks, Address
<1>3. AddrInv'
  BY RoundRobinAssumption DEF RegistryInv, AddrInv, SameButLinks, Address
<1>4. IsFiniteSet(Registered)' /\ CountIsTheRegistered'
  BY <1>1, <1>2, FS_AddElement DEF RegistryInv, CountIsTheRegistered
<1>5. \A x \in Registered : proposers'[x].url = proposers[x].url
  BY <1>1 DEF SameButLinks, Registered, Address
<1>6. UrlsAreTheRegistered'
  <2>1. proposer_urls' = {proposers'[x].url : x \in Registered'}
    BY <1>2, <1>5 DEF RegistryInv, UrlsAreTheRegistered
  <2>2. \A x, y \in Registered' : proposers'[x].url = proposers'[y].url => x = y
    BY <1>2, <1>5 DEF RegistryInv, UrlsAreTheRegistered
  <2> QED
    BY <2>1, <2>2 DEF UrlsAreTheRegistered
<1> QED
  BY <1>3, <1>4, <1>6 DEF RegistryInv

\* A step that takes one registered account out and frees its URL.
LEMMA LeaveKeepsRegistry ==
  ASSUME RegistryInv, TypeOK, NEW p \in Addr,
         SameButLinks(proposers, proposers', p),
         proposers[p].addr = p, proposers'[p].addr = NoAddr,
         proposer_urls' = proposer_urls \ {proposers[p].url},
         proposer_count' = proposer_count - 1
  PROVE  RegistryInv'
<1>1. p \in Registered
  BY DEF Registered
<1>2. Registered' = Registered \ {p}
  BY RoundRobinAssumption DEF Registered, SameButLinks, Address
<1>3. AddrInv'
  BY RoundRobinAssumption DEF RegistryInv, AddrInv, SameButLinks, Address
<1>4. IsFiniteSet(Registered)' /\ CountIsTheRegistered'
  BY <1>1, <1>2, FS_RemoveElement DEF RegistryInv, CountIsTheRegistered
<1>5. \A x \in Registered \ {p} : proposers'[x].url = proposers[x].url
  BY DEF SameButLinks, Registered, Address
<1>6. UrlsAreTheRegistered'
  <2>1. proposer_urls' = {proposers'[x].url : x \in Registered'}
    BY <1>1, <1>2, <1>5 DEF RegistryInv, UrlsAreTheRegistered
  <2>2. \A x, y \in Registered' : proposers'[x].url = proposers'[y].url => x = y
    BY <1>2, <1>5 DEF RegistryInv, UrlsAreTheRegistered
  <2> QED
    BY <2>1, <2>2 DEF UrlsAreTheRegistered
<1> QED
  BY <1>3, <1>4, <1>6 DEF RegistryInv

\* A step that changes no address, no URL and no count.
LEMMA StayKeepsRegistry ==
  ASSUME RegistryInv,
         \A x \in Address : /\ proposers'[x].addr = proposers[x].addr
                            /\ proposers'[x].url = proposers[x].url,
         proposer_urls' = proposer_urls,
         proposer_count' = proposer_count
  PROVE  RegistryInv'
<1>1. Registered' = Registered
  BY DEF Registered, Address
<1>2. AddrInv'
  BY DEF RegistryInv, AddrInv, Address
<1>3. UrlsAreTheRegistered'
  <2>1. \A x \in Registered : proposers'[x].url = proposers[x].url
    BY DEF Registered, Address
  <2> QED
    BY <1>1, <2>1 DEF RegistryInv, UrlsAreTheRegistered
<1> QED
  BY <1>1, <1>2, <1>3 DEF RegistryInv, CountIsTheRegistered

LEMMA InitRegistry == Init => RegistryInv
<1> SUFFICES ASSUME Init PROVE RegistryInv
  OBVIOUS
<1>1. PICK a \in Addr, u \in Urls :
        /\ proposers = [x \in Address |-> IF x = a THEN Sole(a, u) ELSE Deleted]
        /\ proposer_urls = {u}
  BY DEF Init
<1>2. \A x \in Address : /\ proposers[x].addr = (IF x = a THEN a ELSE NoAddr)
                         /\ x = a => proposers[x].url = u
  BY <1>1 DEF Sole, Deleted
<1>3. Registered = {a}
  BY <1>2, RoundRobinAssumption DEF Registered, Address
<1>4. AddrInv
  BY <1>2, RoundRobinAssumption DEF AddrInv, Address
<1>5. IsFiniteSet(Registered) /\ CountIsTheRegistered
  BY <1>3, FS_Singleton DEF Init, CountIsTheRegistered
<1>6. UrlsAreTheRegistered
  BY <1>1, <1>2, <1>3 DEF UrlsAreTheRegistered, Address
<1> QED
  BY <1>4, <1>5, <1>6 DEF RegistryInv

LEMMA NextRegistry == TypeOK /\ RegistryInv /\ [Next]_vars => RegistryInv'
<1> SUFFICES ASSUME TypeOK, RegistryInv, [Next]_vars PROVE RegistryInv'
  OBVIOUS
<1>1. ASSUME NEW a \in Addr, NEW u \in Urls, bootstrapDefaultProposer(a, u)
      PROVE  RegistryInv'
  <2>1. Registered = {}
    BY <1>1, FS_EmptySet DEF bootstrapDefaultProposer, RegistryInv, CountIsTheRegistered
  <2>2. proposers[a].addr = NoAddr
    BY <2>1 DEF RegistryInv, AddrInv, Registered
  <2>3. /\ SameButLinks(proposers, proposers', a)
        /\ proposers'[a].addr = a /\ proposers'[a].url = u
    BY <1>1 DEF bootstrapDefaultProposer, TypeOK, SameButLinks, Address, Sole
  <2>4. /\ proposer_urls' = proposer_urls \cup {u} /\ u \notin proposer_urls
        /\ proposer_count' = proposer_count + 1
    BY <1>1 DEF bootstrapDefaultProposer
  <2> QED
    BY <2>2, <2>3, <2>4, JoinKeepsRegistry
<1>2. ASSUME NEW a \in Addr, NEW u \in Urls, add_proposer(a, u)
      PROVE  RegistryInv'
  <2>1. /\ SameButLinks(proposers, proposers', a)
        /\ proposers'[a].addr = a /\ proposers'[a].url = u
    BY <1>2, LinkedBehindShape DEF add_proposer, TypeOK
  <2> QED
    BY <1>2, <2>1, JoinKeepsRegistry DEF add_proposer
<1>3. ASSUME NEW p \in Addr, CanRemove(p), Deregister(p), proposers' = RingWithout(p)
      PROVE  RegistryInv'
  BY <1>3, RemovalShape, LeaveKeepsRegistry DEF CanRemove, Deregister
<1>4. ASSUME NEW p \in Addr, remove_proposer(p)
      PROVE  RegistryInv'
  BY <1>3, <1>4 DEF remove_proposer
<1>5. CASE RotateDiligent
  BY <1>5, StayKeepsRegistry DEF RotateDiligent
<1>6. CASE RotateFining
  <2>1. \A x \in Address : /\ proposers'[x].addr = proposers[x].addr
                           /\ proposers'[x].url = proposers[x].url
    BY <1>6 DEF RotateFining, TypeOK, Proposer
  <2> QED
    BY <1>6, <2>1, StayKeepsRegistry DEF RotateFining
<1>7. CASE RotateExpelling
  <2>1. current.addr \in Addr /\ CanRemove(current.addr)
    BY <1>7 DEF RotateExpelling, CanExpel, CanRemove, Address, TypeOK, Proposer
  <2> QED
    BY <1>3, <1>7, <2>1 DEF RotateExpelling
<1>8. ASSUME NEW a \in Addr, NEW amount \in Amounts, withdraw(a, amount)
      PROVE  RegistryInv'
  BY <1>8, StayKeepsRegistry DEF withdraw
<1>9. ASSUME NEW n \in 0 .. MaxL2, set_nightfall(n)
      PROVE  RegistryInv'
  BY <1>9, StayKeepsRegistry DEF set_nightfall
<1>10. CASE ProposeBlock
  BY <1>10, StayKeepsRegistry DEF ProposeBlock
<1>11. CASE MineL1Block
  BY <1>11, StayKeepsRegistry DEF MineL1Block
<1>12. CASE UNCHANGED vars
  BY <1>12, StayKeepsRegistry DEF vars
<1> QED
  BY <1>1, <1>2, <1>4, <1>5, <1>6, <1>7, <1>8, <1>9, <1>10, <1>11, <1>12
  DEF Next, rotate_proposer

LEMMA RegistryCorrect == Spec => []RegistryInv
  BY InitType, NextType, InitRegistry, NextRegistry, PTL DEF Spec

\* proposer_count is the number of registered proposers, for any number of
\* accounts and any sequence of registrations, exits, fines and expulsions,
\* also when a stale `current` has damaged the links.
THEOREM CountCorrect == Spec => []CountIsTheRegistered
<1>1. RegistryInv => CountIsTheRegistered
  BY DEF RegistryInv
<1> QED
  BY <1>1, RegistryCorrect, PTL

\* The URLs in use are exactly those of the registered proposers, one each.
THEOREM UrlsCorrect == Spec => []UrlsAreTheRegistered
<1>1. RegistryInv => UrlsAreTheRegistered
  BY DEF RegistryInv
<1> QED
  BY <1>1, RegistryCorrect, PTL

-----------------------------------------------------------------------------
(* The ring, as long as `current` is fresh. *)

\* Links, for a given mapping P and set R of registered accounts.
LinksIn(P, R) ==
  \A a \in R : /\ P[a].next_addr \in R
               /\ P[a].previous_addr \in R
               /\ P[P[a].next_addr].previous_addr = a
               /\ P[P[a].previous_addr].next_addr = a

\* In Q whoever was followed by p is followed by p's successor.
Bypassed(P, Q, R, p) ==
  \A x \in R \ {p} :
    Q[x].next_addr = IF P[x].next_addr = p THEN P[p].next_addr ELSE P[x].next_addr

\* In Q whoever was followed by c is followed by a, and a by c.
Inserted(P, Q, R, a, c) ==
  /\ Q[a].next_addr = c
  /\ \A x \in R : Q[x].next_addr = IF P[x].next_addr = c THEN a ELSE P[x].next_addr

\* Joining the neighbours of p leaves the others correctly linked.
LEMMA UnlinkedLinks ==
  ASSUME NEW P \in [Address -> Proposer], NEW R \in SUBSET Addr, NEW p \in R,
         LinksIn(P, R)
  PROVE  /\ LinksIn(Unlinked(P, p), R \ {p})
         /\ Bypassed(P, Unlinked(P, p), R, p)
<1> DEFINE nx == P[p].next_addr
           pv == P[p].previous_addr
           Q1 == [P EXCEPT ![nx].previous_addr = pv]
           Q2 == [Q1 EXCEPT ![pv].next_addr = nx]
           U  == Unlinked(P, p)
<1>0. R \subseteq Address
  BY DEF Address
<1>1. nx \in R /\ pv \in R
  BY DEF LinksIn
<1>2. \A x \in R : /\ Q1[x].next_addr = P[x].next_addr
                  /\ Q1[x].previous_addr = (IF x = nx THEN pv ELSE P[x].previous_addr)
  BY <1>0, <1>1 DEF Proposer
<1>3. Q1 \in [Address -> Proposer]
  BY <1>0, <1>1 DEF Proposer
<1> HIDE DEF Q1
<1>4. \A x \in R : /\ Q2[x].next_addr = (IF x = pv THEN nx ELSE Q1[x].next_addr)
                  /\ Q2[x].previous_addr = Q1[x].previous_addr
  BY <1>0, <1>1, <1>3 DEF Proposer
<1>5. Q2 \in [Address -> Proposer]
  BY <1>0, <1>1, <1>3 DEF Proposer
<1> HIDE DEF Q2
<1>6. U = [Q2 EXCEPT ![p] = Deleted]
  BY DEF Unlinked, Q1, Q2
<1> HIDE DEF U
<1>7. \A x \in R \ {p} :
        /\ U[x].next_addr = (IF x = pv THEN nx ELSE P[x].next_addr)
        /\ U[x].previous_addr = (IF x = nx THEN pv ELSE P[x].previous_addr)
  BY <1>0, <1>2, <1>4, <1>5, <1>6
<1>8. /\ P[nx].previous_addr = p /\ P[pv].next_addr = p
      /\ nx = p <=> pv = p
  BY <1>1 DEF LinksIn
<1> HIDE DEF nx, pv
<1>9. LinksIn(U, R \ {p})
  <2> SUFFICES ASSUME NEW x \in R \ {p}
               PROVE  /\ U[x].next_addr \in R \ {p}
                      /\ U[x].previous_addr \in R \ {p}
                      /\ U[U[x].next_addr].previous_addr = x
                      /\ U[U[x].previous_addr].next_addr = x
    BY DEF LinksIn
  <2>1. U[x].next_addr \in R \ {p} /\ U[U[x].next_addr].previous_addr = x
    <3>1. CASE x = pv
      BY <1>1, <1>7, <1>8, <3>1
    <3>2. CASE x # pv
      BY <1>1, <1>7, <1>8, <3>2 DEF LinksIn, nx, pv
    <3> QED
      BY <3>1, <3>2
  <2>2. U[x].previous_addr \in R \ {p} /\ U[U[x].previous_addr].next_addr = x
    <3>1. CASE x = nx
      BY <1>1, <1>7, <1>8, <3>1
    <3>2. CASE x # nx
      BY <1>1, <1>7, <1>8, <3>2 DEF LinksIn, nx, pv
    <3> QED
      BY <3>1, <3>2
  <2> QED
    BY <2>1, <2>2
<1>10. Bypassed(P, U, R, p)
  BY <1>1, <1>7, <1>8 DEF LinksIn, Bypassed, nx, pv
<1> QED
  BY <1>9, <1>10 DEF U

\* Inserting a behind an entry whose copy is fresh keeps the ring linked.
LEMMA LinkedBehindLinks ==
  ASSUME NEW P \in [Address -> Proposer], NEW R \in SUBSET Addr, LinksIn(P, R),
         NEW c \in Proposer, c.addr \in R,
         c.next_addr = P[c.addr].next_addr,
         c.previous_addr = P[c.addr].previous_addr,
         NEW a \in Addr \ R, NEW u \in Urls
  PROVE  /\ LinksIn(LinkedBehind(P, c, a, u), R \cup {a})
         /\ Inserted(P, LinkedBehind(P, c, a, u), R, a, c.addr)
<1> DEFINE cur == c.addr
           pv  == c.previous_addr
           new == [stake |-> STAKE, addr |-> a, url |-> u,
                   next_addr |-> cur, previous_addr |-> pv]
           Q1 == [P EXCEPT ![a] = new]
           Q2 == [Q1 EXCEPT ![cur].previous_addr = a]
           Q3 == [Q2 EXCEPT ![pv].next_addr = a]
           Q4 == [Q3 EXCEPT ![cur].next_addr = a]
           Q  == LinkedBehind(P, c, a, u)
<1>0. R \subseteq Address /\ a \in Address /\ a \notin R
  BY DEF Address
<1>1. cur \in R /\ pv \in R /\ P[pv].next_addr = cur
  BY DEF LinksIn
<1>2. /\ Q1 \in [Address -> Proposer]
      /\ Q1[a].next_addr = cur /\ Q1[a].previous_addr = pv
      /\ \A x \in R : Q1[x] = P[x]
  BY <1>0, <1>1, RoundRobinAssumption DEF Proposer
<1> HIDE DEF Q1, new
<1>3. /\ Q2 \in [Address -> Proposer]
      /\ Q2[a].next_addr = cur /\ Q2[a].previous_addr = pv
      /\ \A x \in R : /\ Q2[x].next_addr = P[x].next_addr
                      /\ Q2[x].previous_addr = (IF x = cur THEN a ELSE P[x].previous_addr)
  BY <1>0, <1>1, <1>2 DEF Proposer
<1> HIDE DEF Q2
<1>4. /\ Q3 \in [Address -> Proposer]
      /\ Q3[a].next_addr = cur /\ Q3[a].previous_addr = pv
      /\ \A x \in R : /\ Q3[x].next_addr = (IF x = pv THEN a ELSE P[x].next_addr)
                      /\ Q3[x].previous_addr = (IF x = cur THEN a ELSE P[x].previous_addr)
  BY <1>0, <1>1, <1>3 DEF Proposer
<1> HIDE DEF Q3
<1>5. c.next_addr = cur => pv = cur
  BY <1>1 DEF LinksIn
<1>6. c.next_addr = cur =>
        /\ Q4[a].next_addr = cur /\ Q4[a].previous_addr = pv
        /\ \A x \in R : /\ Q4[x].next_addr = (IF x = pv THEN a ELSE P[x].next_addr)
                        /\ Q4[x].previous_addr = (IF x = cur THEN a ELSE P[x].previous_addr)
  BY <1>0, <1>1, <1>4, <1>5 DEF Proposer
<1> HIDE DEF Q4
<1>7. Q = IF c.next_addr = cur THEN Q4 ELSE Q3
  BY DEF LinkedBehind, Q1, Q2, Q3, Q4, new
<1> HIDE DEF Q
<1>8. /\ Q[a].next_addr = cur /\ Q[a].previous_addr = pv
      /\ \A x \in R : /\ Q[x].next_addr = (IF x = pv THEN a ELSE P[x].next_addr)
                      /\ Q[x].previous_addr = (IF x = cur THEN a ELSE P[x].previous_addr)
  BY <1>4, <1>6, <1>7
<1>9. \A x \in R : /\ P[x].next_addr = cur => x = pv
                   /\ P[x].previous_addr = pv => x = cur
  BY <1>1 DEF LinksIn
<1> HIDE DEF cur, pv
<1>10. LinksIn(Q, R \cup {a})
  <2> SUFFICES ASSUME NEW x \in R \cup {a}
               PROVE  /\ Q[x].next_addr \in R \cup {a}
                      /\ Q[x].previous_addr \in R \cup {a}
                      /\ Q[Q[x].next_addr].previous_addr = x
                      /\ Q[Q[x].previous_addr].next_addr = x
    BY DEF LinksIn
  <2>1. CASE x = a
    BY <1>0, <1>1, <1>8, <2>1
  <2>2. CASE x # a
    BY <1>0, <1>1, <1>8, <1>9, <2>2 DEF LinksIn
  <2> QED
    BY <2>1, <2>2
<1>11. Inserted(P, Q, R, a, cur)
  BY <1>1, <1>8, <1>9 DEF Inserted
<1> QED
  BY <1>10, <1>11 DEF Q, cur

\* What _remove_proposer makes of well formed links.
LEMMA RemovalLinks ==
  ASSUME TypeOK, RegistryInv, Links, NEW p \in Addr, CanRemove(p)
  PROVE  /\ LinksIn(RingWithout(p), Registered \ {p})
         /\ Bypassed(proposers, RingWithout(p), Registered, p)
<1> DEFINE R == Registered \ {p}
           U == Unlinked(proposers, p)
           s == Successor(p).addr
<1>1. LinksIn(U, R) /\ Bypassed(proposers, U, Registered, p)
  <2>1. Registered \in SUBSET Addr /\ p \in Registered
    BY DEF CanRemove, Registered
  <2>2. LinksIn(proposers, Registered) /\ proposers \in [Address -> Proposer]
    BY DEF Links, LinksIn, TypeOK
  <2> QED
    BY <2>1, <2>2, UnlinkedLinks
<1>2. CASE proposer_count # 2
  BY <1>1, <1>2 DEF RingWithout
<1>3. CASE proposer_count = 2
  <2>1. p \in Registered
    BY DEF CanRemove, Registered
  <2>2. IsFiniteSet(R) /\ Cardinality(R) = 1
    <3>1. IsFiniteSet(Registered) /\ Cardinality(Registered) = 2
      BY <1>3 DEF RegistryInv, CountIsTheRegistered
    <3> QED
      BY <2>1, <3>1, FS_RemoveElement
  <2>3. PICK q : R = {q}
    BY <2>2, FS_Singleton
  <2>4. q \in Address /\ U[q].next_addr = q /\ U[q].previous_addr = q
    BY <1>1, <2>3 DEF LinksIn, Registered, Address
  <2>5. U \in [Address -> Proposer]
    BY UnlinkedShape DEF TypeOK
  <2>6. RingWithout(p) = SelfLinked(U, s)
    BY <1>3 DEF RingWithout
  <2> HIDE DEF U, s
  <2>7. RingWithout(p)[q].next_addr = q /\ RingWithout(p)[q].previous_addr = q
    BY <2>4, <2>5, <2>6 DEF SelfLinked, Proposer
  <2>8. Bypassed(proposers, RingWithout(p), Registered, p)
    BY <1>1, <2>3, <2>4, <2>7 DEF Bypassed, U
  <2> QED
    BY <2>3, <2>7, <2>8 DEF LinksIn
<1> QED
  BY <1>2, <1>3

\* From a state with sound links and a fresh copy, no call breaks the links.
LEMMA FreshStep ==
  TypeOK /\ RegistryInv /\ [Next]_vars => (Fresh /\ Links => Links')
<1> SUFFICES ASSUME TypeOK, RegistryInv, [Next]_vars, Fresh, Links PROVE Links'
  OBVIOUS
<1>0. current.addr \in Registered /\ LinksIn(proposers, Registered)
  BY DEF Fresh, Links, LinksIn
<1>1. ASSUME NEW a \in Addr, NEW u \in Urls, bootstrapDefaultProposer(a, u)
      PROVE  Links'
  <2>1. Registered = {}
    BY <1>1, FS_EmptySet DEF bootstrapDefaultProposer, RegistryInv, CountIsTheRegistered
  <2> QED
    BY <1>0, <2>1
<1>2. ASSUME NEW a \in Addr, NEW u \in Urls, add_proposer(a, u)
      PROVE  Links'
  <2>1. a \in Addr \ Registered
    BY <1>2, RoundRobinAssumption DEF add_proposer, Registered
  <2>2. LinksIn(proposers', Registered \cup {a})
    <3>1. Registered \in SUBSET Addr
      BY DEF Registered
    <3> QED
      BY <1>0, <1>2, <2>1, <3>1, LinkedBehindLinks DEF add_proposer, TypeOK, Fresh
  <2>3. SameButLinks(proposers, proposers', a) /\ proposers'[a].addr = a
    BY <1>2, LinkedBehindShape DEF add_proposer, TypeOK
  <2>4. Registered' = Registered \cup {a}
    BY <2>3 DEF SameButLinks, Registered, Address
  <2> QED
    BY <2>2, <2>4 DEF Links, LinksIn
<1>3. ASSUME NEW p \in Addr, CanRemove(p), proposers' = RingWithout(p)
      PROVE  Links'
  <2>1. Registered' = Registered \ {p}
    BY <1>3, RemovalShape, RoundRobinAssumption DEF SameButLinks, Registered, Address
  <2>2. LinksIn(proposers', Registered \ {p})
    BY <1>3, RemovalLinks
  <2> QED
    BY <2>1, <2>2 DEF Links, LinksIn
<1>4. ASSUME NEW p \in Addr, remove_proposer(p)
      PROVE  Links'
  BY <1>3, <1>4 DEF remove_proposer
<1>5. ASSUME UNCHANGED proposers
      PROVE  Links'
  BY <1>5 DEF Links, Registered
<1>6. CASE RotateFining
  <2>1. \A x \in Address : /\ proposers'[x].addr = proposers[x].addr
                           /\ proposers'[x].next_addr = proposers[x].next_addr
                           /\ proposers'[x].previous_addr = proposers[x].previous_addr
    BY <1>6 DEF RotateFining, TypeOK, Proposer
  <2>2. Registered' = Registered /\ Registered \subseteq Address
    BY <2>1 DEF Registered, Address
  <2> QED
    BY <2>1, <2>2 DEF Links
<1>7. CASE RotateExpelling
  <2>1. current.addr \in Addr /\ CanRemove(current.addr)
    BY <1>7 DEF RotateExpelling, CanExpel, CanRemove, Address, TypeOK, Proposer
  <2> QED
    BY <1>3, <1>7, <2>1 DEF RotateExpelling
<1> QED
  BY <1>1, <1>2, <1>4, <1>5, <1>6, <1>7
  DEF Next, rotate_proposer, RotateDiligent, withdraw, set_nightfall, ProposeBlock,
      MineL1Block, vars

\* Damage to the ring always begins with a stale copy: no call by itself,
\* made while `current` agrees with the mapping, breaks the links.
THEOREM FreshLinksCorrect == Spec => FreshStepKeepsLinks
<1>1. TypeOK /\ RegistryInv /\ [Next]_vars => [Fresh /\ Links => Links']_vars
  BY FreshStep
<1> QED
  BY <1>1, TypeCorrect, RegistryCorrect, PTL DEF Spec, FreshStepKeepsLinks

-----------------------------------------------------------------------------
(* The money.  The sums are over all accounts, so the proof follows what a *)
(* step does to the entry of one account; that an entry without a stake is *)
(* the only kind a registration overwrites is the strengthening it needs.  *)

Stakes == [a \in Addr |-> proposers[a].stake]
Pending == SumFunctionOnSet(pending_withdraws, Addr)

\* Only a registered account has a stake.
StakeInv ==
  /\ proposers[NoAddr].stake = 0
  /\ \A a \in Addr : proposers[a].addr # a => proposers[a].stake = 0

MoneyInv == StakeInv /\ EscrowIsTheStakes /\ Solvent

\* A step that changes the stake of one account.
LEMMA StakeChange ==
  ASSUME TypeOK, TypeOK', EscrowIsTheStakes, NEW a \in Addr,
         \A x \in Addr \ {a} : proposers'[x].stake = proposers[x].stake,
         escrow' = escrow - proposers[a].stake + proposers'[a].stake
  PROVE  EscrowIsTheStakes'
<1>1. /\ \A x \in Addr : Stakes[x] \in Int /\ Stakes[x] = proposers[x].stake
      /\ \A x \in Addr : Stakes'[x] \in Int /\ Stakes'[x] = proposers'[x].stake
  BY DEF TypeOK, Address, Proposer, Stakes
<1>2. IsFiniteSet(Addr)
  BY RoundRobinAssumption
<1>3. SumFunctionOnSet(Stakes', Addr) =
        SumFunctionOnSet(Stakes, Addr) - Stakes[a] + Stakes'[a]
  BY <1>1, <1>2, SumUpdate
<1>4. escrow = SumFunctionOnSet(Stakes, Addr)
  BY DEF EscrowIsTheStakes, Stakes
<1>5. escrow' = SumFunctionOnSet(Stakes', Addr)
  BY <1>1, <1>3, <1>4
<1> QED
  BY <1>5 DEF EscrowIsTheStakes, Stakes

\* A step that changes no stake.
LEMMA StakesStay ==
  ASSUME TypeOK, EscrowIsTheStakes, escrow' = escrow,
         \A x \in Addr : proposers'[x].stake = proposers[x].stake
  PROVE  EscrowIsTheStakes'
<1>1. Stakes' = Stakes
  BY DEF Stakes
<1> QED
  BY <1>1 DEF EscrowIsTheStakes, Stakes

\* What the pending withdrawals come to.
LEMMA PendingChange ==
  ASSUME TypeOK, NEW a \in Addr, NEW v \in Int,
         pending_withdraws' = [pending_withdraws EXCEPT ![a] = v]
  PROVE  Pending \in Int /\ Pending' = Pending - pending_withdraws[a] + v
<1>1. /\ \A x \in Addr : pending_withdraws[x] \in Int
      /\ pending_withdraws'[a] = v /\ pending_withdraws'[a] \in Int
      /\ \A x \in Addr \ {a} : pending_withdraws'[x] = pending_withdraws[x]
  BY DEF TypeOK
<1>2. IsFiniteSet(Addr)
  BY RoundRobinAssumption
<1>3. SumFunctionOnSet(pending_withdraws', Addr) =
        SumFunctionOnSet(pending_withdraws, Addr) - pending_withdraws[a]
          + pending_withdraws'[a]
  BY ONLY <1>1, <1>2, a \in Addr, SumUpdate
<1>4. SumFunctionOnSet(pending_withdraws, Addr) \in Int
  BY ONLY <1>1, <1>2, SumPick
<1> QED
  BY <1>1, <1>3, <1>4 DEF Pending

\* A step that touches the money of one account only, and takes out of the
\* contract no more than it takes from that account.
LEMMA AccountStep ==
  ASSUME TypeOK, TypeOK', EscrowIsTheStakes, Solvent, NEW a \in Addr, NEW v \in Int,
         \A x \in Addr \ {a} : proposers'[x].stake = proposers[x].stake,
         escrow' = escrow - proposers[a].stake + proposers'[a].stake,
         pending_withdraws' = [pending_withdraws EXCEPT ![a] = v],
         balance' - escrow' - v >= balance - escrow - pending_withdraws[a]
  PROVE  EscrowIsTheStakes' /\ Solvent'
<1>1. EscrowIsTheStakes'
  BY StakeChange
<1>2. Pending \in Int /\ Pending' = Pending - pending_withdraws[a] + v
  BY PendingChange
<1>3. balance >= escrow + Pending
  BY DEF Solvent, Pending
<1>4. /\ balance \in Int /\ escrow \in Int /\ balance' \in Int /\ escrow' \in Int
      /\ pending_withdraws[a] \in Int
  BY DEF TypeOK
<1>5. balance' >= escrow' + Pending'
  <2> HIDE DEF Pending
  <2> QED
    BY <1>2, <1>3, <1>4
<1> QED
  BY <1>1, <1>5 DEF Solvent, Pending

\* The same when no money moves.
LEMMA IdleStep ==
  ASSUME TypeOK, MoneyInv, UNCHANGED money,
         \A x \in Address : /\ proposers'[x].stake = proposers[x].stake
                            /\ proposers'[x].addr = proposers[x].addr
  PROVE  MoneyInv'
<1>1. EscrowIsTheStakes'
  BY StakesStay DEF MoneyInv, money, Address
<1>2. Solvent'
  BY DEF MoneyInv, Solvent, money
<1>3. StakeInv'
  BY DEF MoneyInv, StakeInv, Address
<1> QED
  BY <1>1, <1>2, <1>3 DEF MoneyInv

\* A registration pays the stake in.
LEMMA JoinStep ==
  ASSUME TypeOK, TypeOK', MoneyInv, NEW a \in Addr,
         proposers[a].addr # a, SameButLinks(proposers, proposers', a),
         proposers'[a].addr = a /\ proposers'[a].stake = STAKE,
         escrow' = escrow + STAKE /\ balance' = balance + STAKE,
         UNCHANGED pending_withdraws
  PROVE  MoneyInv'
<1>1. /\ proposers[a].stake = 0
      /\ \A x \in Addr \ {a} : proposers'[x].stake = proposers[x].stake
  BY DEF MoneyInv, StakeInv, SameButLinks, Address
<1>2. StakeInv'
  BY RoundRobinAssumption DEF MoneyInv, StakeInv, SameButLinks, Address
<1> DEFINE v == pending_withdraws[a]
<1>3. /\ v \in Int /\ STAKE \in Int /\ balance \in Int /\ escrow \in Int
      /\ pending_withdraws' = [pending_withdraws EXCEPT ![a] = v]
  BY RoundRobinAssumption DEF TypeOK
<1>4. EscrowIsTheStakes' /\ Solvent'
  <2>1. /\ escrow' = escrow - proposers[a].stake + proposers'[a].stake
        /\ balance' - escrow' - v >= balance - escrow - pending_withdraws[a]
    BY <1>1, <1>3
  <2> HIDE DEF v
  <2> QED
    BY <1>1, <1>3, <2>1, AccountStep DEF MoneyInv
<1> QED
  BY <1>2, <1>4 DEF MoneyInv

\* A removal turns the stake, less the exit penalty, into a withdrawal.
LEMMA LeaveStep ==
  ASSUME TypeOK, TypeOK', MoneyInv, NEW p \in Addr,
         CanRemove(p), Deregister(p), proposers' = RingWithout(p)
  PROVE  MoneyInv'
<1>1. /\ SameButLinks(proposers, proposers', p)
      /\ proposers'[p].addr = NoAddr /\ proposers'[p].stake = 0
      /\ ExitStake(p) \in Nat
  BY RemovalShape
<1>2. StakeInv'
  BY <1>1, RoundRobinAssumption DEF MoneyInv, StakeInv, SameButLinks, Address
<1>3. ExitStake(p) <= proposers[p].stake /\ proposers[p].stake \in Nat
  BY RoundRobinAssumption DEF ExitStake, TypeOK, Address, Proposer
<1> DEFINE v == pending_withdraws[p] + ExitStake(p)
<1>4. /\ v \in Int /\ balance \in Int /\ escrow \in Int /\ pending_withdraws[p] \in Int
      /\ pending_withdraws' = [pending_withdraws EXCEPT ![p] = v]
  BY <1>1 DEF TypeOK, Deregister
<1>5. /\ \A x \in Addr \ {p} : proposers'[x].stake = proposers[x].stake
      /\ escrow' = escrow - proposers[p].stake + proposers'[p].stake
      /\ balance' - escrow' - v >= balance - escrow - pending_withdraws[p]
  <2>1. escrow' = escrow - proposers[p].stake /\ balance' = balance
    BY DEF Deregister
  <2>2. \A x \in Addr \ {p} : proposers'[x].stake = proposers[x].stake
    BY <1>1 DEF SameButLinks, Address
  <2>3. escrow - proposers[p].stake = escrow - proposers[p].stake + 0
    BY <1>3, <1>4
  <2>4. balance - (escrow - proposers[p].stake) - v >= balance - escrow - pending_withdraws[p]
    BY <1>1, <1>3, <1>4
  <2> QED
    BY <1>1, <2>1, <2>2, <2>3, <2>4
<1>6. EscrowIsTheStakes' /\ Solvent'
  <2> HIDE DEF v
  <2> QED
    BY <1>4, <1>5, AccountStep DEF MoneyInv
<1> QED
  BY <1>2, <1>6 DEF MoneyInv

LEMMA InitMoney == Init => MoneyInv
<1> SUFFICES ASSUME Init PROVE MoneyInv
  OBVIOUS
<1>1. PICK a \in Addr, u \in Urls :
        proposers = [x \in Address |-> IF x = a THEN Sole(a, u) ELSE Deleted]
  BY DEF Init
<1>2. StakeInv
  BY <1>1, RoundRobinAssumption DEF StakeInv, Sole, Deleted, Address
<1>3. IsFiniteSet(Addr) /\ STAKE \in Int
  BY RoundRobinAssumption
<1>4. /\ \A x \in Addr : Stakes[x] = IF x = a THEN STAKE ELSE 0
      /\ \A x \in Addr : pending_withdraws[x] = 0
  BY <1>1 DEF Init, Stakes, Sole, Deleted, Address
<1>5. \A S \in SUBSET Addr : IsFiniteSet(S)
  BY <1>3, FS_Subset
<1>6. SumFunctionOnSet(Stakes, Addr) = STAKE
  <2>1. \A x \in Addr \ {a} : Stakes[x] = 0
    BY <1>4
  <2>2. SumFunctionOnSet(Stakes, Addr \ {a}) = 0
    <3>1. IsFiniteSet(Addr \ {a})
      BY <1>5
    <3> QED
      BY <2>1, <3>1, SumZero
  <2>3. Stakes[a] = STAKE /\ \A x \in Addr : Stakes[x] \in Int
    BY <1>3, <1>4
  <2>4. SumFunctionOnSet(Stakes, Addr) =
          Stakes[a] + SumFunctionOnSet(Stakes, Addr \ {a})
    BY <1>3, <2>3, SumRemove
  <2> QED
    BY <1>3, <2>2, <2>3, <2>4
<1>7. SumFunctionOnSet(pending_withdraws, Addr) = 0
  BY <1>3, <1>4, SumZero
<1>8. EscrowIsTheStakes
  BY <1>6 DEF Init, EscrowIsTheStakes, Stakes
<1>9. Solvent
  BY <1>3, <1>7 DEF Init, Solvent
<1> QED
  BY <1>2, <1>8, <1>9 DEF MoneyInv

LEMMA NextMoney ==
  TypeOK /\ TypeOK' /\ RegistryInv /\ MoneyInv /\ [Next]_vars => MoneyInv'
<1> SUFFICES ASSUME TypeOK, TypeOK', RegistryInv, MoneyInv, [Next]_vars PROVE MoneyInv'
  OBVIOUS
<1>1. ASSUME NEW a \in Addr, NEW u \in Urls, bootstrapDefaultProposer(a, u)
      PROVE  MoneyInv'
  <2>1. Registered = {}
    BY <1>1, FS_EmptySet DEF bootstrapDefaultProposer, RegistryInv, CountIsTheRegistered
  <2>2. proposers[a].addr # a
    BY <2>1 DEF Registered
  <2>3. /\ SameButLinks(proposers, proposers', a)
        /\ proposers'[a].addr = a /\ proposers'[a].stake = STAKE
    BY <1>1 DEF bootstrapDefaultProposer, TypeOK, SameButLinks, Address, Sole
  <2> QED
    BY <1>1, <2>2, <2>3, JoinStep DEF bootstrapDefaultProposer
<1>2. ASSUME NEW a \in Addr, NEW u \in Urls, add_proposer(a, u)
      PROVE  MoneyInv'
  <2>1. /\ SameButLinks(proposers, proposers', a)
        /\ proposers'[a].addr = a /\ proposers'[a].stake = STAKE
    BY <1>2, LinkedBehindShape DEF add_proposer, TypeOK
  <2>2. proposers[a].addr # a
    BY <1>2, RoundRobinAssumption DEF add_proposer
  <2> QED
    BY <1>2, <2>1, <2>2, JoinStep DEF add_proposer
<1>3. ASSUME NEW p \in Addr, remove_proposer(p)
      PROVE  MoneyInv'
  BY <1>3, LeaveStep DEF remove_proposer
<1>4. CASE RotateDiligent
  BY <1>4, IdleStep DEF RotateDiligent
<1>5. CASE RotateFining
  <2> DEFINE c == current.addr
  <2>1. /\ proposers[c].stake >= LAZY_PENALTY
        /\ proposers' = [proposers EXCEPT ![c].stake = @ - LAZY_PENALTY]
        /\ escrow' = escrow - LAZY_PENALTY
        /\ UNCHANGED <<balance, pending_withdraws>>
    BY <1>5 DEF RotateFining, CanFine
  <2>2. LAZY_PENALTY \in Int /\ LAZY_PENALTY > 0
    BY RoundRobinAssumption
  <2>3. c \in Address
    BY DEF TypeOK, Proposer
  <2>4. c \in Addr /\ proposers[c].addr = c
    BY <2>1, <2>2, <2>3 DEF MoneyInv, StakeInv, Address
  <2> HIDE DEF c
  <2>5. /\ \A x \in Address \ {c} : proposers'[x] = proposers[x]
        /\ proposers'[c].stake = proposers[c].stake - LAZY_PENALTY
        /\ proposers'[c].addr = proposers[c].addr
        /\ proposers[c].stake \in Int
    BY <2>1, <2>3 DEF TypeOK, Proposer
  <2>6. StakeInv'
    BY <2>4, <2>5, RoundRobinAssumption DEF MoneyInv, StakeInv, Address
  <2> DEFINE v == pending_withdraws[c]
  <2>7. /\ v \in Int /\ balance \in Int /\ escrow \in Int
        /\ pending_withdraws' = [pending_withdraws EXCEPT ![c] = v]
    BY <2>1, <2>4 DEF TypeOK
  <2>8. /\ escrow' = escrow - proposers[c].stake + proposers'[c].stake
        /\ balance' - escrow' - v >= balance - escrow - pending_withdraws[c]
        /\ \A x \in Addr \ {c} : proposers'[x].stake = proposers[x].stake
    BY <2>1, <2>2, <2>5, <2>7 DEF Address
  <2> HIDE DEF v
  <2>9. EscrowIsTheStakes' /\ Solvent'
    BY <2>4, <2>7, <2>8, AccountStep DEF MoneyInv
  <2> QED
    BY <2>6, <2>9 DEF MoneyInv
<1>6. CASE RotateExpelling
  <2>1. current.addr \in Addr /\ CanRemove(current.addr)
    BY <1>6 DEF RotateExpelling, CanExpel, CanRemove, Address, TypeOK, Proposer
  <2> QED
    BY <1>6, <2>1, LeaveStep DEF RotateExpelling
<1>7. ASSUME NEW a \in Addr, NEW amount \in Amounts, withdraw(a, amount)
      PROVE  MoneyInv'
  <2> DEFINE v == pending_withdraws[a] - amount
  <2>1. /\ proposers' = proposers /\ escrow' = escrow
        /\ balance' = balance - amount
        /\ pending_withdraws' = [pending_withdraws EXCEPT ![a] = v]
    BY <1>7 DEF withdraw
  <2>2. /\ amount \in Int /\ v \in Int /\ balance \in Int /\ escrow \in Int
        /\ proposers[a].stake \in Int /\ pending_withdraws[a] \in Int
    BY RoundRobinAssumption DEF TypeOK, Address, Proposer
  <2>3. /\ escrow' = escrow - proposers[a].stake + proposers'[a].stake
        /\ balance' - escrow' - v >= balance - escrow - pending_withdraws[a]
        /\ \A x \in Addr \ {a} : proposers'[x].stake = proposers[x].stake
    BY <2>1, <2>2
  <2> HIDE DEF v
  <2>4. EscrowIsTheStakes' /\ Solvent'
    BY <2>1, <2>2, <2>3, AccountStep DEF MoneyInv
  <2> QED
    BY <2>1, <2>4 DEF MoneyInv, StakeInv
<1>8. ASSUME NEW n \in 0 .. MaxL2, set_nightfall(n)
      PROVE  MoneyInv'
  BY <1>8, IdleStep DEF set_nightfall
<1>9. CASE ProposeBlock
  BY <1>9, IdleStep DEF ProposeBlock
<1>10. CASE MineL1Block
  BY <1>10, IdleStep DEF MineL1Block
<1>11. CASE UNCHANGED vars
  BY <1>11, IdleStep DEF vars
<1> QED
  BY <1>1, <1>2, <1>3, <1>4, <1>5, <1>6, <1>7, <1>8, <1>9, <1>10, <1>11
  DEF Next, rotate_proposer

LEMMA MoneyCorrect == Spec => []MoneyInv
<1>1. TypeOK /\ [Next]_vars => TypeOK'
  BY NextType
<1> QED
  BY <1>1, InitType, InitRegistry, NextRegistry, InitMoney, NextMoney, PTL DEF Spec

\* The escrow counter of ProposerManager is the sum of the stakes, whatever
\* joins, exits, fines and expulsions have adjusted it.
THEOREM EscrowCorrect == Spec => []EscrowIsTheStakes
<1>1. MoneyInv => EscrowIsTheStakes
  BY DEF MoneyInv
<1> QED
  BY <1>1, MoneyCorrect, PTL

\* The contract can always pay every stake and every pending withdrawal.
THEOREM SolventCorrect == Spec => []Solvent
<1>1. MoneyInv => Solvent
  BY DEF MoneyInv
<1> QED
  BY <1>1, MoneyCorrect, PTL

-----------------------------------------------------------------------------
(* What a step may not do. *)

LEMMA FineStep ==
  ASSUME TypeOK, TypeOK', RegistryInv, MoneyInv, [Next]_vars,
         NEW a \in Addr, a # current.addr, Worth(a)' < Worth(a)
  PROVE  Worth(a) - Worth(a)' = balance - balance'
<1>0. /\ proposers[a].stake \in Int /\ pending_withdraws[a] \in Int
      /\ proposers'[a].stake \in Int /\ pending_withdraws'[a] \in Int
      /\ proposers'[a].stake + pending_withdraws'[a]
           < proposers[a].stake + pending_withdraws[a]
      /\ balance \in Int /\ STAKE \in Nat /\ a \in Address
  BY RoundRobinAssumption DEF TypeOK, Address, Proposer, Worth
<1>1. ASSUME NEW b \in Addr, NEW u \in Urls, bootstrapDefaultProposer(b, u)
      PROVE  FALSE
  <2>1. Registered = {}
    BY <1>1, FS_EmptySet DEF bootstrapDefaultProposer, RegistryInv, CountIsTheRegistered
  <2>2. proposers[b].stake = 0
    BY <2>1 DEF Registered, MoneyInv, StakeInv
  <2> QED
    BY <1>0, <1>1, <2>2 DEF bootstrapDefaultProposer, TypeOK, Sole, Address
<1>2. ASSUME NEW b \in Addr, NEW u \in Urls, add_proposer(b, u)
      PROVE  FALSE
  <2>1. SameButLinks(proposers, proposers', b) /\ proposers'[b].stake = STAKE
    <3>1. proposers \in [Address -> Proposer] /\ current \in Proposer
      BY DEF TypeOK
    <3>2. proposers' = LinkedBehind(proposers, current, b, u)
      BY <1>2 DEF add_proposer
    <3> QED
      BY <3>1, <3>2, LinkedBehindShape
  <2>2. proposers[b].stake = 0
    BY <1>2, RoundRobinAssumption DEF add_proposer, MoneyInv, StakeInv
  <2> QED
    BY <1>0, <1>2, <2>1, <2>2 DEF add_proposer, SameButLinks
<1>3. ASSUME NEW p \in Addr, CanRemove(p), Deregister(p), proposers' = RingWithout(p)
      PROVE  FALSE
  <2>1. /\ SameButLinks(proposers, proposers', p) /\ proposers'[p].stake = 0
        /\ ExitStake(p) \in Nat
    BY <1>3, RemovalShape
  <2>2. pending_withdraws' = [pending_withdraws EXCEPT ![p] = @ + ExitStake(p)]
    BY <1>3 DEF Deregister
  <2>3. CASE p = a
    BY <1>0, <2>1, <2>2, <2>3 DEF ExitStake, TypeOK
  <2>4. CASE p # a
    BY <1>0, <2>1, <2>2, <2>4 DEF SameButLinks, TypeOK
  <2> QED
    BY <2>3, <2>4
<1>4. ASSUME NEW p \in Addr, remove_proposer(p) PROVE FALSE
  BY <1>3, <1>4 DEF remove_proposer
<1>5. CASE rotate_proposer
  <2>1. CASE RotateDiligent
    BY <1>0, <2>1 DEF RotateDiligent, money
  <2>2. CASE RotateFining
    BY <1>0, <2>2 DEF RotateFining, TypeOK
  <2>3. CASE RotateExpelling
    <3>1. current.addr \in Addr /\ CanRemove(current.addr)
      BY <2>3 DEF RotateExpelling, CanExpel, CanRemove, Address, TypeOK, Proposer
    <3> QED
      BY <1>3, <2>3, <3>1 DEF RotateExpelling
  <2> QED
    BY <1>5, <2>1, <2>2, <2>3 DEF rotate_proposer
<1>6. ASSUME NEW b \in Addr, NEW amount \in Amounts, withdraw(b, amount)
      PROVE  Worth(a) - Worth(a)' = balance - balance'
  <2>1. /\ proposers' = proposers /\ balance' = balance - amount /\ amount \in Int
        /\ pending_withdraws' = [pending_withdraws EXCEPT ![b] = @ - amount]
    BY <1>6, RoundRobinAssumption DEF withdraw
  <2> QED
    BY <1>0, <2>1 DEF Worth, TypeOK
<1>7. ASSUME NEW n \in 0 .. MaxL2, set_nightfall(n) PROVE FALSE
  BY <1>0, <1>7 DEF set_nightfall, money
<1>8. CASE ProposeBlock
  BY <1>0, <1>8 DEF ProposeBlock, money
<1>9. CASE MineL1Block
  BY <1>0, <1>9 DEF MineL1Block, money
<1>10. CASE UNCHANGED vars
  BY <1>0, <1>10 DEF vars, money
<1> QED
  BY <1>1, <1>2, <1>4, <1>5, <1>6, <1>7, <1>8, <1>9, <1>10 DEF Next

\* Nobody loses to a call of somebody else: only the proposer whose turn it
\* is pays a fine or an exit penalty.
THEOREM FinesCorrect == Spec => OnlyTheCurrentProposerIsFined
<1>1. TypeOK /\ TypeOK' /\ RegistryInv /\ MoneyInv /\ [Next]_vars =>
        [\A a \in Addr \ {current.addr} :
           Worth(a)' < Worth(a) => Worth(a) - Worth(a)' = balance - balance']_vars
  BY FineStep
<1> QED
  BY <1>1, TypeCorrect, RegistryCorrect, MoneyCorrect, PTL
  DEF Spec, OnlyTheCurrentProposerIsFined

LEMMA TurnStep ==
  ASSUME TypeOK, RegistryInv, [Next]_vars,
         current.addr \in Registered, current.addr' # current.addr,
         block < start_l1_block + ROTATION_BLOCKS + FINALIZATION_BLOCKS
  PROVE  current.addr \notin Registered' /\ last_exit_block'[current.addr] = block
<1> DEFINE c == current.addr
<1>0. /\ c \in Addr /\ proposers[c].addr = c /\ c # NoAddr /\ c \in Address
      /\ current'.addr # c
  BY RoundRobinAssumption DEF Registered, Address
<1>a. proposers \in [Address -> Proposer] /\ current \in Proposer
  BY DEF TypeOK
<1>b. ~ can_rotate
  BY RoundRobinAssumption DEF can_rotate, TypeOK
<1> HIDE DEF c
<1>1. ASSUME NEW a \in Addr, NEW u \in Urls, bootstrapDefaultProposer(a, u)
      PROVE  FALSE
  <2>1. Registered = {}
    BY <1>1, FS_EmptySet DEF bootstrapDefaultProposer, RegistryInv, CountIsTheRegistered
  <2> QED
    BY <2>1
<1>2. ASSUME NEW a \in Addr, NEW u \in Urls, add_proposer(a, u)
      PROVE  FALSE
  <2>1. /\ proposers' = LinkedBehind(proposers, current, a, u)
        /\ proposers[a].addr = NoAddr
        /\ current' = proposers'[c]
    BY <1>2 DEF add_proposer, c
  <2>2. SameButLinks(proposers, proposers', a)
    BY <1>a, <2>1, LinkedBehindShape
  <2> QED
    BY <1>0, <2>1, <2>2 DEF SameButLinks
<1>3. ASSUME NEW p \in Addr, remove_proposer(p)
      PROVE  c \notin Registered' /\ last_exit_block'[c] = block
  <2>1. /\ CanRemove(p) /\ Deregister(p)
        /\ proposers' = RingWithout(p) /\ current' = CurrentWithout(p)
    BY <1>3 DEF remove_proposer
  <2>2. SameButLinks(proposers, RingWithout(p), p) /\ RingWithout(p)[p].addr = NoAddr
    BY <2>1, RemovalShape
  <2>3. CASE p = c
    <3>1. c \notin Registered'
      BY <1>0, <2>1, <2>2, <2>3 DEF Registered
    <3>2. last_exit_block' = [last_exit_block EXCEPT ![c] = block]
      BY <2>1, <2>3 DEF Deregister, c
    <3> QED
      BY <1>0, <3>1, <3>2 DEF TypeOK
  <2>4. CASE p # c
    <3>1. Successor(p) = current
      BY <2>4 DEF Successor, c
    <3>2. RingWithout(p)[c].addr = c
      BY <1>0, <2>2, <2>4 DEF SameButLinks
    <3>3. CurrentWithout(p).addr = c
      BY <3>1, <3>2 DEF CurrentWithout, c
    <3> QED
      BY <1>0, <2>1, <3>3
  <2> QED
    BY <2>3, <2>4
<1>4. ~ rotate_proposer
  BY <1>b DEF rotate_proposer, RotateDiligent, RotateFining, RotateExpelling
<1>5. current' = current => FALSE
  BY <1>0 DEF c
<1> QED
  BY <1>1, <1>2, <1>3, <1>4, <1>5
  DEF Next, withdraw, set_nightfall, ProposeBlock, MineL1Block, vars, c

\* However others register, leave or rotate, a registered proposer keeps its
\* turn for ROTATION_BLOCKS + FINALIZATION_BLOCKS unless it leaves itself.
THEOREM TurnCorrect == Spec => TurnIsNotCutShort
<1>1. TypeOK /\ RegistryInv /\ [Next]_vars =>
        [/\ current.addr \in Registered /\ current.addr' # current.addr
         /\ block < start_l1_block + ROTATION_BLOCKS + FINALIZATION_BLOCKS
         => /\ current.addr \notin Registered'
            /\ last_exit_block'[current.addr] = block]_vars
  BY TurnStep
<1> QED
  BY <1>1, TypeCorrect, RegistryCorrect, PTL DEF Spec, TurnIsNotCutShort

-----------------------------------------------------------------------------
(* The order of the ring: a list of the registered accounts, each followed *)
(* by the next one's entry and the last by the first's.                    *)

After(i, n) == IF i = n THEN 1 ELSE i + 1

InOrder(P, n, s) ==
  /\ s \in [1 .. n -> Addr]
  /\ \A i, j \in 1 .. n : s[i] = s[j] => i = j
  /\ \A i \in 1 .. n : P[s[i]].next_addr = s[After(i, n)]

Listed(s, n) == {s[i] : i \in 1 .. n}

Joined(s, n, a) == [i \in 1 .. n + 1 |-> IF i = n + 1 THEN a ELSE s[i]]
Closed(s, n, k) == [i \in 1 .. n - 1 |-> IF i < k THEN s[i] ELSE s[i + 1]]
Turned(s, n)    == [i \in 1 .. n |-> s[After(i, n)]]

\* Whoever is inserted before the first is the last.
LEMMA JoinOrder ==
  ASSUME NEW P, NEW Q, NEW n \in Nat \ {0}, NEW s, InOrder(P, n, s),
         NEW a \in Addr, a \notin Listed(s, n), Inserted(P, Q, Listed(s, n), a, s[1])
  PROVE  /\ InOrder(Q, n + 1, Joined(s, n, a))
         /\ Listed(Joined(s, n, a), n + 1) = Listed(s, n) \cup {a}
<1> DEFINE t == Joined(s, n, a)
<1>1. t \in [1 .. n + 1 -> Addr] /\ t[n + 1] = a /\ \A i \in 1 .. n : t[i] = s[i]
  BY DEF Joined, InOrder
<1>2. \A i \in 1 .. n : s[i] \in Listed(s, n) /\ s[i] # a
  BY DEF Listed
<1> HIDE DEF t
<1>3. \A i, j \in 1 .. n + 1 : t[i] = t[j] => i = j
  <2> SUFFICES ASSUME NEW i \in 1 .. n + 1, NEW j \in 1 .. n + 1, t[i] = t[j] PROVE i = j
    OBVIOUS
  <2>1. (i \in 1 .. n \/ i = n + 1) /\ (j \in 1 .. n \/ j = n + 1)
    OBVIOUS
  <2> QED
    BY <1>1, <1>2, <2>1 DEF InOrder
<1>4. \A i \in 1 .. n + 1 : Q[t[i]].next_addr = t[After(i, n + 1)]
  <2> SUFFICES ASSUME NEW i \in 1 .. n + 1 PROVE Q[t[i]].next_addr = t[After(i, n + 1)]
    OBVIOUS
  <2>1. CASE i = n + 1
    BY <1>1, <2>1 DEF Inserted, After
  <2>2. CASE i = n
    BY <1>1, <1>2, <2>2 DEF Inserted, InOrder, After
  <2>3. CASE i \in 1 .. n - 1
    <3>1. P[s[i]].next_addr = s[i + 1] /\ i + 1 \in 1 .. n /\ i + 1 # 1
      BY <2>3 DEF InOrder, After
    <3>2. s[i + 1] # s[1]
      BY <3>1 DEF InOrder
    <3>3. i \in 1 .. n /\ After(i, n + 1) = i + 1
      BY <2>3 DEF After
    <3> QED
      BY <1>1, <1>2, <3>1, <3>2, <3>3 DEF Inserted
  <2> QED
    BY <2>1, <2>2, <2>3
<1>5. Listed(t, n + 1) = Listed(s, n) \cup {a}
  <2>1. 1 .. n + 1 = (1 .. n) \cup {n + 1}
    OBVIOUS
  <2> QED
    BY <1>1, <2>1 DEF Listed
<1> QED
  BY <1>1, <1>3, <1>4, <1>5 DEF InOrder, t

\* Bypassing one closes the gap.
LEMMA LeaveOrder ==
  ASSUME NEW P, NEW Q, NEW n \in Nat, n >= 2, NEW s, InOrder(P, n, s),
         NEW k \in 1 .. n, Bypassed(P, Q, Listed(s, n), s[k])
  PROVE  /\ InOrder(Q, n - 1, Closed(s, n, k))
         /\ Listed(Closed(s, n, k), n - 1) = Listed(s, n) \ {s[k]}
<1> DEFINE t == Closed(s, n, k)
           at(i) == IF i < k THEN i ELSE i + 1
<1>0. \A i \in 1 .. n - 1 : at(i) \in 1 .. n /\ at(i) # k /\ t[i] = s[at(i)]
  BY DEF Closed
<1>1. t \in [1 .. n - 1 -> Addr]
  BY DEF Closed, InOrder
<1> HIDE DEF t
<1>2. \A i, j \in 1 .. n - 1 : t[i] = t[j] => i = j
  <2> SUFFICES ASSUME NEW i \in 1 .. n - 1, NEW j \in 1 .. n - 1, t[i] = t[j] PROVE i = j
    OBVIOUS
  <2>1. at(i) = at(j)
    <3> HIDE DEF at
    <3> QED
      BY <1>0 DEF InOrder
  <2> QED
    BY <2>1
<1>3. \A i \in 1 .. n - 1 : Q[t[i]].next_addr = t[After(i, n - 1)]
  <2> SUFFICES ASSUME NEW i \in 1 .. n - 1 PROVE Q[t[i]].next_addr = t[After(i, n - 1)]
    OBVIOUS
  <2> DEFINE x == at(i)
  <2>1. x \in 1 .. n /\ x # k /\ t[i] = s[x]
    BY <1>0
  <2>2. After(x, n) \in 1 .. n /\ After(k, n) \in 1 .. n /\ P[s[x]].next_addr = s[After(x, n)]
        /\ P[s[k]].next_addr = s[After(k, n)]
    <3> HIDE DEF x
    <3> QED
      BY <2>1 DEF InOrder, After
  <2>3. s[x] \in Listed(s, n) \ {s[k]}
    <3> HIDE DEF x
    <3> QED
      BY <2>1 DEF Listed, InOrder
  <2>4. Q[s[x]].next_addr = IF After(x, n) = k THEN s[After(k, n)] ELSE s[After(x, n)]
    <3> HIDE DEF x
    <3>1. s[After(x, n)] = s[k] <=> After(x, n) = k
      BY <2>2 DEF InOrder
    <3> QED
      BY <2>2, <2>3, <3>1 DEF Bypassed
  <2>5. After(i, n - 1) \in 1 .. n - 1
        /\ at(After(i, n - 1)) = IF After(x, n) = k THEN After(k, n) ELSE After(x, n)
    BY DEF After
  <2> HIDE DEF at, x
  <2>6. t[After(i, n - 1)] = s[at(After(i, n - 1))]
    BY <1>0, <2>5
  <2> QED
    BY <2>1, <2>4, <2>5, <2>6
<1>4. Listed(t, n - 1) = Listed(s, n) \ {s[k]}
  <2>1. ASSUME NEW i \in 1 .. n - 1 PROVE t[i] \in Listed(s, n) \ {s[k]}
    <3> HIDE DEF at
    <3> QED
      BY <1>0 DEF Listed, InOrder
  <2>2. ASSUME NEW i \in 1 .. n, i # k PROVE s[i] \in Listed(t, n - 1)
    <3> DEFINE j == IF i < k THEN i ELSE i - 1
    <3>1. j \in 1 .. n - 1 /\ at(j) = i
      BY <2>2
    <3> HIDE DEF at, j
    <3> QED
      BY <1>0, <3>1 DEF Listed
  <2> QED
    BY <2>1, <2>2 DEF Listed
<1> QED
  BY <1>1, <1>2, <1>3, <1>4 DEF InOrder, t

\* Any place of the ring may be the first.
LEMMA TurnOrder ==
  ASSUME NEW P, NEW n \in Nat \ {0}, NEW s, InOrder(P, n, s)
  PROVE  InOrder(P, n, Turned(s, n)) /\ Listed(Turned(s, n), n) = Listed(s, n)
<1> DEFINE t == Turned(s, n)
<1>1. \A i \in 1 .. n : After(i, n) \in 1 .. n
  BY DEF After
<1>2. t \in [1 .. n -> Addr] /\ \A i \in 1 .. n : t[i] = s[After(i, n)]
  BY <1>1 DEF Turned, InOrder
<1> HIDE DEF t
<1>3. \A i, j \in 1 .. n : After(i, n) = After(j, n) => i = j
  BY DEF After
<1>4. \A i, j \in 1 .. n : t[i] = t[j] => i = j
  BY <1>1, <1>2, <1>3 DEF InOrder
<1>5. \A i \in 1 .. n : P[t[i]].next_addr = t[After(i, n)]
  BY <1>1, <1>2 DEF InOrder
<1>6. Listed(t, n) = Listed(s, n)
  <2>1. ASSUME NEW i \in 1 .. n PROVE \E j \in 1 .. n : After(j, n) = i
    <3>1. CASE i = 1
      BY <3>1 DEF After
    <3>2. CASE i # 1
      <4>1. i - 1 \in 1 .. n /\ After(i - 1, n) = i
        BY <3>2 DEF After
      <4> QED
        BY <4>1
    <3> QED
      BY <3>1, <3>2
  <2>2. \A i \in 1 .. n : s[i] \in Listed(t, n)
    <3> SUFFICES ASSUME NEW i \in 1 .. n PROVE s[i] \in Listed(t, n)
      OBVIOUS
    <3>1. PICK j \in 1 .. n : After(j, n) = i
      BY <2>1
    <3>2. t[j] = s[i]
      BY <1>2, <3>1
    <3> QED
      BY <3>2 DEF Listed
  <2>3. \A i \in 1 .. n : t[i] \in Listed(s, n)
    BY <1>1, <1>2 DEF Listed
  <2> QED
    BY <2>2, <2>3 DEF Listed
<1> QED
  BY <1>2, <1>4, <1>5, <1>6 DEF InOrder, t

\* s is the list of the registered accounts from the current one on.
Order(s) ==
  /\ proposer_count \in Nat \ {0}
  /\ InOrder(proposers, proposer_count, s)
  /\ Listed(s, proposer_count) = Registered
  /\ current.addr = s[1]

ListEquation(f) ==
  f = [i \in 1 .. proposer_count |->
         IF i = 1 THEN current ELSE proposers[f[i - 1].next_addr]]

\* get_proposers walks the order.
LEMMA ListIsTheOrder ==
  ASSUME NEW s
  PROVE  Order(s) /\ Fresh => [i \in 1 .. proposer_count |-> get_proposers[i].addr] = s
<1> SUFFICES ASSUME Order(s), Fresh
             PROVE  [i \in 1 .. proposer_count |-> get_proposers[i].addr] = s
  OBVIOUS
<1> DEFINE n == proposer_count
           f == [i \in 1 .. n |-> IF i = 1 THEN current ELSE proposers[s[i]]]
<1>0. n \in Nat \ {0} /\ s \in [1 .. n -> Addr] /\ 1 \in 1 .. n
  BY DEF Order, InOrder
<1>1. \A i \in 1 .. n : proposers[s[i]].addr = s[i]
  BY <1>0 DEF Order, Listed, Registered
<1>2. \A i \in 1 .. n - 1 : proposers[s[i]].next_addr = s[i + 1]
  BY DEF Order, InOrder, After
<1>3. current.addr = s[1] /\ current.next_addr = proposers[s[1]].next_addr
  BY DEF Order, Fresh
<1> HIDE DEF n
<1>4. ListEquation(f)
  <2>1. ASSUME NEW i \in 1 .. n, i # 1 PROVE f[i - 1].next_addr = s[i]
    <3>1. i - 1 \in 1 .. n - 1 /\ (i - 1) + 1 = i /\ i - 1 \in 1 .. n
      BY <1>0, <2>1
    <3>2. CASE i - 1 = 1
      BY <1>2, <1>3, <3>1, <3>2
    <3>3. CASE i - 1 # 1
      <4>1. f[i - 1] = proposers[s[i - 1]]
        BY <3>1, <3>3
      <4> HIDE DEF f
      <4> QED
        BY <1>2, <3>1, <4>1
    <3> QED
      BY <3>2, <3>3
  <2>2. f = [i \in 1 .. n |-> IF i = 1 THEN current ELSE proposers[f[i - 1].next_addr]]
    <3>1. \A i \in 1 .. n : f[i] = IF i = 1 THEN current ELSE proposers[f[i - 1].next_addr]
      <4> SUFFICES ASSUME NEW i \in 1 .. n
                   PROVE  f[i] = IF i = 1 THEN current ELSE proposers[f[i - 1].next_addr]
        OBVIOUS
      <4>1. CASE i = 1
        BY <4>1
      <4>2. CASE i # 1
        <5>1. f[i] = proposers[s[i]] /\ f[i - 1].next_addr = s[i]
          BY <2>1, <4>2
        <5> HIDE DEF f
        <5> QED
          BY <4>2, <5>1
      <4> QED
        BY <4>1, <4>2
    <3> QED
      BY <3>1
  <2> HIDE DEF f
  <2> QED
    BY <2>2 DEF ListEquation, n
<1> HIDE DEF f
<1>5. ListEquation(get_proposers)
  <2>1. get_proposers = CHOOSE g : ListEquation(g)
    BY DEF get_proposers, ListEquation
  <2> QED
    BY <1>4, <2>1
<1> DEFINE g == get_proposers
<1>6. \A i \in 1 .. n : g[i] = IF i = 1 THEN current ELSE proposers[g[i - 1].next_addr]
  BY <1>5 DEF ListEquation, n
<1> HIDE DEF g
<1> DEFINE T == {i \in Nat : i + 1 \in 1 .. n =>
                     g[i + 1].addr = s[i + 1] /\ g[i + 1].next_addr = proposers[s[i + 1]].next_addr}
<1>7. 0 \in T
  BY <1>0, <1>3, <1>6
<1>8. ASSUME NEW i \in Nat, i \in T PROVE i + 1 \in T
  <2> SUFFICES ASSUME (i + 1) + 1 \in 1 .. n
               PROVE  /\ g[(i + 1) + 1].addr = s[(i + 1) + 1]
                      /\ g[(i + 1) + 1].next_addr = proposers[s[(i + 1) + 1]].next_addr
    OBVIOUS
  <2>1. i + 1 \in 1 .. n - 1 /\ i + 1 \in 1 .. n /\ (i + 1) + 1 # 1 /\ ((i + 1) + 1) - 1 = i + 1
    BY <1>0
  <2>2. g[i + 1].next_addr = s[(i + 1) + 1]
    BY <1>2, <1>8, <2>1
  <2>3. g[(i + 1) + 1] = proposers[s[(i + 1) + 1]]
    BY <1>6, <2>1, <2>2
  <2> QED
    BY <1>1, <2>3
<1>9. Nat \subseteq T
  <2> HIDE DEF T
  <2> QED
    BY <1>7, <1>8, Induction
<1>10. \A i \in 1 .. n : g[i].addr = s[i]
  <2> SUFFICES ASSUME NEW i \in 1 .. n PROVE g[i].addr = s[i]
    OBVIOUS
  <2>1. i - 1 \in Nat /\ (i - 1) + 1 = i
    BY <1>0
  <2> QED
    BY <1>9, <2>1
<1> QED
  BY <1>0, <1>10 DEF n, g

LEMMA OrderFacts ==
  ASSUME NEW s, Order(s)
  PROVE  /\ \A i \in 1 .. proposer_count : s[i] \in Registered
         /\ \A x \in Registered : \E i \in 1 .. proposer_count : x = s[i]
         /\ \A i \in 1 .. proposer_count :
              proposers[s[i]].next_addr = s[After(i, proposer_count)]
         /\ 1 \in 1 .. proposer_count
         /\ current.addr \in Registered
  BY DEF Order, InOrder, Listed

\* Registering appends.
LEMMA AddOrder ==
  ASSUME TypeOK, Fresh, Links, NEW s, Order(s),
         NEW a \in Addr, NEW u \in Urls, add_proposer(a, u)
  PROVE  \E t : /\ Order(t)' /\ current' = proposers'[t[1]]
                /\ t = Joined(s, proposer_count, a)
                /\ a \notin Listed(s, proposer_count)
<1> DEFINE n == proposer_count
           t == Joined(s, n, a)
<1>1. a \in Addr \ Registered
  BY RoundRobinAssumption DEF add_proposer, Registered
<1>2. /\ Inserted(proposers, proposers', Registered, a, s[1])
      /\ proposers \in [Address -> Proposer]
  <2>1. LinksIn(proposers, Registered) /\ Registered \in SUBSET Addr
    BY DEF Links, LinksIn, Registered
  <2> QED
    BY <1>1, <2>1, LinkedBehindLinks DEF add_proposer, TypeOK, Fresh, Order
<1>3. /\ SameButLinks(proposers, proposers', a) /\ proposers'[a].addr = a
  BY LinkedBehindShape DEF add_proposer, TypeOK
<1>4. Registered' = Registered \cup {a}
  BY <1>3 DEF SameButLinks, Registered, Address
<1>5. current'.addr = current.addr
  <2>1. current.addr \in Registered /\ current.addr \in Address \ {a}
    BY <1>1 DEF Fresh, Registered, Address
  <2> QED
    BY <1>3, <2>1 DEF add_proposer, SameButLinks, Registered
<1>6. n \in Nat \ {0} /\ n' = n + 1 /\ InOrder(proposers, n, s) /\ Listed(s, n) = Registered
  BY DEF Order, add_proposer
<1> HIDE DEF n
<1>7. InOrder(proposers', n + 1, t) /\ Listed(t, n + 1) = Registered \cup {a}
  BY <1>1, <1>2, <1>6, JoinOrder
<1>8. t[1] = s[1]
  BY <1>6 DEF Joined
<1> HIDE DEF t
<1>9. PICK v : v = t
  OBVIOUS
<1>10. Order(v)'
  BY <1>4, <1>5, <1>6, <1>7, <1>8, <1>9 DEF Order, n
<1>11. current' = proposers'[v[1]]
  BY <1>8, <1>9 DEF add_proposer, Order
<1> QED
  BY <1>1, <1>6, <1>9, <1>10, <1>11 DEF t, n

\* What removing the k-th account makes of the mapping.
LEMMA RemovalOrder ==
  ASSUME TypeOK, RegistryInv, Links, NEW s, Order(s),
         NEW k \in 1 .. proposer_count, CanRemove(s[k])
  PROVE  LET n == proposer_count
             Q == RingWithout(s[k])
             R == Registered \ {s[k]}
         IN /\ n >= 2
            /\ InOrder(Q, n - 1, Closed(s, n, k))
            /\ Listed(Closed(s, n, k), n - 1) = R
            /\ {x \in Addr : Q[x].addr = x} = R
            /\ \A x \in R : Q[x].addr = x
            /\ n > 2 => \A x \in R : Q[x].next_addr =
                 IF proposers[x].next_addr = s[k] THEN proposers[s[k]].next_addr
                                                  ELSE proposers[x].next_addr
<1> DEFINE n == proposer_count
           Q == RingWithout(s[k])
           p == s[k]
<1>1. p \in Registered /\ p \in Addr
  BY OrderFacts DEF Registered
<1>2. n >= 2
  <2>1. CASE n = 1
    <3>1. p = current.addr
      BY <2>1 DEF Order
    <3> QED
      BY <2>1, <3>1 DEF CanRemove
  <2> QED
    BY <2>1 DEF Order
<1>3. Bypassed(proposers, Q, Registered, p)
  BY <1>1, RemovalLinks
<1>4. SameButLinks(proposers, Q, p) /\ Q[p].addr = NoAddr
  BY <1>1, RemovalShape
<1>5. {x \in Addr : Q[x].addr = x} = Registered \ {p}
  BY <1>1, <1>4, RoundRobinAssumption DEF SameButLinks, Registered, Address
<1>6. InOrder(Q, n - 1, Closed(s, n, k)) /\ Listed(Closed(s, n, k), n - 1) = Registered \ {p}
  BY <1>2, <1>3, LeaveOrder DEF Order
<1> HIDE DEF Q
<1> QED
  BY <1>2, <1>3, <1>5, <1>6 DEF Bypassed, Q

\* Who holds the turn after a removal, and who is next.
LEMMA CurrentAfterRemoval ==
  ASSUME TypeOK, RegistryInv, Fresh, Links, NEW s, Order(s),
         NEW k \in 1 .. proposer_count, CanRemove(s[k])
  PROVE  /\ CurrentWithout(s[k]).addr = Closed(s, proposer_count, k)[1]
         /\ k = 1 => CurrentWithout(s[k]).next_addr =
                       Turned(Closed(s, proposer_count, k), proposer_count - 1)[1]
         /\ proposer_count = 2 =>
              CurrentWithout(s[k]) = RingWithout(s[k])[Closed(s, proposer_count, k)[1]]
<1> DEFINE n == proposer_count
           p == s[k]
           Q == RingWithout(p)
           R == Registered \ {p}
           t == Closed(s, n, k)
<1>1. /\ n >= 2 /\ InOrder(Q, n - 1, t) /\ \A x \in R : Q[x].addr = x
      /\ n > 2 => \A x \in R : Q[x].next_addr =
           IF proposers[x].next_addr = p THEN proposers[p].next_addr ELSE proposers[x].next_addr
  BY RemovalOrder
<1>2. /\ n \in Nat /\ s \in [1 .. n -> Addr] /\ \A i, j \in 1 .. n : s[i] = s[j] => i = j
      /\ current.addr = s[1] /\ \A i \in 1 .. n : s[i] \in Registered /\ s[i] \in Address
      /\ current.next_addr = proposers[s[1]].next_addr
  BY OrderFacts DEF Order, InOrder, Fresh, Registered, Address
<1>3. \A i \in 1 .. n : proposers[s[i]].addr = s[i]
                        /\ proposers[s[i]].next_addr = s[After(i, n)]
  BY OrderFacts DEF Registered
<1>4. CASE k # 1
  <2>1. p # current.addr /\ current.addr \in R /\ t[1] = s[1]
    BY <1>1, <1>2, <1>4 DEF Closed
  <2>2. Successor(p) = current
    BY <2>1 DEF Successor
  <2> HIDE DEF Q
  <2>3. /\ CurrentWithout(p).addr = current.addr
        /\ n = 2 => CurrentWithout(p) = Q[current.addr]
    BY <1>1, <2>1, <2>2 DEF CurrentWithout, Q
  <2> QED
    BY <1>2, <1>4, <2>1, <2>3 DEF Q
<1>5. CASE k = 1
  <2>1. p = current.addr /\ current.next_addr = s[2] /\ 2 \in 1 .. n /\ s[2] # p
    BY <1>1, <1>2, <1>3, <1>5 DEF After
  <2>2. Successor(p) = proposers[s[2]]
    BY <1>2, <2>1 DEF Successor, TypeOK
  <2>3. s[2] \in R /\ Successor(p).addr = s[2] /\ Successor(p).next_addr = s[After(2, n)]
    BY <1>2, <1>3, <2>1, <2>2
  <2>4. t[1] = s[2]
    <3>1. 1 \in 1 .. n - 1
      BY <1>1, <1>2
    <3> HIDE DEF n
    <3> QED
      BY <1>5, <3>1 DEF Closed
  <2> HIDE DEF Q, t
  <2>5. CASE n = 2
    <3>1. CurrentWithout(p) = Q[s[2]]
      BY <2>3, <2>5 DEF CurrentWithout, Q
    <3>2. Q[t[1]].next_addr = t[1] /\ Turned(t, n - 1)[1] = t[1]
      BY <1>1, <2>5 DEF InOrder, After, Turned
    <3> QED
      BY <1>1, <1>5, <2>3, <2>4, <3>1, <3>2 DEF t, Q
  <2>6. CASE n > 2
    <3>1. CurrentWithout(p) = Successor(p)
      BY <1>2, <2>6 DEF CurrentWithout
    <3>2. Turned(t, n - 1)[1] = t[2] /\ t[2] = s[3] /\ After(2, n) = 3
      BY <1>2, <1>5, <2>6 DEF Turned, After, Closed, t
    <3> QED
      BY <1>5, <2>3, <2>4, <2>6, <3>1, <3>2 DEF t, n
  <2> QED
    BY <1>1, <1>2, <2>5, <2>6
<1> QED
  BY <1>4, <1>5

\* Leaving closes a gap.
LEMMA RemoveOrder ==
  ASSUME TypeOK, RegistryInv, Fresh, Links, NEW s, Order(s),
         NEW p \in Addr, remove_proposer(p)
  PROVE  \E t : \E k \in 1 .. proposer_count :
           /\ Order(t)' /\ t = Closed(s, proposer_count, k)
           /\ p = s[k] /\ proposer_count >= 2
           /\ proposer_count = 2 => current' = proposers'[t[1]]
<1>1. CanRemove(p) /\ p \in Registered
  BY DEF remove_proposer, CanRemove, Registered
<1>2. PICK k \in 1 .. proposer_count : p = s[k]
  BY <1>1, OrderFacts
<1>3. PICK t : t = Closed(s, proposer_count, k)
  OBVIOUS
<1>4. /\ proposer_count >= 2 /\ InOrder(proposers', proposer_count - 1, t)
      /\ Listed(t, proposer_count - 1) = Registered \ {p}
      /\ Registered' = Registered \ {p}
  BY <1>1, <1>2, <1>3, RemovalOrder DEF remove_proposer, Registered
<1>5. current'.addr = t[1] /\ (proposer_count = 2 => current' = proposers'[t[1]])
  BY <1>1, <1>2, <1>3, CurrentAfterRemoval DEF remove_proposer
<1>6. proposer_count' = proposer_count - 1 /\ proposer_count - 1 \in Nat \ {0}
  BY <1>4 DEF remove_proposer, Deregister, Order
<1>7. Order(t)'
  BY <1>4, <1>5, <1>6 DEF Order
<1> QED
  BY <1>2, <1>3, <1>4, <1>5, <1>7

\* A rotation turns the list.
LEMMA RotateOrder ==
  ASSUME TypeOK, Fresh, Links, NEW s, Order(s), RotateDiligent \/ RotateFining
  PROVE  \E t : Order(t)' /\ current' = proposers'[t[1]] /\ t = Turned(s, proposer_count)
<1>1. PICK t : t = Turned(s, proposer_count)
  OBVIOUS
<1>2. proposer_count \in Nat \ {0} /\ proposer_count' = proposer_count
  BY DEF Order, RotateDiligent, RotateFining
<1>3. InOrder(proposers, proposer_count, t) /\ Listed(t, proposer_count) = Registered
  BY <1>1, <1>2, TurnOrder DEF Order
<1>4. \A x \in Address : /\ proposers'[x].addr = proposers[x].addr
                         /\ proposers'[x].next_addr = proposers[x].next_addr
  BY DEF RotateDiligent, RotateFining, TypeOK, Proposer
<1>5. Registered' = Registered
  BY <1>4 DEF Registered, Address
<1>6. InOrder(proposers', proposer_count, t)
  BY <1>3, <1>4 DEF InOrder, Address
<1>7. t[1] = s[After(1, proposer_count)] /\ t[1] \in Registered
  BY <1>1, <1>2, <1>3 DEF Turned, Listed
<1>8. current.next_addr = t[1]
  BY <1>7, OrderFacts DEF Fresh, Order
<1>9. current'.addr = t[1] /\ current' = proposers'[t[1]]
  <2>1. current' = proposers'[current.next_addr]
    BY DEF RotateDiligent, RotateFining
  <2> QED
    BY <1>4, <1>7, <1>8, <2>1 DEF Registered, Address
<1>10. Order(t)'
  BY <1>2, <1>3, <1>5, <1>6, <1>9 DEF Order
<1> QED
  BY <1>1, <1>9, <1>10

\* An expulsion takes the first out of the list and turns what is left.
LEMMA ExpelOrder ==
  ASSUME TypeOK, RegistryInv, Fresh, Links, NEW s, Order(s), RotateExpelling
  PROVE  \E t : /\ Order(t)' /\ current' = proposers'[t[1]] /\ proposer_count >= 2
                /\ t = Turned(Closed(s, proposer_count, 1), proposer_count - 1)
<1>1. CanRemove(s[1]) /\ s[1] = current.addr /\ 1 \in 1 .. proposer_count
  BY OrderFacts DEF RotateExpelling, CanExpel, Order
<1>2. PICK t : t = Turned(Closed(s, proposer_count, 1), proposer_count - 1)
  OBVIOUS
<1>3. /\ proposer_count >= 2
      /\ InOrder(proposers', proposer_count - 1, Closed(s, proposer_count, 1))
      /\ Listed(Closed(s, proposer_count, 1), proposer_count - 1) = Registered \ {s[1]}
      /\ Registered' = Registered \ {s[1]}
      /\ \A x \in Registered' : proposers'[x].addr = x
  BY <1>1, RemovalOrder DEF RotateExpelling, Registered
<1>4. proposer_count' = proposer_count - 1 /\ proposer_count - 1 \in Nat \ {0}
  BY <1>3 DEF RotateExpelling, Deregister, Order
<1>5. InOrder(proposers', proposer_count', t) /\ Listed(t, proposer_count') = Registered'
  BY <1>2, <1>3, <1>4, TurnOrder
<1>6. CurrentWithout(s[1]).next_addr = t[1]
  BY <1>1, <1>2, CurrentAfterRemoval
<1>7. current'.addr = t[1] /\ current' = proposers'[t[1]]
  <2>1. current' = proposers'[CurrentWithout(s[1]).next_addr]
    BY <1>1 DEF RotateExpelling
  <2>2. t[1] \in Registered'
    <3>1. 1 \in 1 .. proposer_count'
      BY <1>4 DEF Order
    <3> QED
      BY <1>5, <3>1 DEF Listed
  <2> QED
    BY <1>3, <1>6, <2>1, <2>2
<1>8. Order(t)'
  BY <1>4, <1>5, <1>7 DEF Order
<1> QED
  BY <1>2, <1>3, <1>7, <1>8

-----------------------------------------------------------------------------
(* The contract implements the queue, as long as `current` is fresh.       *)

\* What the queue's operators make of a list are the three changes above.
LEMMA ListSteps ==
  ASSUME NEW n \in Nat \ {0}, NEW s \in [1 .. n -> Addr]
  PROVE  /\ s \in Seq(Addr) /\ Len(s) = n /\ DOMAIN s = 1 .. n
         /\ \A a \in Addr : Append(s, a) = Joined(s, n, a)
         /\ \A k \in 1 .. n : SubSeq(s, 1, k - 1) \o SubSeq(s, k + 1, n) = Closed(s, n, k)
         /\ Append(Tail(s), Head(s)) = Turned(s, n)
<1>1. s \in Seq(Addr) /\ Len(s) = n /\ DOMAIN s = 1 .. n
  OBVIOUS
<1>2. ASSUME NEW a \in Addr PROVE Append(s, a) = Joined(s, n, a)
  <2>1. /\ Append(s, a) \in [1 .. n + 1 -> Addr] /\ Append(s, a)[n + 1] = a
        /\ \A i \in 1 .. n : Append(s, a)[i] = s[i]
    <3> DEFINE U == Append(s, a)
    <3>1. /\ U \in Seq(Addr) /\ Len(U) = n + 1 /\ U[n + 1] = a
          /\ \A i \in 1 .. n : U[i] = s[i]
      BY <1>1, AppendProperties
    <3> HIDE DEF U
    <3>2. U \in [1 .. n + 1 -> Addr]
      BY <3>1, LenProperties
    <3> QED
      BY <3>1, <3>2 DEF U
  <2>2. \A i \in 1 .. n + 1 : i = n + 1 \/ i \in 1 .. n
    OBVIOUS
  <2>3. /\ Joined(s, n, a) \in [1 .. n + 1 -> Addr] /\ Joined(s, n, a)[n + 1] = a
        /\ \A i \in 1 .. n : Joined(s, n, a)[i] = s[i]
    BY DEF Joined
  <2> QED
    BY <2>1, <2>2, <2>3
<1>3. ASSUME NEW k \in 1 .. n
      PROVE  SubSeq(s, 1, k - 1) \o SubSeq(s, k + 1, n) = Closed(s, n, k)
  <2> DEFINE A == SubSeq(s, 1, k - 1)
             B == SubSeq(s, k + 1, n)
  <2>1. /\ A \in Seq(Addr) /\ Len(A) = k - 1 /\ \A i \in 1 .. k - 1 : A[i] = s[i]
    BY <1>1
  <2>2. /\ B \in Seq(Addr) /\ Len(B) = n - k /\ \A i \in 1 .. n - k : B[i] = s[k + i]
    BY <1>1
  <2> HIDE DEF A, B
  <2>3. A \o B = [i \in 1 .. n - 1 |-> IF i < k THEN A[i] ELSE B[i - (k - 1)]]
    <3>1. /\ A \o B \in Seq(Addr) /\ Len(A \o B) = n - 1
          /\ \A i \in 1 .. n - 1 : (A \o B)[i] = IF i < k THEN A[i] ELSE B[i - (k - 1)]
      <4>1. /\ A \o B \in Seq(Addr) /\ Len(A \o B) = Len(A) + Len(B)
            /\ \A i \in 1 .. Len(A) + Len(B) :
                 (A \o B)[i] = IF i <= Len(A) THEN A[i] ELSE B[i - Len(A)]
        BY <2>1, <2>2, ConcatProperties
      <4>2. Len(A) + Len(B) = n - 1 /\ \A i \in Int : i <= Len(A) <=> i < k
        BY <2>1, <2>2
      <4> QED
        BY <2>1, <4>1, <4>2
    <3>2. A \o B \in [1 .. n - 1 -> Addr]
      BY <3>1, LenProperties
    <3> QED
      BY <3>1, <3>2
  <2>4. \A i \in 1 .. n - 1 : (IF i < k THEN A[i] ELSE B[i - (k - 1)])
                              = (IF i < k THEN s[i] ELSE s[i + 1])
    BY <2>1, <2>2
  <2> QED
    BY <2>3, <2>4 DEF Closed, A, B
<1>4. Append(Tail(s), Head(s)) = Turned(s, n)
  <2>1. /\ Tail(s) \in Seq(Addr) /\ Len(Tail(s)) = n - 1
        /\ \A i \in 1 .. n - 1 : Tail(s)[i] = s[i + 1]
        /\ Head(s) = s[1]
    BY <1>1
  <2> DEFINE T == Tail(s)
             U == Append(T, s[1])
  <2> HIDE DEF T
  <2>2. /\ U \in Seq(Addr) /\ Len(U) = n /\ U[n] = s[1]
        /\ \A i \in 1 .. n - 1 : U[i] = s[i + 1]
    <3>1. T \in Seq(Addr) /\ Len(T) = n - 1 /\ s[1] \in Addr
      BY <2>1 DEF T
    <3>2. /\ U \in Seq(Addr) /\ Len(U) = (n - 1) + 1 /\ U[(n - 1) + 1] = s[1]
          /\ \A i \in 1 .. n - 1 : U[i] = T[i]
      BY <3>1, AppendProperties
    <3> QED
      BY <2>1, <3>2 DEF T
  <2> HIDE DEF U
  <2>3. U \in [1 .. n -> Addr]
    BY <2>2, LenProperties
  <2>4. /\ Turned(s, n) \in [1 .. n -> Addr] /\ Turned(s, n)[n] = s[1]
        /\ \A i \in 1 .. n - 1 : Turned(s, n)[i] = s[i + 1]
    BY DEF Turned, After
  <2>5. \A i \in 1 .. n : i = n \/ i \in 1 .. n - 1
    OBVIOUS
  <2>6. U = Turned(s, n)
    BY <2>2, <2>3, <2>4, <2>5
  <2> QED
    BY <2>1, <2>6 DEF T, U
<1> QED
  BY <1>1, <1>2, <1>3, <1>4

\* What a call may do to the list s of n accounts, the new one being t.
Turns(s, t, n) ==
  \/ t = s
  \/ \E a \in Addr : a \notin Listed(s, n) /\ t = Joined(s, n, a)
  \/ n >= 2 /\ \E k \in 1 .. n : t = Closed(s, n, k)
  \/ t = Turned(s, n)

\* The last proposer that an expulsion leaves is linked to itself; with two
\* or more left the turn passes over one of them.
Skips == RotateExpelling /\ proposer_count > 2

Exits == (\E p \in Addr : remove_proposer(p)) /\ proposer_count > 2

\* Every call changes the list as the queue's operations do, an expulsion
\* among three excepted, and refreshes the copy, an exit among three excepted.
LEMMA NextOrder ==
  ASSUME TypeOK, RegistryInv, Fresh, Links, NEW s, Order(s), [Next]_vars
  PROVE  \E t : /\ Order(t)'
                /\ Turns(s, t, proposer_count) \/ Skips
                /\ Fresh' \/ Exits
<1>0. proposer_count \in Nat \ {0} /\ current.addr \in Registered
  BY DEF Order, Fresh
<1>a. ASSUME NEW t, Order(t)', current' = proposers'[t[1]] PROVE Fresh'
  <2>1. t[1] \in Registered' /\ t[1] = current'.addr
    BY <1>a DEF Order, Listed
  <2> QED
    BY <1>a, <2>1 DEF Fresh
<1>1. ASSUME NEW a \in Addr, NEW u \in Urls, bootstrapDefaultProposer(a, u) PROVE FALSE
  BY <1>0, <1>1 DEF bootstrapDefaultProposer
<1>2. CASE \E a \in Addr, u \in Urls : add_proposer(a, u)
  <2>1. PICK a \in Addr, u \in Urls : add_proposer(a, u)
    BY <1>2
  <2>2. PICK t : /\ Order(t)' /\ current' = proposers'[t[1]]
                 /\ t = Joined(s, proposer_count, a)
                 /\ a \notin Listed(s, proposer_count)
    BY <2>1, AddOrder
  <2> QED
    BY <1>a, <2>2 DEF Turns
<1>3. CASE \E p \in Addr : remove_proposer(p)
  <2>1. PICK p \in Addr : remove_proposer(p)
    BY <1>3
  <2>2. PICK t : \E k \in 1 .. proposer_count :
           /\ Order(t)' /\ t = Closed(s, proposer_count, k)
           /\ p = s[k] /\ proposer_count >= 2
           /\ proposer_count = 2 => current' = proposers'[t[1]]
    BY <2>1, RemoveOrder
  <2>3. Turns(s, t, proposer_count)
    BY <2>2 DEF Turns
  <2>4. Fresh' \/ proposer_count > 2
    BY <1>0, <1>a, <2>2
  <2> QED
    BY <1>3, <2>2, <2>3, <2>4 DEF Exits
<1>4. CASE RotateDiligent \/ RotateFining
  <2>1. PICK t : Order(t)' /\ current' = proposers'[t[1]] /\ t = Turned(s, proposer_count)
    BY <1>4, RotateOrder
  <2> QED
    BY <1>a, <2>1 DEF Turns
<1>5. CASE RotateExpelling
  <2>1. PICK t : /\ Order(t)' /\ current' = proposers'[t[1]] /\ proposer_count >= 2
                 /\ t = Turned(Closed(s, proposer_count, 1), proposer_count - 1)
    BY <1>5, ExpelOrder
  <2>2. CASE proposer_count = 2
    <3>1. t = Closed(s, proposer_count, 1)
      BY <2>1, <2>2 DEF Turned, Closed, After
    <3>2. Turns(s, t, proposer_count)
      BY <1>0, <2>1, <3>1 DEF Turns
    <3> QED
      BY <1>a, <2>1, <3>2
  <2>3. CASE proposer_count > 2
    BY <1>5, <1>a, <2>1, <2>3 DEF Skips
  <2> QED
    BY <1>0, <2>1, <2>2, <2>3
<1>6. CASE UNCHANGED <<proposers, current, proposer_count>>
  <2>1. Order(s)' /\ Fresh'
    BY <1>6 DEF Order, Fresh, Registered
  <2> QED
    BY <2>1 DEF Turns
<1> QED
  BY <1>1, <1>2, <1>3, <1>4, <1>5, <1>6
  DEF Next, rotate_proposer, withdraw, set_nightfall, ProposeBlock, MineL1Block, vars

List == [i \in 1 .. proposer_count |-> get_proposers[i].addr]

LEMMA NextList ==
  ASSUME NEW CONSTANT s
  PROVE  (Order(s) /\ Fresh)' => List' = s
<1>1. Order(s) /\ Fresh => List = s
  BY ListIsTheOrder DEF List
<1>2. (Order(s) /\ Fresh)' => (List = s)'
  BY <1>1, PTL
<1> QED
  BY <1>2

\* The ring is one ring: linked both ways, and the list goes round all of it.
RingOrder == Fresh /\ Links /\ \E s : Order(s)

LEMMA RingOrderIsRingInv == RingOrder => RingInv
<1> SUFFICES ASSUME RingOrder PROVE ListIsComplete
  BY DEF RingOrder, RingInv
<1>1. PICK s : Order(s)
  BY DEF RingOrder
<1>2. List = s
  BY <1>1, ListIsTheOrder DEF RingOrder, List
<1>3. \A i \in 1 .. proposer_count : get_proposers[i].addr = s[i]
  BY <1>2 DEF List
<1> QED
  BY <1>1, <1>3 DEF ListIsComplete, Order, Listed

LEMMA InitRing == Init => RingOrder /\ Queue!Init
<1> SUFFICES ASSUME Init PROVE RingOrder /\ Queue!Init
  OBVIOUS
<1>1. PICK a \in Addr, u \in Urls :
         /\ current = Sole(a, u)
         /\ proposers = [x \in Address |-> IF x = a THEN Sole(a, u) ELSE Deleted]
  BY DEF Init
<1>2. proposer_count = 1
  BY DEF Init
<1>3. Registered = {a} /\ proposers[a] = Sole(a, u)
  BY <1>1, RoundRobinAssumption DEF Registered, Address, Deleted, Sole
<1>4. Fresh /\ Links
  BY <1>1, <1>3 DEF Fresh, Links, Sole
<1>5. PICK s : s = [i \in 1 .. 1 |-> a]
  OBVIOUS
<1>6. Order(s)
  BY <1>1, <1>2, <1>3, <1>5 DEF Order, InOrder, Listed, After, Sole
<1>7. List = s
  BY <1>4, <1>6, ListIsTheOrder DEF List
<1>8. s = <<a>>
  BY <1>5
<1> QED
  BY <1>4, <1>6, <1>7, <1>8 DEF RingOrder, Queue!Init, List

\* The list's changes are the queue's steps.
LEMMA QueueStep ==
  ASSUME NEW s, NEW t, NEW n \in Nat \ {0}, s \in [1 .. n -> Addr],
         Turns(s, t, n), List = s, List' = t
  PROVE  [Queue!Next]_List
<1>0. /\ s \in Seq(Addr) /\ Len(s) = n /\ DOMAIN s = 1 .. n
      /\ \A a \in Addr : Append(s, a) = Joined(s, n, a)
      /\ \A k \in 1 .. n : SubSeq(s, 1, k - 1) \o SubSeq(s, k + 1, n) = Closed(s, n, k)
      /\ Append(Tail(s), Head(s)) = Turned(s, n)
  BY ListSteps
<1>1. ASSUME NEW a \in Addr, a \notin Listed(s, n), t = Joined(s, n, a) PROVE Queue!Next
  <2>1. Queue!Join(a)
    BY <1>0, <1>1 DEF Queue!Join, Queue!IsIn, Listed, List
  <2> QED
    BY <2>1 DEF Queue!Next
<1>2. ASSUME n >= 2, NEW k \in 1 .. n, t = Closed(s, n, k) PROVE Queue!Next
  <2>1. s[k] \in Addr /\ n > 1
    BY <1>2
  <2>2. Queue!Leave(s[k])
    BY <1>0, <1>2, <2>1 DEF Queue!Leave, List
  <2> QED
    BY <2>1, <2>2 DEF Queue!Next
<1>3. ASSUME t = Turned(s, n) PROVE Queue!Next
  BY <1>0, <1>3 DEF Queue!Next, Queue!Rotate, List
<1> QED
  BY <1>1, <1>2, <1>3 DEF Turns

LEMMA NextRing ==
  TypeOK /\ RegistryInv /\ RingOrder /\ [Next]_vars =>
    /\ Fresh' => RingOrder'
    /\ Fresh' => [Queue!Next]_List \/ Skips
    /\ Fresh' \/ Exits
<1> SUFFICES ASSUME TypeOK, RegistryInv, RingOrder, [Next]_vars
             PROVE  /\ Fresh' => RingOrder'
                    /\ Fresh' => [Queue!Next]_List \/ Skips
                    /\ Fresh' \/ Exits
  OBVIOUS
<1>1. PICK s : Order(s)
  BY DEF RingOrder
<1>2. PICK t : /\ Order(t)'
               /\ Turns(s, t, proposer_count) \/ Skips
               /\ Fresh' \/ Exits
  BY <1>1, NextOrder DEF RingOrder
<1>3. Links'
  BY FreshStep DEF RingOrder
<1>4. Fresh' => RingOrder'
  BY <1>2, <1>3 DEF RingOrder
<1>5. ASSUME Fresh', Turns(s, t, proposer_count) PROVE [Queue!Next]_List
  <2>1. List = s
    BY <1>1, ListIsTheOrder DEF RingOrder, List
  <2>2. List' = t
    BY <1>2, <1>5, NextList
  <2>3. proposer_count \in Nat \ {0} /\ s \in [1 .. proposer_count -> Addr]
    BY <1>1 DEF Order, InOrder
  <2> QED
    BY <1>5, <2>1, <2>2, <2>3, QueueStep
<1> QED
  BY <1>2, <1>4, <1>5

LEMMA BaseCorrect == Spec => [](TypeOK /\ RegistryInv)
  BY TypeCorrect, RegistryCorrect, PTL

\* For any number of proposers: as long as nobody leaves while three or more
\* are registered, by remove_proposer, the copy `current` agrees with the
\* mapping, the links form one ring, and get_proposers lists all of it.
THEOREM RingUnlessExit == Spec /\ [][~Exits]_vars => []RingInv
<1>1. TypeOK /\ RegistryInv /\ RingOrder /\ [Next]_vars /\ [~Exits]_vars => RingOrder'
  <2>1. UNCHANGED vars => (RingOrder => RingOrder')
    <3> SUFFICES ASSUME UNCHANGED vars, RingOrder PROVE RingOrder'
      OBVIOUS
    <3>1. PICK s : Order(s)
      BY DEF RingOrder
    <3>2. Order(s)' /\ Fresh' /\ Links'
      BY <3>1 DEF RingOrder, Order, Fresh, Links, Registered, vars
    <3> QED
      BY <3>2 DEF RingOrder
  <2> QED
    BY <2>1, NextRing
<1> QED
  BY <1>1, BaseCorrect, InitRing, RingOrderIsRingInv, PTL DEF Spec

\* However long the ring and whoever leaves it: as long as the copy is fresh
\* the ring is whole.
THEOREM RingWhileFresh == Spec /\ []Fresh => []RingInv
<1>1. TypeOK /\ RegistryInv /\ RingOrder /\ [Next]_vars /\ Fresh' => RingOrder'
  BY NextRing
<1> QED
  BY <1>1, BaseCorrect, InitRing, RingOrderIsRingInv, PTL DEF Spec

\* Then, expulsions among three or more excepted, which pass over a proposer,
\* the list that get_proposers returns is a queue: joining proposers come last,
\* a rotation moves the first to the end, leaving closes a gap.
THEOREM TurnsWhileFresh == Spec /\ []Fresh /\ [][~Skips]_vars => TakesTurns
<1>1. TypeOK /\ RegistryInv /\ RingOrder /\ [Next]_vars /\ Fresh' => RingOrder'
  BY NextRing
<1>2. UNCHANGED vars => UNCHANGED List
  BY DEF vars, List, get_proposers
<1>3. TypeOK /\ RegistryInv /\ RingOrder /\ [Next]_vars /\ Fresh' /\ [~Skips]_vars
        => [Queue!Next]_List
  BY <1>2, NextRing
<1>4. TakesTurns <=> Queue!Init /\ [][Queue!Next]_List
  BY DEF TakesTurns, Queue!Spec, List
<1> QED
  BY <1>1, <1>3, <1>4, BaseCorrect, InitRing, PTL DEF Spec

LEMMA PairStep ==
  TypeOK /\ RegistryInv /\ RingOrder /\ [Next]_vars /\ proposer_count <= 2 =>
    RingOrder' /\ [Queue!Next]_List
<1>1. proposer_count <= 2 /\ RingOrder => ~ Exits /\ ~ Skips
  BY DEF Exits, Skips, RingOrder, Order
<1> QED
  BY <1>1, NextRing

\* With at most two proposers registered there is no exception: however they
\* join, leave, rotate and are expelled, the ring is whole ...
THEOREM RingCorrect == Spec /\ [](proposer_count <= 2) => []RingInv
  BY PairStep, BaseCorrect, InitRing, RingOrderIsRingInv, PTL DEF Spec

\* ... and the contract implements the queue.
THEOREM TurnsCorrect == Spec /\ [](proposer_count <= 2) => TakesTurns
<1>1. TakesTurns <=> Queue!Init /\ [][Queue!Next]_List
  BY DEF TakesTurns, Queue!Spec, List
<1> QED
  BY <1>1, PairStep, BaseCorrect, InitRing, PTL DEF Spec

=============================================================================
