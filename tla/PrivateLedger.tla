---------------------------- MODULE PrivateLedger ----------------------------
(***************************************************************************)
(* Clients that deposit, transfer and withdraw tokens: what their wallets  *)
(* hold, what their transactions put on chain and what other clients read  *)
(* back from it.  handle_deposit, handle_transfer and handle_withdraw of   *)
(* rest/client_nf_3.rs, client_operation of services/client_operation.rs   *)
(* and the part of event_handlers/nightfall_event.rs that updates wallets. *)
(*                                                                         *)
(* A request is handled in one step and a block is handled by every client *)
(* as it is included; the module Client interleaves their steps.           *)
(***************************************************************************)
EXTENDS TransferCircuit, CommitmentSelection, FiniteSets, FiniteSetsExt

CONSTANTS
  Clients,       \* names of the clients
  SlotOf,        \* a token's slot; the token itself except for ERC3525
  Endowments,    \* what the first client may have deposited before the start
  Requests,      \* the transfers and withdraws clients may ask for
  Deposits,      \* the deposits clients may ask for
  FirstClient,
  MaxOps         \* bound on the requests handled

VARIABLES
  wallet,      \* client -> its stored commitments
  escrows,     \* deposits in escrow that no block has taken yet
  pool,        \* transactions proposers hold
  mined,       \* transactions on chain
  blocks,      \* how many blocks there are
  deposited,   \* token -> amount ever escrowed
  claims,      \* what clients were told to claim their withdraws with
  results,     \* how the requests ended
  ops          \* requests handled

vars == <<wallet, escrows, pool, mined, blocks, deposited, claims, results, ops>>

Tokens == DOMAIN SlotOf

\* Fees are paid in an ERC20 token; requests and deposits name clients and
\* tokens.  Nothing limits the amounts.
ASSUME LedgerAssumption ==
  /\ MaxAmount \in Nat /\ FirstClient \in Clients
  /\ fee_token_id \in Tokens /\ SlotOf[fee_token_id] = fee_token_id
  /\ Zero \notin Tokens
  /\ \A r \in Requests : /\ r.client \in Clients /\ r.to \in Clients /\ r.token \in Tokens
                         /\ r.value \in Nat /\ r.fee \in Nat
  /\ \A r \in Deposits : /\ r.client \in Clients /\ r.token \in Tokens
                         /\ r.value \in Nat /\ r.deposit_fee \in Nat
  /\ Endowments \subseteq Seq([token : Tokens, value : Nat])

\* Every deposit is of an amount the circuit can move.  escrow_funds does not
\* check it.
DepositsInRange ==
  /\ \A r \in Deposits : r.value <= MaxAmount /\ r.deposit_fee <= MaxAmount
  /\ \A e \in Endowments : \A i \in DOMAIN e : e[i].value <= MaxAmount

zkp_private_key(c) == <<"key", c>>
zkp_public_key(c) == Mul(zkp_private_key(c), Generator)
nullifier_key(c) == <<"nullifier_key", c>>

Entry(c, p, status) ==
  [preimage |-> p, nullifier |-> nullifier_hash(p, nullifier_key(c)), status |-> status]

Commitments(txs) == (UNION {Range(tx.commitments) : tx \in txs}) \ {Zero}
Nullifiers(txs) == (UNION {Range(tx.nullifiers) : tx \in txs}) \ {Zero}

get_root == <<"root", blocks>>

-----------------------------------------------------------------------------
(* Selection *)

get_available_commitments(w, token) ==
  {[key |-> e.preimage, value |-> e.preimage.value] :
     e \in {e \in w : e.status = "Unspent" /\ e.preimage.nf_token_id = token}}

find_usable_commitments(w, token, target) ==
  LET chosen == Usable(get_available_commitments(w, token), target)
  IN [i \in DOMAIN chosen |-> chosen[i].key]

mark_commitments_pending_spend(w, preimages) ==
  {IF e.preimage \in preimages THEN [e EXCEPT !.status = "PendingSpend"] ELSE e : e \in w}

Padded(chosen) ==
  [i \in 1 .. MAX_POSSIBLE_COMMITMENTS |->
     IF i \in DOMAIN chosen THEN chosen[i] ELSE DefaultPreimage]

-----------------------------------------------------------------------------
(* Building an operation.  r is the request, spend the four preimages.     *)

TransferSalt(i) == <<"salt", ops, i>>

ephemeral_key(r) == IF r.kind = "withdraw" THEN ZeroScalar ELSE <<"ephemeral", ops>>

new_commitment_one(r, spend) ==
  LET key == zkp_public_key(r.to)
      slot == spend[1].nf_slot_id
  IN IF r.kind = "withdraw"
     THEN Preimage(r.value, r.token, slot, contract_nf_address, TransferSalt(1))
     ELSE Preimage(r.value, r.token, slot, key, get_y(Mul(ephemeral_key(r), key)))

\* An output of no amount is not created.
Output(value, token, slot, key, salt) ==
  IF value = 0 THEN DefaultPreimage ELSE Preimage(value, token, slot, key, salt)

new_commitments(r, spend) ==
  LET own == zkp_public_key(r.client)
      token_change == spend[1].value + spend[2].value - r.value
      fee_change == spend[3].value + spend[4].value - r.fee
  IN << new_commitment_one(r, spend),
        Output(token_change, r.token, spend[1].nf_slot_id, own, TransferSalt(2)),
        Output(r.fee, fee_token_id, fee_token_id, contract_nf_address, TransferSalt(3)),
        Output(fee_change, fee_token_id, fee_token_id, own, TransferSalt(4)) >>

\* handle_client_operation stores the change, and the change only.
ChangeEntries(c, new) ==
  {Entry(c, new[i], "PendingCreation") :
     i \in {i \in 2 .. 4 : new[i].public_key = zkp_public_key(c) /\ new[i] # DefaultPreimage}}

WithdrawAddress(r) == IF r.kind = "withdraw" THEN <<"address", r.to>> ELSE Zero

\* A default preimage has no proof of membership.
MembershipProof(p) ==
  IF p.nf_token_id = Zero THEN [leaf |-> Zero, root |-> Zero]
  ELSE [leaf |-> Hash(p), root |-> get_root]

\* The inputs of the circuit.
Inputs(r, spend, new) ==
  [fee |-> new[3].value,
   roots |-> [i \in Slots |-> IF spend[i].nf_token_id = Zero THEN Zero ELSE get_root],
   value |-> new[1].value,
   nf_token_id |-> spend[1].nf_token_id,
   nf_slot_id |-> new[1].nf_slot_id,
   nullifier_key |-> nullifier_key(r.client),
   nullifiers_values |-> [i \in Slots |-> spend[i].value],
   nullifiers_salts |-> [i \in Slots |-> spend[i].salt],
   commitments_values |-> <<new[2].value, new[4].value>>,
   commitments_salts |-> <<new[2].salt, new[3].salt, new[4].salt>>,
   public_keys |-> [i \in Slots |-> spend[i].public_key],
   recipient_public_key |-> IF r.kind = "withdraw" THEN Neutral ELSE new[1].public_key,
   zkp_private_key |-> zkp_private_key(r.client),
   ephemeral_key |-> ephemeral_key(r),
   membership_proofs |-> [i \in Slots |-> MembershipProof(spend[i])],
   withdraw_address |-> WithdrawAddress(r),
   secret_preimages |-> [i \in Slots |-> spend[i].secret]]

ValueConserved(spend, new) ==
  /\ new[1].value + new[2].value = spend[1].value + spend[2].value
  /\ new[3].value + new[4].value = spend[3].value + spend[4].value

Proved(r, spend, new) ==
  ValueConserved(spend, new) /\ assess_operation_integrity(Inputs(r, spend, new))

\* What the response to a withdraw tells the client to claim it with.
Claim(r, spend) ==
  [nf_token_id |-> r.token, withdraw_address |-> WithdrawAddress(r), value |-> r.value,
   withdraw_fund_salt |-> nullifier_hash(spend[1], nullifier_key(r.client))]

-----------------------------------------------------------------------------
(* Blocks *)

DepositData(p) ==
  [nf_token_id |-> p.nf_token_id, nf_slot_id |-> p.nf_slot_id, value |-> p.value,
   secret_hash |-> p.salt]

NoDeposit == [nf_token_id |-> Zero, nf_slot_id |-> Zero, value |-> 0, secret_hash |-> Zero]

\* A proposer proves deposits four at a time.
DepositTx(data) ==
  build_deposit_circuit([i \in Slots |-> IF i <= Len(data) THEN data[i] ELSE NoDeposit])

\* mark_commitments_unspent and mark_commitments_spent.
Marked(w, txs) ==
  {[e EXCEPT !.status =
      IF e.nullifier \in Nullifiers(txs) THEN "Spent"
      ELSE IF Hash(e.preimage) \in Commitments(txs) THEN "Unspent" ELSE @] : e \in w}

\* Neither a deposit nor a withdraw has a first output to decrypt.
HasSecrets(tx) ==
  /\ \E i \in Slots : tx.nullifiers[i] # Zero
  /\ ~ (tx.commitments[1] = Zero /\ tx.nullifiers[1] # Zero)

test_preimage(c, tx) ==
  LET decrypt == kemdem_decrypt(zkp_private_key(c), tx.public_data)
  IN Preimage(decrypt[3], decrypt[1], decrypt[2], zkp_public_key(c), decrypt[4])

Received(c, txs) ==
  {Entry(c, test_preimage(c, tx), "Unspent") :
     tx \in {tx \in txs : HasSecrets(tx) /\ Hash(test_preimage(c, tx)) = tx.commitments[1]}}

process_propose_block_event(txs) ==
  wallet' = [c \in Clients |-> Marked(wallet[c], txs) \cup Received(c, txs)]

\* A block takes some of the transactions and up to four deposits.
ProposeBlock(txs, data) ==
  LET all == txs \cup (IF data = {} THEN {} ELSE {DepositTx(SetToSeq(data))})
  IN /\ all # {}
     /\ Cardinality(data) <= 4
     /\ Nullifiers(txs) \cap Nullifiers(mined) = {}
     /\ process_propose_block_event(all)
     /\ mined' = mined \cup all
     /\ blocks' = blocks + 1
     /\ pool' = pool \ txs
     /\ escrows' = escrows \ data
     /\ UNCHANGED <<deposited, claims, results, ops>>

-----------------------------------------------------------------------------
(* Requests *)

Done(r, outcome) ==
  /\ results' = results \cup {[outcome |-> outcome, value |-> r.value, fee |-> r.fee]}
  /\ ops' = ops + 1

\* deposit_operation: the commitment and the commitment of the deposit fee
\* hang on one secret.
DepositPreimages(r) ==
  LET secret == DepositSecret(<<"fresh", ops>>)
  IN {DepositPreimage(r.value, r.token, SlotOf[r.token], secret)} \cup
     (IF r.deposit_fee = 0 THEN {}
      ELSE {DepositPreimage(r.deposit_fee, fee_token_id, fee_token_id, secret)})

\* What the deposit takes into escrow of a token.
escrow_funds(r, t) ==
  SumFunction([p \in DepositPreimages(r) |-> IF p.nf_token_id = t THEN p.value ELSE 0])

handle_deposit(r) ==
  /\ ops < MaxOps
  /\ wallet' = [wallet EXCEPT ![r.client] =
                  @ \cup {Entry(r.client, p, "PendingCreation") : p \in DepositPreimages(r)}]
  /\ escrows' = escrows \cup {DepositData(p) : p \in DepositPreimages(r)}
  /\ deposited' = [t \in Tokens |-> deposited[t] + escrow_funds(r, t)]
  /\ Done(r, "submitted")
  /\ UNCHANGED <<pool, mined, blocks, claims>>

\* The proof, after what is spent and the change are stored; a proof that
\* fails leaves both as they are.
handle_client_operation(r, reserved, spend, new) ==
  /\ wallet' = [wallet EXCEPT ![r.client] =
       mark_commitments_pending_spend(reserved, Range(spend)) \cup ChangeEntries(r.client, new)]
  /\ IF Proved(r, spend, new)
     THEN /\ pool' = pool \cup {PublicInputs(Inputs(r, spend, new))}
          /\ claims' = IF r.kind = "withdraw" THEN claims \cup {Claim(r, spend)} ELSE claims
          /\ Done(r, "submitted")
     ELSE Done(r, "not_proved") /\ UNCHANGED <<pool, claims>>

Spend(r, reserved, spend) ==
  handle_client_operation(r, reserved, spend, new_commitments(r, spend))

PayFee(r, reserved, value, fee) ==
  IF r.fee # 0 /\ fee = <<>>
  THEN /\ wallet' = [wallet EXCEPT ![r.client] = reserved]
       /\ Done(r, "no_fee_commitments")
       /\ UNCHANGED <<pool, claims>>
  ELSE Spend(r, reserved, Padded(value) \o Padded(fee))

\* The value is reserved before the fee is looked for, and nothing is
\* released when the fee cannot be covered or the proof fails.
Reserve(r, value, reserved) ==
  IF value = <<>>
  THEN Done(r, "no_value_commitments") /\ UNCHANGED <<wallet, pool, claims>>
  ELSE PayFee(r, reserved, value,
         IF r.fee = 0 THEN <<>> ELSE find_usable_commitments(reserved, fee_token_id, r.fee))

Operate(r) ==
  LET value == find_usable_commitments(wallet[r.client], r.token, r.value)
  IN /\ ops < MaxOps
     /\ Reserve(r, value, mark_commitments_pending_spend(wallet[r.client], Range(value)))
     /\ UNCHANGED <<escrows, mined, blocks, deposited>>

handle_transfer(r) == r.kind = "transfer" /\ Operate(r)

handle_withdraw(r) == r.kind = "withdraw" /\ Operate(r)

-----------------------------------------------------------------------------
\* The first client has made some deposits, and their blocks are on chain.
EarlyPreimages(e) ==
  [i \in DOMAIN e |-> DepositPreimage(e[i].value, e[i].token, SlotOf[e[i].token],
                                      DepositSecret(<<"early", i>>))]
EarlyTxs(e) ==
  LET data == [i \in DOMAIN e |-> DepositData(EarlyPreimages(e)[i])]
  IN {DepositTx(SubSeq(data, i, Len(data))) : i \in {i \in DOMAIN e : i % 4 = 1}}
EarlyAmount(e, t) == SumFunction([i \in DOMAIN e |-> IF e[i].token = t THEN e[i].value ELSE 0])

Init ==
  \E e \in Endowments :
    /\ wallet = [c \in Clients |-> IF c = FirstClient
                  THEN {Entry(c, EarlyPreimages(e)[i], "Unspent") : i \in DOMAIN e} ELSE {}]
    /\ escrows = {} /\ pool = {} /\ claims = {} /\ results = {}
    /\ mined = EarlyTxs(e)
    /\ blocks = 1 /\ ops = 0
    /\ deposited = [t \in Tokens |-> EarlyAmount(e, t)]

Next ==
  \/ \E r \in Deposits : handle_deposit(r)
  \/ \E r \in Requests : handle_transfer(r) \/ handle_withdraw(r)
  \/ \E txs \in SUBSET pool, data \in SUBSET escrows : ProposeBlock(txs, data)

Spec == Init /\ [][Next]_vars

-----------------------------------------------------------------------------
(* Properties *)

\* What a choice of commitments comes to; the choices are one or two that
\* hold something.
Weight(S) ==
  [total |-> SumFunctionOnSet([e \in S |-> e.value], S), size |-> Cardinality(S)]
Options(offered) ==
  LET filled == {e \in offered : e.value > 0}
  IN {Weight(S) : S \in kSubset(1, filled) \cup kSubset(2, filled)}

\* find_usable_commitments finds something to spend whenever one or two
\* commitments cover the target, leaves as little change as any choice of one
\* or two does, and of the choices that leave least spends the most dust; it
\* never adds a commitment of no amount, which the circuit takes for a
\* placeholder.
SelectionIsBest ==
  \A c \in Clients, token \in Tokens :
    LET offered == get_available_commitments(wallet[c], token)
        list == Sorted(offered)
        choices == Options(offered)
    IN \A target \in 1 .. 2 * MaxAmount :
         LET covers == {w \in choices : w.total >= target}
             chosen == ToSet(UsableFrom(list, target))
         IN IF covers = {} THEN chosen = {}
            ELSE /\ chosen \subseteq offered
                 /\ Weight(chosen) \in covers
                 /\ \A w \in covers :
                      \/ Weight(chosen).total < w.total
                      \/ Weight(chosen).total = w.total /\ Weight(chosen).size >= w.size

\* Whatever find_usable_commitments picks, the operation built on it balances
\* and has a proof, whichever of its slots are empty, hold no amount or come
\* from a deposit: client_operation fails on no request within the range the
\* circuit allows, so none leaves its commitments reserved for nothing.
OperationIsProvable ==
  \A result \in results :
    result.outcome = "not_proved" => result.value > MaxAmount \/ result.fee > MaxAmount

\* Commitments on chain that can still be spent: nobody's nullifier of them
\* is on chain, and they are not the fees kept under the contract's key.
IsLive(h) ==
  /\ h[5] # contract_nf_address
  /\ \A c \in Clients : NullifierOf(nullifier_key(c), h) \notin Nullifiers(mined)
Live == {h \in Commitments(mined) : IsLive(h)}

Holders(h) ==
  {c \in Clients : \E e \in wallet[c] :
     Hash(e.preimage) = h /\ e.status \in {"Unspent", "PendingSpend"}}

Withdraws == {tx \in mined : tx.commitments[1] = Zero /\ tx.nullifiers[1] # Zero}
WithdrawData(tx) ==
  [nf_token_id |-> tx.public_data[1], withdraw_address |-> tx.public_data[2],
   value |-> tx.public_data[3], withdraw_fund_salt |-> tx.nullifiers[1]]

LiveAmount(t) == SumFunction([h \in Live |-> IF h[2] = t THEN h[4] ELSE 0])
WithdrawnAmount(t) ==
  SumFunction([tx \in Withdraws |-> IF tx.public_data[1] = t THEN tx.public_data[3] ELSE 0])
FeesPaid(t) == IF t = fee_token_id THEN SumFunction([tx \in mined |-> tx.fee]) ELSE 0
InEscrow(t) == SumFunction([d \in escrows |-> IF d.nf_token_id = t THEN d.value ELSE 0])

\* Nothing is lost between the wallets and the chain: every commitment on
\* chain that can be spent is held, with the preimage that opens it, by
\* exactly one client, the recipient finding it by decrypting the
\* transaction; what is held, withdrawn, paid as fees and still in escrow
\* adds up to what was deposited; and every withdraw on chain is one its
\* client was told how to claim.
EveryTokenHasAnOwner ==
  /\ \A h \in Live : Cardinality(Holders(h)) = 1
  /\ \A t \in Tokens :
       LiveAmount(t) + WithdrawnAmount(t) + FeesPaid(t) + InEscrow(t) = deposited[t]
  /\ \A tx \in Withdraws : WithdrawData(tx) \in claims

=============================================================================
