------------------------------ MODULE Nightfall ------------------------------
(***************************************************************************)
(* The rollup contract, blockchain_assets/contracts/Nightfall.sol: escrow  *)
(* of deposits, acceptance of L2 blocks, release of withdrawals.           *)
(*                                                                         *)
(* The three Merkle roots stand for an L2 ledger, and the rollup proof     *)
(* that verify_rollup_proof checks ties a block to the ledger its roots    *)
(* stand for.  The model keeps that ledger itself (l2, nullified) and, for *)
(* the proof, the conditions the circuits enforce on a block.  Hashes are  *)
(* injective: a key is the tuple that is hashed.  A caller of escrow_funds *)
(* sends any ether with it, and a proposer fills a block's deposit         *)
(* transactions in any way the circuits accept; RepositorySpec is the      *)
(* contract as the client and the proposer of this repository use it.      *)
(***************************************************************************)
EXTENDS Integers, FiniteSets, Functions

CONSTANTS
  Token,      \* deposited tokens: an (ercAddress, tokenId) pair each
  FeeToken,   \* feeId, the token that stands for ether
  TypeOf,     \* TokenType of each token
  Amounts,    \* values deposited and withdrawn (0 for an ERC721)
  Secrets,    \* secretHash values
  Nullifiers, \* first nullifiers of client transactions
  Fees,       \* fees offered to the proposer
  Payments,   \* ether sent with a deposit: msg.value
  MaxTxs,     \* transactions in a block: 64 and up in the code
  MaxBlocks   \* bound on layer2_block_number

TokenTypes == {"ERC20", "ERC1155", "ERC721", "ERC3525"}

\* Zero is no amount to deposit, and every set is one of machine words.
ASSUME NightfallAssumption ==
  /\ FeeToken \notin Token
  /\ IsFiniteSet(Token) /\ IsFiniteSet(Amounts)
  /\ IsFiniteSet(Fees) /\ IsFiniteSet(Payments)
  /\ IsFiniteSet(Secrets) /\ IsFiniteSet(Nullifiers)
  /\ TypeOf \in [Token -> TokenTypes]
  /\ Amounts \subseteq Nat \ {0}
  /\ Fees \subseteq Nat /\ Payments \subseteq Nat
  /\ MaxTxs \in Nat /\ MaxBlocks \in Nat

VARIABLES
  feeBinding,         \* deposit key -> fee, escrowed, redeemed
  withdrawalIncluded, \* the withdraw keys whose flag is 1
  layer2_block_number,
  eth,                \* ether the contract holds
  held,               \* units of each token it holds
  known,              \* the tokens tokenIdMapping has an address for
  l2,                 \* value of each token in unspent L2 commitments
  inserted,           \* deposits whose commitment is in the commitment tree
  nullified,          \* nullifiers in the nullifier tree
  surplus             \* history variable: ether received beyond what was bound
                      \* to a key, less ether paid for withdraws of unknown tokens

vars == <<feeBinding, withdrawalIncluded, layer2_block_number, eth, held, known,
          l2, inserted, nullified, surplus>>

AnyToken == Token \cup {FeeToken}

IsNFT(t) == t # FeeToken /\ TypeOf[t] = "ERC721"

DepositFeeOf(fee, paid) == paid - 2 * fee

\* The values a token is deposited and withdrawn with, and what one such
\* commitment weighs in the ledger.
DepositFees == {DepositFeeOf(fee, paid) : fee \in Fees, paid \in Payments} \cap (Nat \ {0})
ValuesOf(t) == IF IsNFT(t) THEN {0} ELSE IF t = FeeToken THEN DepositFees ELSE Amounts
Units(k) == IF IsNFT(k.token) THEN 1 ELSE k.value

DepositKey == UNION {[token : {t}, value : ValuesOf(t), secret : Secrets] : t \in AnyToken}
WithdrawKey == UNION {[token : {t}, value : ValuesOf(t), salt : Nullifiers] : t \in AnyToken}

Weight == [k \in DepositKey \cup WithdrawKey |-> Units(k)]

NotEscrowed == [fee |-> 0, escrowed |-> 0, redeemed |-> 0]

Init ==
  /\ feeBinding = [k \in DepositKey |-> NotEscrowed]
  /\ withdrawalIncluded = {}
  /\ layer2_block_number = 0
  /\ eth = 0
  /\ held = [t \in Token |-> 0]
  /\ known = {}
  /\ l2 = [t \in AnyToken |-> 0]
  /\ inserted = {}
  /\ nullified = {}
  /\ surplus = 0

-----------------------------------------------------------------------------
(* Deposits *)

\* Mutant: a second deposit under the same key is not refused.
AlwaysFree(k) == TRUE

Free(k) == feeBinding[k].escrowed = 0

\* The token contract lets a caller transfer a token it owns: a token that is
\* one indivisible id cannot come in twice.
CallerOwns(t) == TypeOf[t] \in {"ERC721", "ERC3525"} => held[t] = 0

Bind(B, k, fee) == [B EXCEPT ![k] = [fee |-> fee, escrowed |-> 1, redeemed |-> 0]]

\* Nothing compares what is paid with the fee that is bound.
escrow_funds(k, fee, paid) ==
  LET feeKey == [token |-> FeeToken, value |-> DepositFeeOf(fee, paid), secret |-> k.secret]
  IN /\ k.token \in Token
     /\ Free(k)
     /\ CallerOwns(k.token)
     /\ \/ /\ paid <= 2 * fee
           /\ feeBinding' = Bind(feeBinding, k, fee)
           /\ surplus' = surplus + paid - fee
        \/ /\ paid > 2 * fee
           /\ Free(feeKey)
           /\ feeBinding' = Bind(Bind(feeBinding, k, fee), feeKey, fee)
           /\ surplus' = surplus
     /\ held' = [held EXCEPT ![k.token] = @ + Units(k)]
     /\ known' = known \cup {k.token}
     /\ eth' = eth + paid
     /\ UNCHANGED <<withdrawalIncluded, layer2_block_number, l2, inserted, nullified>>

-----------------------------------------------------------------------------
(* Blocks.  A block is a sequence of entries: each used slot of a deposit  *)
(* transaction, each transfer and each withdraw.  A slot is behind padding *)
(* when the first slot of its transaction is empty: the circuit accepts    *)
(* such a transaction, and the contract takes it for a dummy.              *)

DepositEntry  == [kind : {"deposit"}, key : DepositKey, behind_padding : BOOLEAN]
TransferEntry == [kind : {"transfer"}, nullifier : Nullifiers, fee : Fees]
WithdrawEntry == [kind : {"withdraw"}, key : WithdrawKey, fee : Fees]
Entry == DepositEntry \cup TransferEntry \cup WithdrawEntry

Of(blk, kind) == {i \in DOMAIN blk : blk[i].kind = kind}

Nullifier(e) == IF e.kind = "withdraw" THEN e.key.salt ELSE e.nullifier

\* Units of token t that the entries I of blk deposit or withdraw.
UnitsOf(blk, I, t) ==
  SumFunctionOnSet([i \in I |-> Units(blk[i].key)], {i \in I : blk[i].key.token = t})

\* The proof's fee sum: the fees of transfers and withdraws, paid out of fee
\* commitments inside the circuit.
FeeSum(blk) ==
  LET C == Of(blk, "transfer") \cup Of(blk, "withdraw")
  IN SumFunctionOnSet([i \in C |-> blk[i].fee], C)

\* What leaves the ledger's unspent commitments of token t.
Spent(blk, t) ==
  UnitsOf(blk, Of(blk, "withdraw"), t) + (IF t = FeeToken THEN FeeSum(blk) ELSE 0)

\* Mutant: the fee is not part of what a transaction's inputs have to cover.
CoveredButForFees(blk) == \A t \in AnyToken : UnitsOf(blk, Of(blk, "withdraw"), t) <= l2[t]

\* No token is spent beyond the commitments the tree held before the block.
Covered(blk) == \A t \in AnyToken : Spent(blk, t) <= l2[t]

\* The circuits: nullifiers are new and distinct, and inputs cover outputs.
verify_rollup_proof(blk) ==
  LET C == Of(blk, "transfer") \cup Of(blk, "withdraw")
  IN /\ \A i \in C : Nullifier(blk[i]) \notin nullified
     /\ \A i, j \in C : Nullifier(blk[i]) = Nullifier(blk[j]) => i = j
     /\ Covered(blk)

\* Mutant: redemption is not checked.
AnyEscrowed(k) == feeBinding[k].escrowed = 1

Redeemable(k) == feeBinding[k].escrowed = 1 /\ feeBinding[k].redeemed = 0

\* The deposit slots the contract looks at: all four of a transaction, or none.
Checked(blk) == {i \in Of(blk, "deposit") : ~ blk[i].behind_padding}

\* Each checked slot is redeemed in turn, so a key that occurs twice fails.
DepositsRedeemable(blk) ==
  /\ \A i \in Checked(blk) : Redeemable(blk[i].key)
  /\ \A i, j \in Checked(blk) : blk[i].key = blk[j].key => i = j

WithdrawsFresh(blk) ==
  /\ \A i \in Of(blk, "withdraw") : blk[i].key \notin withdrawalIncluded
  /\ \A i, j \in Of(blk, "withdraw") : blk[i].key = blk[j].key => i = j

\* The fees bound to the deposits of blk that the contract looks at.
BoundFees(blk) ==
  SumFunctionOnSet([i \in Checked(blk) |-> feeBinding[blk[i].key].fee], Checked(blk))

TotalFee(blk) == FeeSum(blk) + BoundFees(blk)

RedeemedBy(blk) ==
  [k \in DepositKey |->
     IF \E i \in Checked(blk) : blk[i].key = k
     THEN [feeBinding[k] EXCEPT !.redeemed = 1] ELSE feeBinding[k]]

Deposited(blk) == {blk[i].key : i \in Of(blk, "deposit")}

\* Units of t in the deposits that blk is the first to insert.  A commitment in
\* the tree twice has one nullifier and is spent once.
Added(blk, t) ==
  SumFunctionOnSet(Weight, {k \in Deposited(blk) \ inserted : k.token = t})

propose_block(blk) ==
  /\ layer2_block_number < MaxBlocks
  /\ verify_rollup_proof(blk)
  /\ DepositsRedeemable(blk)
  /\ WithdrawsFresh(blk)
  /\ eth >= TotalFee(blk)
  /\ feeBinding' = RedeemedBy(blk)
  /\ withdrawalIncluded' = withdrawalIncluded \cup {blk[i].key : i \in Of(blk, "withdraw")}
  /\ l2' = [t \in AnyToken |-> l2[t] - Spent(blk, t) + Added(blk, t)]
  /\ inserted' = inserted \cup Deposited(blk)
  /\ nullified' = nullified \cup
       {Nullifier(blk[i]) : i \in Of(blk, "transfer") \cup Of(blk, "withdraw")}
  /\ eth' = eth - TotalFee(blk)
  /\ layer2_block_number' = layer2_block_number + 1
  /\ UNCHANGED <<held, known, surplus>>

-----------------------------------------------------------------------------
(* Withdrawals *)

\* The transfer that descrow_funds attempts for the caller's token_type.  A
\* token contract of another type has no such function and reverts, as it does
\* when the contract does not hold what it should send; the fee token is
\* registered under the Nightfall contract itself, which has none of them, and
\* no branch exists for an ERC3525.
Transfers(k, token_type) ==
  /\ token_type \in {"ERC1155", "ERC721", "ERC20"}
  /\ k.token \in known /\ TypeOf[k.token] = token_type
  /\ token_type = "ERC721" => k.value = 0

\* Mutant: the flag is not consulted.
AnyWithdrawal(k) == TRUE

Withdrawable(k) == k \in withdrawalIncluded

\* A token that tokenIdMapping does not know is taken for the fee token: its
\* value is paid in ether and the flag stays.  Otherwise the flag is cleared by
\* a transfer and set back when none was made (no branch for the type, or an
\* ERC20 that answers false), for a retry.  Ether sent along with the call only
\* adds to what the contract holds, and is left out.
descrow_funds(k, token_type) ==
  /\ Withdrawable(k)
  /\ \/ /\ k.token \in Token \ known
        /\ eth >= k.value
        /\ eth' = eth - k.value
        /\ surplus' = surplus - k.value
        /\ UNCHANGED <<feeBinding, withdrawalIncluded, layer2_block_number, held, known,
                       l2, inserted, nullified>>
     \/ /\ Transfers(k, token_type)
        /\ held[k.token] >= Units(k)
        /\ withdrawalIncluded' = withdrawalIncluded \ {k}
        /\ held' = [held EXCEPT ![k.token] = @ - Units(k)]
        /\ UNCHANGED <<feeBinding, layer2_block_number, eth, known, l2, inserted, nullified,
                       surplus>>
     \/ /\ k.token \notin Token \ known
        /\ token_type = "ERC3525" \/ (token_type = "ERC20" /\ Transfers(k, token_type))
        /\ UNCHANGED vars

-----------------------------------------------------------------------------
Blocks == UNION {[1 .. n -> Entry] : n \in 1 .. MaxTxs}

Next ==
  \/ \E k \in DepositKey, fee \in Fees, paid \in Payments : escrow_funds(k, fee, paid)
  \/ \E blk \in Blocks : propose_block(blk)
  \/ \E k \in WithdrawKey, token_type \in TokenTypes : descrow_funds(k, token_type)

Spec == Init /\ [][Next]_vars

(* The contract as this repository uses it. *)

\* msg.value as the client computes it: the fee once, or twice and the extra.
MsgValue(fee, depositFee) == IF depositFee = 0 THEN fee ELSE 2 * fee + depositFee

\* The proposer fills up a deposit transaction behind its deposits.
Assembled(blk) == Checked(blk) = Of(blk, "deposit")

RepositoryNext ==
  \/ \E k \in DepositKey, fee \in Fees, depositFee \in DepositFees \cup {0} :
       /\ MsgValue(fee, depositFee) \in Payments
       /\ escrow_funds(k, fee, MsgValue(fee, depositFee))
  \/ \E blk \in Blocks : Assembled(blk) /\ propose_block(blk)
  \/ \E k \in WithdrawKey, token_type \in TokenTypes : descrow_funds(k, token_type)

RepositorySpec == Init /\ [][RepositoryNext]_vars

-----------------------------------------------------------------------------
(* Properties *)

TypeOK ==
  /\ feeBinding \in [DepositKey -> [fee : Nat, escrowed : {0, 1}, redeemed : {0, 1}]]
  /\ withdrawalIncluded \subseteq WithdrawKey
  /\ layer2_block_number \in Nat
  /\ eth \in Nat
  /\ held \in [Token -> Nat]
  /\ known \subseteq Token
  /\ l2 \in [AnyToken -> Nat]
  /\ inserted \subseteq DepositKey
  /\ nullified \subseteq Nullifiers
  /\ surplus \in Int

\* Units of t escrowed and not yet in a block, and those in a block's
\* withdraw and not yet paid.
AwaitingBlock(t) ==
  SumFunctionOnSet(Weight, {k \in DepositKey : k.token = t /\ feeBinding[k].escrowed = 1
                                                /\ feeBinding[k].redeemed = 0})
AwaitingPayment(t) ==
  SumFunctionOnSet(Weight, {k \in withdrawalIncluded : k.token = t})

\* Units of t in commitments that a block inserted behind padding and that no
\* deposit was redeemed for.
Unbacked(t) ==
  SumFunctionOnSet(Weight, {k \in inserted : k.token = t /\ feeBinding[k].redeemed = 0})

\* The contract holds the tokens that it owes (those deposited and not yet in a
\* block, those in unspent L2 commitments, and those of withdraws not yet paid),
\* short of nothing but the deposits that came into the tree behind padding.
\* Replayed deposits, repeated withdrawals and failed transfers create and
\* destroy nothing, and a deposit that is made after its commitment was inserted
\* closes the gap again when a block redeems it.
TokensBacked ==
  \A t \in Token : held[t] + Unbacked(t) = AwaitingBlock(t) + l2[t] + AwaitingPayment(t)

\* The same for ether, which also pays each pending deposit's bound fee.  Beside
\* the deposits behind padding nothing moves the balance but the difference of
\* what depositors paid and what was bound to their keys, and the withdraws of
\* unknown tokens.
EtherBacked ==
  eth + Unbacked(FeeToken) =
    l2[FeeToken] + AwaitingBlock(FeeToken) + AwaitingPayment(FeeToken)
    + SumFunctionOnSet([k \in DepositKey |-> feeBinding[k].fee],
                       {k \in DepositKey : feeBinding[k].redeemed = 0})
    + surplus

\* A deposit stays bound to the fee its depositor offered, stays escrowed and
\* is not un-redeemed, whatever deposits and blocks follow.
BindingIsFinal ==
  [][\A k \in DepositKey :
       feeBinding[k].escrowed = 1 =>
         /\ feeBinding'[k].escrowed = 1 /\ feeBinding'[k].fee = feeBinding[k].fee
         /\ feeBinding'[k].redeemed >= feeBinding[k].redeemed]_vars

=============================================================================
