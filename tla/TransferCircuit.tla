--------------------------- MODULE TransferCircuit ---------------------------
(***************************************************************************)
(* Commitments, nullifiers, the encryption of a transfer's first output    *)
(* and the circuit that every transfer and withdraw is proved in:          *)
(* domain/entities.rs, primitives/kemdem_functions.rs and                  *)
(* plonk_prover/circuits.                                                  *)
(*                                                                         *)
(* A field element is a tuple that starts with its kind, so a hash is the  *)
(* tuple of what was hashed and two hashes agree exactly when their inputs *)
(* do; amounts are numbers.  A point is the set of the scalars the         *)
(* generator was multiplied by.                                            *)
(***************************************************************************)
EXTENDS Integers, Sequences

CONSTANT MaxAmount    \* the largest amount of 96 bits

Slots == 1 .. 4

Zero == <<"zero">>
ZeroScalar == <<"zero">>

Generator == <<"point", {}>>
Neutral == <<"neutral">>
contract_nf_address == <<"contract">>

\* Scalar multiplication: commutative, and absorbed by the neutral point.
Mul(k, p) ==
  IF k = ZeroScalar \/ p = Neutral THEN Neutral ELSE <<"point", p[2] \cup {k}>>

get_y(p) == <<"y", p>>

fee_token_id == <<"token", "fee">>

-----------------------------------------------------------------------------
(* Preimages: the salt of a deposit is the hash of its secret, any other   *)
(* salt is a field element.                                                *)

DepositSecret(n) == <<"secret", n>>
DefaultSecret == <<"no_secret">>
SecretHash(secret) == <<"secret_hash", secret>>

Preimage(value, token, slot, key, salt) ==
  [value |-> value, nf_token_id |-> token, nf_slot_id |-> slot,
   public_key |-> key, salt |-> salt, secret |-> DefaultSecret]

DepositPreimage(value, token, slot, secret) ==
  [Preimage(value, token, slot, Neutral, SecretHash(secret)) EXCEPT !.secret = secret]

DefaultPreimage == Preimage(0, Zero, Zero, Neutral, Zero)

poseidon_hash(token, slot, value, key, salt) ==
  <<"commitment", token, slot, value, key, salt>>

Hash(p) == poseidon_hash(p.nf_token_id, p.nf_slot_id, p.value, p.public_key, p.salt)

NullifierOf(nullifier_key, hash) == <<"nullifier", nullifier_key, hash>>

nullifier_hash(p, nullifier_key) == NullifierOf(nullifier_key, Hash(p))

-----------------------------------------------------------------------------
(* KEM-DEM: every plain text element is masked by a hash of the key and of *)
(* its position; the wrong key leaves noise.                               *)

Mask(key, i, plain) == <<"masked", key, i, plain>>

Unmask(key, i, cipher) ==
  IF Len(cipher) = 4 /\ cipher[2] = key /\ cipher[3] = i
  THEN cipher[4]
  ELSE <<"noise", key, i, cipher>>

Sign(p) == <<"sign", p>>

\* A point is sent as its y coordinate and the sign of its x coordinate.
Decompress(y, sign) == IF y[2] = sign[2] THEN y[2] ELSE Neutral

kemdem(ephemeral_key, shared_secret, plain) ==
  LET epk == Mul(ephemeral_key, Generator)
  IN [i \in 1 .. 3 |-> Mask(shared_secret, i, plain[i])] \o <<get_y(epk), Sign(epk)>>

\* Mutant: the salt is read off the ephemeral key the sender published.
DecryptWithEpk(private_key, cipher) ==
  LET shared_secret == Mul(private_key, Decompress(cipher[4], cipher[5]))
  IN [i \in 1 .. 3 |-> Unmask(shared_secret, i, cipher[i])] \o <<cipher[4]>>

\* What the holder of the private key makes of a cipher text: three elements
\* and the salt of the commitment they belong to.
kemdem_decrypt(private_key, cipher) ==
  LET shared_secret == Mul(private_key, Decompress(cipher[4], cipher[5]))
  IN [i \in 1 .. 3 |-> Unmask(shared_secret, i, cipher[i])] \o <<get_y(shared_secret)>>

-----------------------------------------------------------------------------
(* The circuit.  in holds the private inputs and the public inputs the     *)
(* client supplies: the fee and the roots.                                 *)

WithdrawFlag(in) == in.withdraw_address # Zero

\* enforce_in_range: the balance equations are over a field, so an amount
\* that should be negative is a number far above the range.
enforce_in_range(amount) == amount \in 0 .. MaxAmount

AmountsBalance(in) ==
  /\ in.value + in.commitments_values[1] = in.nullifiers_values[1] + in.nullifiers_values[2]
  /\ in.fee + in.commitments_values[2] = in.nullifiers_values[3] + in.nullifiers_values[4]

AmountsInRange(in) ==
  \A amount \in {in.value, in.fee, in.commitments_values[1], in.commitments_values[2]} :
    enforce_in_range(amount)

verify_commitments(in, shared_secret) ==
  LET own == Mul(in.zkp_private_key, Generator)
      hash == <<
        poseidon_hash(in.nf_token_id, in.nf_slot_id, in.value,
                      in.recipient_public_key, get_y(shared_secret)),
        poseidon_hash(in.nf_token_id, in.nf_slot_id, in.commitments_values[1],
                      own, in.commitments_salts[1]),
        poseidon_hash(fee_token_id, fee_token_id, in.fee,
                      contract_nf_address, in.commitments_salts[2]),
        poseidon_hash(fee_token_id, fee_token_id, in.commitments_values[2],
                      own, in.commitments_salts[3]) >>
      amount == <<in.value, in.commitments_values[1], in.fee, in.commitments_values[2]>>
      absent(i) == IF i = 1 THEN WithdrawFlag(in) ELSE amount[i] = 0
  IN [i \in Slots |-> IF absent(i) THEN Zero ELSE hash[i]]

\* What the path of a membership proof leads to from a leaf.
calculate_new_root(proof, leaf) ==
  IF leaf = proof.leaf THEN proof.root ELSE <<"another_root", leaf>>

SpentHash(in, i) ==
  LET token == IF i <= 2 THEN in.nf_token_id ELSE fee_token_id
      slot == IF i <= 2 THEN in.nf_slot_id ELSE fee_token_id
  IN poseidon_hash(token, slot, in.nullifiers_values[i], in.public_keys[i],
                   in.nullifiers_salts[i])

\* The first spent commitment is always real; the others are when they hold
\* something.
IsPlaceholder(in, i) == i # 1 /\ in.nullifiers_values[i] = 0

nullifiers(in) ==
  [i \in Slots |-> IF IsPlaceholder(in, i) THEN Zero
                   ELSE NullifierOf(in.nullifier_key, SpentHash(in, i))]

verify_nullifiers(in) ==
  \A i \in Slots :
    IF IsPlaceholder(in, i)
    THEN in.nullifiers_salts[i] = Zero
    ELSE /\ calculate_new_root(in.membership_proofs[i], SpentHash(in, i)) = in.roots[i]
         /\ in.public_keys[i] = Neutral =>
              in.nullifiers_salts[i] = SecretHash(in.secret_preimages[i])

verify_duplicates(elements) ==
  \A i, j \in Slots : i < j => elements[j] = Zero \/ elements[j] # elements[i]

verify_encryption(in, shared_secret) ==
  IF WithdrawFlag(in)
  THEN <<in.nf_token_id, in.withdraw_address, in.value, Zero, Zero>>
  ELSE kemdem(in.ephemeral_key, shared_secret, <<in.nf_token_id, in.nf_slot_id, in.value>>)

SharedSecret(in) == Mul(in.ephemeral_key, in.recipient_public_key)

\* The public inputs the circuit computes: the client's transaction.
PublicInputs(in) ==
  [fee |-> in.fee, roots |-> in.roots,
   commitments |-> verify_commitments(in, SharedSecret(in)),
   nullifiers |-> nullifiers(in),
   public_data |-> verify_encryption(in, SharedSecret(in))]

\* check_circuit_satisfiability: whether the inputs have a proof.
assess_operation_integrity(in) ==
  /\ AmountsBalance(in)
  /\ AmountsInRange(in)
  /\ verify_nullifiers(in)
  /\ verify_duplicates(nullifiers(in))
  /\ verify_duplicates(verify_commitments(in, SharedSecret(in)))
  /\ in.recipient_public_key = Neutral <=> WithdrawFlag(in)

-----------------------------------------------------------------------------
(* The deposit circuit: four deposits, those with neither amount nor token *)
(* being padding.                                                          *)

IsPadding(d) == d.value = 0 /\ d.nf_token_id = Zero

to_commitment(d) ==
  IF IsPadding(d) THEN Zero
  ELSE poseidon_hash(d.nf_token_id, d.nf_slot_id, d.value, Neutral, d.secret_hash)

sha256_and_shift(d) == IF IsPadding(d) THEN Zero ELSE <<"sha256", d>>

build_deposit_circuit(data) ==
  [fee |-> 0, roots |-> [i \in Slots |-> Zero],
   commitments |-> [i \in Slots |-> to_commitment(data[i])],
   nullifiers |-> [i \in Slots |-> Zero],
   public_data |-> [i \in Slots |-> sha256_and_shift(data[i])] \o <<Zero>>]

=============================================================================
