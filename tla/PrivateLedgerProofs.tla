------------------------- MODULE PrivateLedgerProofs -------------------------
(***************************************************************************)
(* For any clients, tokens, deposits and requests: what is selected is the *)
(* best choice, what is built on it has a proof, and every token has one   *)
(* owner, from the deposit that escrows it to the withdraw that pays it    *)
(* out.                                                                    *)
(***************************************************************************)
EXTENDS PrivateLedger, SumTheorems

-----------------------------------------------------------------------------
(* What a choice of one or two comes to *)

LEMMA SumOfOne ==
  ASSUME NEW a, a.value \in Nat
  PROVE  Weight({a}) = [total |-> a.value, size |-> 1]
<1> DEFINE f == [e \in {a} |-> e.value]
<1>1. f[a] = a.value /\ f[a] \in Int
  OBVIOUS
<1>2. SumFunctionOnSet(f, {a}) = a.value
  <2> HIDE DEF f
  <2> QED
    BY <1>1, SumSingle
<1> QED
  BY <1>2, FS_Singleton DEF Weight

LEMMA SumOfTwo ==
  ASSUME NEW a, NEW b, a # b, a.value \in Nat, b.value \in Nat
  PROVE  Weight({a, b}) = [total |-> a.value + b.value, size |-> 2]
<1> DEFINE f == [e \in {a, b} |-> e.value]
<1>1. IsFiniteSet({b}) /\ Cardinality({b}) = 1
  BY FS_Singleton
<1>2. {a, b} = {b} \cup {a} /\ a \notin {b} /\ {a, b} \ {a} = {b}
  OBVIOUS
<1>3. IsFiniteSet({a, b}) /\ Cardinality({a, b}) = 2
  <2>1. IsFiniteSet({b} \cup {a}) /\ Cardinality({b} \cup {a}) = Cardinality({b}) + 1
    BY <1>1, <1>2, FS_AddElement
  <2> QED
    BY <1>1, <1>2, <2>1
<1>4. f[a] = a.value /\ f[b] = b.value /\ \A y \in {a, b} : f[y] \in Int
  OBVIOUS
<1>5. SumFunctionOnSet(f, {a, b}) = f[a] + SumFunctionOnSet(f, {b})
  <2> HIDE DEF f
  <2>1. SumFunctionOnSet(f, {a, b}) = f[a] + SumFunctionOnSet(f, {a, b} \ {a})
    BY <1>3, <1>4, SumRemove
  <2> QED
    BY <1>2, <2>1
<1>6. SumFunctionOnSet(f, {b}) = b.value
  <2> HIDE DEF f
  <2> QED
    BY <1>4, SumSingle
<1> QED
  BY <1>3, <1>4, <1>5, <1>6 DEF Weight

\* A set of two is two different things.
LEMMA TwoMembers ==
  ASSUME NEW s, Cardinality(s) = 2, IsFiniteSet(s)
  PROVE  \E a, b \in s : a # b /\ s = {a, b}
<1>1. s # {}
  BY FS_EmptySet
<1>2. PICK a \in s : TRUE
  BY <1>1
<1>3. IsFiniteSet(s \ {a}) /\ Cardinality(s \ {a}) = 1
  <2>1. IsFiniteSet(s \ {a}) /\ Cardinality(s \ {a}) = Cardinality(s) - 1
    BY <1>2, FS_RemoveElement
  <2> QED
    BY <2>1
<1>4. PICK b : s \ {a} = {b}
  BY <1>3, FS_Singleton
<1> QED
  BY <1>2, <1>4

\* The choices there are, over the places of a list of what is offered.
LEMMA OptionsAre ==
  ASSUME NEW S, IsFiniteSet(S), \A e \in S : e.value \in Nat, NEW w \in Options(S),
         NEW list \in Seq(S), \A e \in S : \E i \in DOMAIN list : list[i] = e
  PROVE  \/ \E i \in DOMAIN list : w = [total |-> list[i].value, size |-> 1] /\ list[i].value > 0
         \/ \E i, j \in DOMAIN list :
              /\ i < j /\ list[i].value > 0 /\ list[j].value > 0
              /\ w = [total |-> list[i].value + list[j].value, size |-> 2]
<1> DEFINE filled == {e \in S : e.value > 0}
<1>1. PICK s \in kSubset(1, filled) \cup kSubset(2, filled) : w = Weight(s)
  BY DEF Options
<1>2. s \subseteq S /\ (\A e \in s : e.value \in Nat /\ e.value > 0)
      /\ (Cardinality(s) = 1 \/ Cardinality(s) = 2)
  BY <1>1 DEF kSubset
<1>3. IsFiniteSet(s)
  BY <1>2, FS_Subset
<1>4. CASE Cardinality(s) = 1
  <2>1. PICK a : s = {a}
    BY <1>3, <1>4, FS_Singleton
  <2>2. PICK i \in DOMAIN list : list[i] = a
    BY <1>2, <2>1
  <2>3. w = [total |-> a.value, size |-> 1] /\ a.value > 0
    BY <1>1, <1>2, <2>1, SumOfOne
  <2> QED
    BY <2>2, <2>3
<1>5. CASE Cardinality(s) = 2
  <2>1. PICK a \in s, b \in s : a # b /\ s = {a, b}
    BY <1>3, <1>5, TwoMembers
  <2>2. PICK i \in DOMAIN list : list[i] = a
    BY <1>2, <2>1
  <2>3. PICK j \in DOMAIN list : list[j] = b
    BY <1>2, <2>1
  <2>4. a.value \in Nat /\ b.value \in Nat /\ a.value > 0 /\ b.value > 0
    BY <1>2
  <2>5. w = [total |-> a.value + b.value, size |-> 2] /\ a.value + b.value = b.value + a.value
    BY <1>1, <2>1, <2>4, SumOfTwo
  <2>6. i < j \/ j < i
    BY <2>1, <2>2, <2>3
  <2>7. CASE i < j
    BY <2>2, <2>3, <2>4, <2>5, <2>7
  <2>8. CASE j < i
    BY <2>2, <2>3, <2>4, <2>5, <2>8
  <2> QED
    BY <2>6, <2>7, <2>8
<1> QED
  BY <1>2, <1>4, <1>5

LEMMA AreOptions ==
  ASSUME NEW S, \A e \in S : e.value \in Nat, NEW a \in S, a.value > 0
  PROVE  /\ Weight({a}) \in Options(S)
         /\ \A b \in S : b # a /\ b.value > 0 => Weight({a, b}) \in Options(S)
<1> DEFINE filled == {e \in S : e.value > 0}
<1>1. {a} \in kSubset(1, filled)
  BY FS_Singleton DEF kSubset
<1>2. ASSUME NEW b \in S, b # a, b.value > 0 PROVE {a, b} \in kSubset(2, filled)
  <2>1. IsFiniteSet({b}) /\ Cardinality({b}) = 1
    BY FS_Singleton
  <2>2. {a, b} = {b} \cup {a} /\ a \notin {b} /\ {a, b} \in SUBSET filled
    BY <1>2
  <2>3. Cardinality({a, b}) = 2
    <3>1. Cardinality({b} \cup {a}) = Cardinality({b}) + 1
      BY <2>1, <2>2, FS_AddElement
    <3> QED
      BY <2>1, <2>2, <3>1
  <2> QED
    BY <2>2, <2>3 DEF kSubset
<1> QED
  BY <1>1, <1>2 DEF Options

\* The choice, among what is offered.
Best(S, target) ==
  LET covers == {w \in Options(S) : w.total >= target}
      chosen == ToSet(UsableFrom(Sorted(S), target))
  IN IF covers = {} THEN chosen = {}
     ELSE /\ chosen \subseteq S
          /\ Weight(chosen) \in covers
          /\ \A w \in covers :
               \/ Weight(chosen).total < w.total
               \/ Weight(chosen).total = w.total /\ Weight(chosen).size >= w.size

LEMMA OfferIsBest ==
  ASSUME NEW S, IsFiniteSet(S), \A e \in S : e.value \in Nat, NEW target \in Nat \ {0}
  PROVE  Best(S, target)
<1> DEFINE list == Sorted(S)
           seq == UsableFrom(list, target)
           covers == {w \in Options(S) : w.total >= target}
           chosen == ToSet(seq)
<1>1. /\ list \in Seq(S) /\ ByValue(list)
      /\ \A i, j \in DOMAIN list : i # j => list[i] # list[j]
      /\ \A e \in S : \E i \in DOMAIN list : list[i] = e
  BY SortedIsAll
<1> HIDE DEF list
<1>2. \/ NoChoice(list, target, seq) \/ OneChosen(list, target, seq)
      \/ TwoChosen(list, target, seq)
  BY <1>1, ChoiceIsBest
<1> HIDE DEF seq
<1>3. \A i, j \in DOMAIN list : /\ list[i] \in S /\ list[i].value \in Nat
                                /\ SumOf(Two(list, i, j)) = list[i].value + list[j].value
  <2> SUFFICES ASSUME NEW i \in DOMAIN list, NEW j \in DOMAIN list
               PROVE  /\ list[i] \in S /\ list[i].value \in Nat
                      /\ SumOf(Two(list, i, j)) = list[i].value + list[j].value
    OBVIOUS
  <2>1. list[i] \in S /\ list[j] \in S /\ list[i].value \in Nat /\ list[j].value \in Nat
    BY <1>1
  <2> QED
    BY <2>1, SumTwo DEF Two
\* Every way to cover the target is one member of the list or two.
<1>4. ASSUME NEW w \in covers
      PROVE  \/ \E k \in DOMAIN list : /\ w = [total |-> list[k].value, size |-> 1]
                                       /\ list[k].value >= target
             \/ \E k, l \in DOMAIN list :
                  /\ w = [total |-> SumOf(Two(list, k, l)), size |-> 2]
                  /\ Covers(list, target, k, l)
  <2>1. w \in Options(S) /\ w.total >= target
    OBVIOUS
  <2>2. CASE \E i \in DOMAIN list : w = [total |-> list[i].value, size |-> 1] /\ list[i].value > 0
    BY <2>1, <2>2
  <2>3. CASE \E i, j \in DOMAIN list :
               /\ i < j /\ list[i].value > 0 /\ list[j].value > 0
               /\ w = [total |-> list[i].value + list[j].value, size |-> 2]
    BY <1>3, <2>1, <2>3 DEF Covers
  <2> QED
    BY <1>1, <2>1, <2>2, <2>3, OptionsAre
<1>5. CASE NoChoice(list, target, seq)
  <2>1. covers = {}
    <3> SUFFICES ASSUME NEW w \in covers PROVE FALSE
      OBVIOUS
    <3>1. CASE \E k \in DOMAIN list : list[k].value >= target
      BY <1>3, <1>5, <3>1 DEF NoChoice
    <3>2. CASE \E k, l \in DOMAIN list : Covers(list, target, k, l)
      BY <1>5, <3>2 DEF NoChoice
    <3> QED
      BY <1>4, <3>1, <3>2
  <2>2. chosen = {}
    BY <1>5 DEF NoChoice, ToSet
  <2> QED
    BY <2>1, <2>2 DEF Best, list, seq
<1>6. CASE OneChosen(list, target, seq)
  <2>1. PICK i \in DOMAIN list :
          /\ seq = <<list[i]>> /\ list[i].value >= target
          /\ \A k \in DOMAIN list : list[k].value >= target => list[i].value <= list[k].value
          /\ \A k, l \in DOMAIN list :
               Covers(list, target, k, l) => list[i].value < SumOf(Two(list, k, l))
    BY <1>6 DEF OneChosen
  <2>2. chosen = {list[i]} /\ list[i] \in S /\ list[i].value \in Nat /\ list[i].value > 0
    BY <1>3, <2>1 DEF ToSet
  <2>3. Weight(chosen) = [total |-> list[i].value, size |-> 1] /\ Weight(chosen) \in Options(S)
    BY <2>2, SumOfOne, AreOptions
  <2>4. Weight(chosen) \in covers
    BY <2>1, <2>3
  <2>5. ASSUME NEW w \in covers
        PROVE  \/ Weight(chosen).total < w.total
               \/ Weight(chosen).total = w.total /\ Weight(chosen).size >= w.size
    <3>0. Weight(chosen).total = list[i].value /\ Weight(chosen).size = 1
      BY <2>3
    <3>1. CASE \E k \in DOMAIN list : /\ w = [total |-> list[k].value, size |-> 1]
                                      /\ list[k].value >= target
      <4>1. PICK k \in DOMAIN list : /\ w = [total |-> list[k].value, size |-> 1]
                                     /\ list[k].value >= target
        BY <3>1
      <4>2. list[i].value <= list[k].value /\ list[k].value \in Nat
        BY <1>3, <2>1, <4>1
      <4> QED
        BY <2>2, <3>0, <4>1, <4>2
    <3>2. CASE \E k, l \in DOMAIN list : /\ w = [total |-> SumOf(Two(list, k, l)), size |-> 2]
                                         /\ Covers(list, target, k, l)
      BY <2>1, <3>0, <3>2
    <3> QED
      BY <1>4, <3>1, <3>2
  <2> HIDE DEF chosen, covers
  <2>6. chosen \subseteq S
    BY <2>2
  <2> QED
    BY <2>4, <2>5, <2>6 DEF Best, list, seq, chosen, covers
<1>7. CASE TwoChosen(list, target, seq)
  <2>1. PICK i \in DOMAIN list, j \in DOMAIN list :
          /\ seq = Two(list, i, j) /\ Covers(list, target, i, j)
          /\ \A k \in DOMAIN list :
               list[k].value >= target => SumOf(Two(list, i, j)) <= list[k].value
          /\ \A k, l \in DOMAIN list :
               Covers(list, target, k, l) => SumOf(Two(list, i, j)) <= SumOf(Two(list, k, l))
    BY <1>7 DEF TwoChosen
  <2>2. /\ list[i] \in S /\ list[j] \in S /\ list[i].value \in Nat /\ list[j].value \in Nat
        /\ SumOf(Two(list, i, j)) = list[i].value + list[j].value
    BY <1>3
  <2>3. /\ i < j /\ list[i].value > 0 /\ list[j].value > 0
        /\ list[i].value + list[j].value >= target
    BY <2>1, <2>2 DEF Covers
  <2>4. list[i] # list[j]
    BY <1>1, <2>3
  <2>5. chosen = {list[i], list[j]}
    BY <2>1 DEF ToSet, Two
  <2>6. /\ Weight(chosen) = [total |-> list[i].value + list[j].value, size |-> 2]
        /\ Weight(chosen) \in Options(S)
    BY <2>2, <2>3, <2>4, <2>5, SumOfTwo, AreOptions
  <2>7. Weight(chosen) \in covers
    BY <2>3, <2>6
  <2>8. ASSUME NEW w \in covers
        PROVE  \/ Weight(chosen).total < w.total
               \/ Weight(chosen).total = w.total /\ Weight(chosen).size >= w.size
    <3>0. Weight(chosen).total = list[i].value + list[j].value /\ Weight(chosen).size = 2
      BY <2>6
    <3>1. w.total \in Nat /\ list[i].value + list[j].value <= w.total /\ w.size \in {1, 2}
      BY <1>3, <1>4, <2>1, <2>2
    <3> QED
      BY <2>2, <3>0, <3>1
  <2> HIDE DEF chosen, covers
  <2>9. chosen \subseteq S
    BY <2>2, <2>5
  <2> QED
    BY <2>7, <2>8, <2>9 DEF Best, list, seq, chosen, covers
<1> QED
  BY <1>2, <1>5, <1>6, <1>7

-----------------------------------------------------------------------------
(* Hashes and keys *)

LEMMA HashesDiffer ==
  ASSUME NEW t, NEW s, NEW v, NEW k, NEW x, NEW t1, NEW s1, NEW v1, NEW k1, NEW x1,
         poseidon_hash(t, s, v, k, x) = poseidon_hash(t1, s1, v1, k1, x1)
  PROVE  t = t1 /\ s = s1 /\ v = v1 /\ k = k1 /\ x = x1
<1> DEFINE h == poseidon_hash(t, s, v, k, x)
           h1 == poseidon_hash(t1, s1, v1, k1, x1)
<1>1. h[2] = t /\ h[3] = s /\ h[4] = v /\ h[5] = k /\ h[6] = x
  BY DEF poseidon_hash
<1>2. h1[2] = t1 /\ h1[3] = s1 /\ h1[4] = v1 /\ h1[5] = k1 /\ h1[6] = x1
  BY DEF poseidon_hash
<1> HIDE DEF h, h1
<1> QED
  BY <1>1, <1>2 DEF h, h1

LEMMA SaltOfHash ==
  ASSUME NEW t, NEW s, NEW v, NEW k, NEW x
  PROVE  poseidon_hash(t, s, v, k, x)[6] = x
BY DEF poseidon_hash

LEMMA HashIsNotZero ==
  ASSUME NEW t, NEW s, NEW v, NEW k, NEW x
  PROVE  poseidon_hash(t, s, v, k, x) # Zero
BY DEF poseidon_hash, Zero

LEMMA NullifiersDiffer ==
  ASSUME NEW n, NEW h, NEW h1
  PROVE  /\ NullifierOf(n, h) # Zero
         /\ NullifierOf(n, h) = NullifierOf(n, h1) => h = h1
<1>1. NullifierOf(n, h)[3] = h /\ NullifierOf(n, h1)[3] = h1
  BY DEF NullifierOf
<1>2. NullifierOf(n, h) # Zero
  BY DEF NullifierOf, Zero
<1> QED
  BY <1>1, <1>2

LEMMA SecretsDiffer ==
  ASSUME NEW x, NEW y, SecretHash(x) = SecretHash(y)
  PROVE  x = y
<1>1. SecretHash(x)[2] = x /\ SecretHash(y)[2] = y
  BY DEF SecretHash
<1> QED
  BY <1>1

LEMMA KeyIsAPoint ==
  ASSUME NEW c
  PROVE  zkp_public_key(c) # Neutral
<1>1. zkp_private_key(c) # ZeroScalar /\ Generator # Neutral
  BY DEF zkp_private_key, ZeroScalar, Generator, Neutral
<1>2. zkp_public_key(c) = <<"point", Generator[2] \cup {zkp_private_key(c)}>>
  BY <1>1 DEF zkp_public_key, Mul
<1> QED
  BY <1>2 DEF Neutral

\* The salts of an operation's outputs.
LEMMA SaltsDiffer ==
  ASSUME NEW i \in Nat, NEW j \in Nat, i # j, NEW p
  PROVE  TransferSalt(i) # TransferSalt(j) /\ TransferSalt(i) # get_y(p)
<1>1. TransferSalt(i)[3] = i /\ TransferSalt(j)[3] = j
  BY DEF TransferSalt
<1>2. TransferSalt(i) # get_y(p)
  BY DEF TransferSalt, get_y
<1> QED
  BY <1>1, <1>2

-----------------------------------------------------------------------------
(* Preimages a client holds: from a deposit, or under its own key *)

PreimageFields == {"value", "nf_token_id", "nf_slot_id", "public_key", "salt", "secret"}

Owned(c, p) ==
  /\ p = [f \in PreimageFields |-> p[f]]
  /\ p.value \in Nat /\ p.nf_token_id \in Tokens /\ p.nf_slot_id = SlotOf[p.nf_token_id]
  /\ \/ p.public_key = Neutral /\ p.salt = SecretHash(p.secret)
     \/ p.public_key = zkp_public_key(c) /\ p.secret = DefaultSecret

\* What a client holds is known by its hash.
LEMMA OwnedByHash ==
  ASSUME NEW c, NEW p, NEW q, Owned(c, p), Owned(c, q), Hash(p) = Hash(q)
  PROVE  p = q
<1>1. /\ p.nf_token_id = q.nf_token_id /\ p.nf_slot_id = q.nf_slot_id /\ p.value = q.value
      /\ p.public_key = q.public_key /\ p.salt = q.salt
  BY HashesDiffer DEF Hash
<1>2. p.secret = q.secret
  BY <1>1, SecretsDiffer, KeyIsAPoint DEF Owned
<1>3. \A f \in PreimageFields : p[f] = q[f]
  BY <1>1, <1>2 DEF PreimageFields
<1> QED
  BY <1>3 DEF Owned

LEMMA PreimageIs ==
  ASSUME NEW v, NEW t, NEW s, NEW k, NEW x
  PROVE  LET p == Preimage(v, t, s, k, x)
         IN /\ p = [f \in PreimageFields |-> p[f]]
            /\ p.value = v /\ p.nf_token_id = t /\ p.nf_slot_id = s
            /\ p.public_key = k /\ p.salt = x /\ p.secret = DefaultSecret
BY DEF Preimage, PreimageFields

LEMMA DepositPreimageIs ==
  ASSUME NEW v, NEW t, NEW s, NEW x
  PROVE  LET p == DepositPreimage(v, t, s, x)
         IN /\ p = [f \in PreimageFields |-> p[f]]
            /\ p.value = v /\ p.nf_token_id = t /\ p.nf_slot_id = s
            /\ p.public_key = Neutral /\ p.salt = SecretHash(x) /\ p.secret = x
BY DEF DepositPreimage, Preimage, PreimageFields

LEMMA DefaultIs ==
  /\ DefaultPreimage.value = 0 /\ DefaultPreimage.nf_token_id = Zero
  /\ DefaultPreimage.nf_slot_id = Zero /\ DefaultPreimage.salt = Zero
  /\ DefaultPreimage.public_key = Neutral
BY PreimageIs DEF DefaultPreimage

-----------------------------------------------------------------------------
(* An operation has a proof when its slots hold different commitments of   *)
(* the client, those but the first holding something, or placeholders.     *)

SlotToken(r, i) == IF i <= 2 THEN r.token ELSE fee_token_id

Filled(r, spend, i) ==
  /\ Owned(r.client, spend[i]) /\ spend[i].nf_token_id = SlotToken(r, i)
  /\ i # 1 => spend[i].value > 0
  /\ \A j \in Slots : j # i => spend[j] # spend[i]

SlotsFit(r, spend) ==
  \A i \in Slots : Filled(r, spend, i) \/ (i # 1 /\ spend[i] = DefaultPreimage)

TokenChange(r, spend) == spend[1].value + spend[2].value - r.value
FeeChange(r, spend) == spend[3].value + spend[4].value - r.fee

LEMMA OutputIs ==
  ASSUME NEW v, NEW t, NEW s, NEW k, NEW x
  PROVE  /\ Output(v, t, s, k, x).value = v
         /\ v # 0 => /\ Output(v, t, s, k, x) = Preimage(v, t, s, k, x)
                     /\ Output(v, t, s, k, x).salt = x
BY PreimageIs, DefaultIs DEF Output

\* The inputs the circuit gets.
LEMMA InputsAre ==
  ASSUME NEW r, NEW spend, r.kind \in {"transfer", "withdraw"}
  PROVE  LET new == new_commitments(r, spend)
             in == Inputs(r, spend, new)
         IN /\ new[1].value = r.value /\ new[2].value = TokenChange(r, spend)
            /\ new[3].value = r.fee /\ new[4].value = FeeChange(r, spend)
            /\ \A i \in 2 .. 4 : new[i].value # 0 => new[i].salt = TransferSalt(i)
            /\ in.value = r.value /\ in.fee = r.fee
            /\ in.commitments_values = <<TokenChange(r, spend), FeeChange(r, spend)>>
            /\ in.commitments_salts = <<new[2].salt, new[3].salt, new[4].salt>>
            /\ in.nf_token_id = spend[1].nf_token_id /\ in.nf_slot_id = spend[1].nf_slot_id
            /\ in.nullifier_key = nullifier_key(r.client)
            /\ \A i \in Slots :
                 /\ in.nullifiers_values[i] = spend[i].value
                 /\ in.nullifiers_salts[i] = spend[i].salt
                 /\ in.public_keys[i] = spend[i].public_key
                 /\ in.secret_preimages[i] = spend[i].secret
                 /\ in.membership_proofs[i] = MembershipProof(spend[i])
                 /\ in.roots[i] = IF spend[i].nf_token_id = Zero THEN Zero ELSE get_root
            /\ in.recipient_public_key = Neutral <=> in.withdraw_address # Zero
<1> DEFINE new == new_commitments(r, spend)
           in == Inputs(r, spend, new)
           own == zkp_public_key(r.client)
<1>1. /\ new[1] = new_commitment_one(r, spend)
      /\ new[2] = Output(TokenChange(r, spend), r.token, spend[1].nf_slot_id, own, TransferSalt(2))
      /\ new[3] = Output(r.fee, fee_token_id, fee_token_id, contract_nf_address, TransferSalt(3))
      /\ new[4] = Output(FeeChange(r, spend), fee_token_id, fee_token_id, own, TransferSalt(4))
  BY DEF new_commitments, TokenChange, FeeChange
<1>2. /\ new[1].value = r.value /\ new[1].nf_slot_id = spend[1].nf_slot_id
      /\ r.kind = "transfer" => new[1].public_key = zkp_public_key(r.to)
  <2>1. \/ new[1] = Preimage(r.value, r.token, spend[1].nf_slot_id, contract_nf_address,
                             TransferSalt(1)) /\ r.kind = "withdraw"
        \/ new[1] = Preimage(r.value, r.token, spend[1].nf_slot_id, zkp_public_key(r.to),
                             get_y(Mul(ephemeral_key(r), zkp_public_key(r.to))))
           /\ r.kind # "withdraw"
    BY <1>1 DEF new_commitment_one
  <2> HIDE DEF new
  <2> QED
    BY <2>1, PreimageIs
<1> HIDE DEF new
<1>3. /\ new[2].value = TokenChange(r, spend) /\ new[3].value = r.fee
      /\ new[4].value = FeeChange(r, spend)
  BY <1>1, OutputIs
<1>4. \A i \in 2 .. 4 : new[i].value # 0 => new[i].salt = TransferSalt(i)
  <2>1. new[2].value # 0 => new[2].salt = TransferSalt(2)
    BY <1>1, <1>3, OutputIs
  <2>2. new[3].value # 0 => new[3].salt = TransferSalt(3)
    BY <1>1, <1>3, OutputIs
  <2>3. new[4].value # 0 => new[4].salt = TransferSalt(4)
    BY <1>1, <1>3, OutputIs
  <2>4. \A i \in 2 .. 4 : i = 2 \/ i = 3 \/ i = 4
    OBVIOUS
  <2> QED
    BY <2>1, <2>2, <2>3, <2>4
<1>5. /\ in.value = r.value /\ in.fee = r.fee
      /\ in.commitments_values = <<TokenChange(r, spend), FeeChange(r, spend)>>
      /\ in.commitments_salts = <<new[2].salt, new[3].salt, new[4].salt>>
      /\ in.nf_token_id = spend[1].nf_token_id /\ in.nf_slot_id = spend[1].nf_slot_id
      /\ in.nullifier_key = nullifier_key(r.client)
  BY <1>2, <1>3 DEF Inputs
<1>6. \A i \in Slots :
        /\ in.nullifiers_values[i] = spend[i].value
        /\ in.nullifiers_salts[i] = spend[i].salt
        /\ in.public_keys[i] = spend[i].public_key
        /\ in.secret_preimages[i] = spend[i].secret
        /\ in.membership_proofs[i] = MembershipProof(spend[i])
        /\ in.roots[i] = IF spend[i].nf_token_id = Zero THEN Zero ELSE get_root
  BY DEF Inputs
<1>7. in.recipient_public_key = Neutral <=> in.withdraw_address # Zero
  <2>1. <<"address", r.to>> # Zero
    BY DEF Zero
  <2>2. /\ in.recipient_public_key = IF r.kind = "withdraw" THEN Neutral ELSE new[1].public_key
        /\ in.withdraw_address = IF r.kind = "withdraw" THEN <<"address", r.to>> ELSE Zero
    BY DEF Inputs, WithdrawAddress
  <2>3. CASE r.kind = "withdraw"
    BY <2>1, <2>2, <2>3
  <2>4. CASE r.kind = "transfer"
    BY <1>2, <2>2, <2>4, KeyIsAPoint
  <2> QED
    BY <2>3, <2>4
<1> HIDE DEF in
<1> QED
  BY <1>2, <1>3, <1>4, <1>5, <1>6, <1>7 DEF in, new

\* The circuit finds every commitment where the client says it is, and no
\* nullifier twice.
LEMMA NullifiersFit ==
  ASSUME NEW r \in Requests, r.kind \in {"transfer", "withdraw"}, NEW spend, SlotsFit(r, spend),
         NEW in, in = Inputs(r, spend, new_commitments(r, spend))
  PROVE  verify_nullifiers(in) /\ verify_duplicates(nullifiers(in))
<1>1. /\ in.nf_token_id = spend[1].nf_token_id /\ in.nf_slot_id = spend[1].nf_slot_id
      /\ in.nullifier_key = nullifier_key(r.client)
      /\ \A i \in Slots :
           /\ in.nullifiers_values[i] = spend[i].value
           /\ in.nullifiers_salts[i] = spend[i].salt
           /\ in.public_keys[i] = spend[i].public_key
           /\ in.secret_preimages[i] = spend[i].secret
           /\ in.membership_proofs[i] = MembershipProof(spend[i])
           /\ in.roots[i] = IF spend[i].nf_token_id = Zero THEN Zero ELSE get_root
  BY InputsAre
<1>2. in.nf_token_id = r.token /\ in.nf_slot_id = SlotOf[r.token]
  <2>1. Filled(r, spend, 1)
    BY DEF SlotsFit, Slots
  <2> QED
    BY <1>1, <2>1 DEF Filled, Owned, SlotToken
<1>3. ASSUME NEW i \in Slots, Filled(r, spend, i)
      PROVE  /\ ~ IsPlaceholder(in, i) /\ SpentHash(in, i) = Hash(spend[i])
             /\ spend[i].nf_token_id # Zero
  <2>1. ~ IsPlaceholder(in, i)
    BY <1>1, <1>3 DEF Filled, Owned, IsPlaceholder
  <2>2. /\ spend[i].nf_token_id = SlotToken(r, i)
        /\ spend[i].nf_slot_id = SlotOf[spend[i].nf_token_id]
        /\ spend[i].nf_token_id # Zero
    BY <1>3, LedgerAssumption DEF Filled, Owned
  <2>3. SpentHash(in, i) = Hash(spend[i])
    BY <1>1, <1>2, <2>2, LedgerAssumption DEF SpentHash, Hash, SlotToken
  <2> QED
    BY <2>1, <2>2, <2>3
<1>4. ASSUME NEW i \in Slots, ~ Filled(r, spend, i)
      PROVE  IsPlaceholder(in, i) /\ spend[i] = DefaultPreimage
  <2>1. i # 1 /\ spend[i] = DefaultPreimage
    BY <1>4 DEF SlotsFit
  <2> QED
    BY <1>1, <2>1, DefaultIs DEF IsPlaceholder
<1>5. verify_nullifiers(in)
  <2> SUFFICES ASSUME NEW i \in Slots
               PROVE  IF IsPlaceholder(in, i) THEN in.nullifiers_salts[i] = Zero
                      ELSE /\ calculate_new_root(in.membership_proofs[i], SpentHash(in, i))
                                = in.roots[i]
                           /\ in.public_keys[i] = Neutral =>
                                in.nullifiers_salts[i] = SecretHash(in.secret_preimages[i])
    BY DEF verify_nullifiers
  <2>1. CASE ~ Filled(r, spend, i)
    BY <1>1, <1>4, <2>1, DefaultIs
  <2>2. CASE Filled(r, spend, i)
    <3>1. /\ ~ IsPlaceholder(in, i) /\ SpentHash(in, i) = Hash(spend[i])
          /\ spend[i].nf_token_id # Zero
      BY <1>3, <2>2
    <3>2. in.membership_proofs[i] = [leaf |-> Hash(spend[i]), root |-> get_root]
          /\ in.roots[i] = get_root
      BY <1>1, <3>1 DEF MembershipProof
    <3>3. calculate_new_root(in.membership_proofs[i], SpentHash(in, i)) = in.roots[i]
      BY <3>1, <3>2 DEF calculate_new_root
    <3>4. in.public_keys[i] = Neutral =>
            in.nullifiers_salts[i] = SecretHash(in.secret_preimages[i])
      BY <1>1, <2>2, KeyIsAPoint DEF Filled, Owned
    <3> QED
      BY <3>1, <3>3, <3>4
  <2> QED
    BY <2>1, <2>2
<1>6. verify_duplicates(nullifiers(in))
  <2> SUFFICES ASSUME NEW i \in Slots, NEW j \in Slots, i < j, nullifiers(in)[j] # Zero
               PROVE  nullifiers(in)[j] # nullifiers(in)[i]
    BY DEF verify_duplicates
  <2>1. i \in Int /\ j \in Int /\ i # j
    BY DEF Slots
  <2>2. ~ IsPlaceholder(in, j) /\ nullifiers(in)[j] = NullifierOf(in.nullifier_key, SpentHash(in, j))
    BY DEF nullifiers
  <2>3. Filled(r, spend, j)
    BY <1>4, <2>2
  <2>4. CASE ~ Filled(r, spend, i)
    <3>1. nullifiers(in)[i] = Zero
      BY <1>4, <2>4 DEF nullifiers
    <3> QED
      BY <3>1
  <2>5. CASE Filled(r, spend, i)
    <3>1. nullifiers(in)[i] = NullifierOf(in.nullifier_key, SpentHash(in, i))
      BY <1>3, <2>5 DEF nullifiers
    <3>2. spend[i] # spend[j] /\ Owned(r.client, spend[i]) /\ Owned(r.client, spend[j])
      BY <2>1, <2>3, <2>5 DEF Filled
    <3>3. SpentHash(in, i) # SpentHash(in, j)
      BY <1>3, <2>3, <2>5, <3>2, OwnedByHash
    <3> QED
      BY <2>2, <3>1, <3>3, NullifiersDiffer
  <2> QED
    BY <2>4, <2>5
<1> QED
  BY <1>5, <1>6

\* No output commitment appears twice: each has a salt of its own.
LEMMA CommitmentsFit ==
  ASSUME NEW r, r.kind \in {"transfer", "withdraw"}, NEW spend, NEW in, NEW shared,
         in = Inputs(r, spend, new_commitments(r, spend))
  PROVE  verify_duplicates(verify_commitments(in, shared))
<1> DEFINE new == new_commitments(r, spend)
           com == verify_commitments(in, shared)
           own == Mul(in.zkp_private_key, Generator)
           token == in.nf_token_id
           slot == in.nf_slot_id
           fee == fee_token_id
<1>1. /\ in.commitments_values = <<TokenChange(r, spend), FeeChange(r, spend)>>
      /\ in.commitments_salts = <<new[2].salt, new[3].salt, new[4].salt>>
      /\ in.fee = r.fee
      /\ new[2].value = TokenChange(r, spend) /\ new[3].value = r.fee
      /\ new[4].value = FeeChange(r, spend)
      /\ \A i \in 2 .. 4 : new[i].value # 0 => new[i].salt = TransferSalt(i)
  BY InputsAre
<1>2. 2 \in 2 .. 4 /\ 3 \in 2 .. 4 /\ 4 \in 2 .. 4
  OBVIOUS
<1> HIDE DEF new
<1>3. /\ in.commitments_values[1] = TokenChange(r, spend)
      /\ in.commitments_values[2] = FeeChange(r, spend)
      /\ TokenChange(r, spend) # 0 => in.commitments_salts[1] = TransferSalt(2)
      /\ r.fee # 0 => in.commitments_salts[2] = TransferSalt(3)
      /\ FeeChange(r, spend) # 0 => in.commitments_salts[3] = TransferSalt(4)
  BY <1>1, <1>2
<1>4. com[1] = Zero \/ com[1] = poseidon_hash(token, slot, in.value, in.recipient_public_key,
                                              get_y(shared))
  BY DEF verify_commitments, Slots
<1>5. com[2] = Zero \/ com[2] = poseidon_hash(token, slot, TokenChange(r, spend), own,
                                              TransferSalt(2))
  <2>1. com[2] = IF in.commitments_values[1] = 0 THEN Zero
                 ELSE poseidon_hash(token, slot, in.commitments_values[1], own,
                                    in.commitments_salts[1])
    BY DEF verify_commitments, Slots
  <2> QED
    BY <1>3, <2>1
<1>6. com[3] = Zero \/ com[3] = poseidon_hash(fee, fee, in.fee, contract_nf_address, TransferSalt(3))
  <2>1. com[3] = IF in.fee = 0 THEN Zero
                 ELSE poseidon_hash(fee, fee, in.fee, contract_nf_address, in.commitments_salts[2])
    BY DEF verify_commitments, Slots
  <2> QED
    BY <1>1, <1>3, <2>1
<1>7. com[4] = Zero \/ com[4] = poseidon_hash(fee, fee, FeeChange(r, spend), own, TransferSalt(4))
  <2>1. com[4] = IF in.commitments_values[2] = 0 THEN Zero
                 ELSE poseidon_hash(fee, fee, in.commitments_values[2], own,
                                    in.commitments_salts[3])
    BY DEF verify_commitments, Slots
  <2> QED
    BY <1>3, <2>1
<1> DEFINE salt(i) == IF i = 1 THEN get_y(shared) ELSE TransferSalt(i)
<1>8. \A i \in Slots : com[i] = Zero \/ \E t, s, v, k : com[i] = poseidon_hash(t, s, v, k, salt(i))
  <2>1. \A i \in Slots : i = 1 \/ i = 2 \/ i = 3 \/ i = 4
    BY DEF Slots
  <2> HIDE DEF com
  <2> QED
    BY <1>4, <1>5, <1>6, <1>7, <2>1
<1>9. \A i, j \in Slots : i < j => salt(i) # salt(j)
  <2> SUFFICES ASSUME NEW i \in Slots, NEW j \in Slots, i < j PROVE salt(i) # salt(j)
    OBVIOUS
  <2>1. i \in Nat /\ j \in Nat /\ i # j /\ j # 1
    BY DEF Slots
  <2>2. salt(j) = TransferSalt(j) /\ (salt(i) = get_y(shared) \/ salt(i) = TransferSalt(i))
    BY <2>1
  <2>3. TransferSalt(j) # TransferSalt(i) /\ TransferSalt(j) # get_y(shared)
    BY <2>1, SaltsDiffer
  <2> HIDE DEF salt
  <2> QED
    BY <2>2, <2>3
<1> HIDE DEF com, salt
<1>10. \A i, j \in Slots : i < j => com[j] = Zero \/ com[j] # com[i]
  <2> SUFFICES ASSUME NEW i \in Slots, NEW j \in Slots, i < j, com[j] # Zero, com[j] = com[i]
               PROVE  FALSE
    OBVIOUS
  <2>1. PICK t, s, v, k : com[j] = poseidon_hash(t, s, v, k, salt(j))
    BY <1>8
  <2>2. PICK t1, s1, v1, k1 : com[i] = poseidon_hash(t1, s1, v1, k1, salt(i))
    BY <1>8
  <2>3. com[j][6] = salt(j)
    BY <2>1, SaltOfHash
  <2>4. com[i][6] = salt(i)
    BY <2>2, SaltOfHash
  <2> QED
    BY <1>9, <2>3, <2>4
<1> QED
  BY <1>10 DEF verify_duplicates, com

LEMMA SlotValues ==
  ASSUME NEW r, NEW spend, SlotsFit(r, spend)
  PROVE  \A i \in Slots : spend[i].value \in Nat
<1> SUFFICES ASSUME NEW i \in Slots PROVE spend[i].value \in Nat
  OBVIOUS
<1>1. CASE Filled(r, spend, i)
  BY <1>1 DEF Filled, Owned
<1>2. CASE spend[i] = DefaultPreimage
  BY <1>2, DefaultIs
<1> QED
  BY <1>1, <1>2 DEF SlotsFit

LEMMA Provable ==
  ASSUME NEW r \in Requests, r.kind \in {"transfer", "withdraw"}, NEW spend, SlotsFit(r, spend),
         r.value <= MaxAmount, r.fee <= MaxAmount,
         TokenChange(r, spend) \in 0 .. MaxAmount, FeeChange(r, spend) \in 0 .. MaxAmount
  PROVE  Proved(r, spend, new_commitments(r, spend))
<1> DEFINE new == new_commitments(r, spend)
           in == Inputs(r, spend, new)
<1>1. /\ spend[1].value \in Nat /\ spend[2].value \in Nat
      /\ spend[3].value \in Nat /\ spend[4].value \in Nat
  BY SlotValues DEF Slots
<1>2. r.value \in 0 .. MaxAmount /\ r.fee \in 0 .. MaxAmount /\ MaxAmount \in Nat
  BY LedgerAssumption
<1>3. /\ new[1].value = r.value /\ new[2].value = TokenChange(r, spend)
      /\ new[3].value = r.fee /\ new[4].value = FeeChange(r, spend)
      /\ in.value = r.value /\ in.fee = r.fee
      /\ in.commitments_values = <<TokenChange(r, spend), FeeChange(r, spend)>>
      /\ \A i \in Slots : in.nullifiers_values[i] = spend[i].value
      /\ in.recipient_public_key = Neutral <=> in.withdraw_address # Zero
  BY InputsAre
<1>4. verify_nullifiers(in) /\ verify_duplicates(nullifiers(in))
      /\ verify_duplicates(verify_commitments(in, SharedSecret(in)))
  BY NullifiersFit, CommitmentsFit
<1> HIDE DEF new, in
<1>5. ValueConserved(spend, new)
  BY <1>1, <1>2, <1>3 DEF ValueConserved, TokenChange, FeeChange
<1>6. /\ in.commitments_values[1] = TokenChange(r, spend)
      /\ in.commitments_values[2] = FeeChange(r, spend)
  BY <1>3
<1>7. AmountsBalance(in)
  BY <1>1, <1>2, <1>3, <1>6 DEF AmountsBalance, TokenChange, FeeChange, Slots
<1>8. AmountsInRange(in)
  BY <1>2, <1>3, <1>6 DEF AmountsInRange, enforce_in_range
<1>9. assess_operation_integrity(in)
  BY <1>3, <1>4, <1>7, <1>8 DEF assess_operation_integrity, WithdrawFlag
<1> QED
  BY <1>5, <1>9 DEF Proved, new, in

-----------------------------------------------------------------------------
(* Wallets *)

LEMMA ImageIsFinite ==
  ASSUME NEW S, IsFiniteSet(S), NEW f
  PROVE  IsFiniteSet({f[x] : x \in S})
<1> DEFINE g == [x \in S |-> f[x]]
           T == {f[x] : x \in S}
<1>1. g \in Surjection(S, T)
  BY DEF Surjection
<1> HIDE DEF g, T
<1>2. IsFiniteSet(T)
  BY <1>1, FS_Surjection
<1> QED
  BY <1>2 DEF T

EntryFields == {"preimage", "nullifier", "status"}

HeldBy(c, w) ==
  /\ IsFiniteSet(w)
  /\ \A e \in w : e = [f \in EntryFields |-> e[f]] /\ Owned(c, e.preimage)

Spendable(w, token, p) ==
  \E e \in w : e.status = "Unspent" /\ e.preimage = p /\ p.nf_token_id = token

LEMMA AvailableIs ==
  ASSUME NEW c, NEW w, HeldBy(c, w), NEW token
  PROVE  /\ IsFiniteSet(get_available_commitments(w, token))
         /\ \A s \in get_available_commitments(w, token) :
              /\ Spendable(w, token, s.key) /\ s.value = s.key.value /\ s.value \in Nat
              /\ s = [key |-> s.key, value |-> s.key.value]
<1> DEFINE u == {e \in w : e.status = "Unspent" /\ e.preimage.nf_token_id = token}
           f == [e \in w |-> [key |-> e.preimage, value |-> e.preimage.value]]
           S == get_available_commitments(w, token)
<1>1. IsFiniteSet(u)
  BY FS_Subset DEF HeldBy
<1>2. S = {f[e] : e \in u}
  BY DEF get_available_commitments
<1>3. IsFiniteSet(S)
  <2> HIDE DEF f, u, S
  <2> QED
    BY <1>1, <1>2, ImageIsFinite
<1>4. ASSUME NEW s \in S
      PROVE  /\ Spendable(w, token, s.key) /\ s.value = s.key.value /\ s.value \in Nat
             /\ s = [key |-> s.key, value |-> s.key.value]
  <2>1. PICK e \in u : s = [key |-> e.preimage, value |-> e.preimage.value]
    BY DEF get_available_commitments
  <2>2. s.key = e.preimage /\ s.value = e.preimage.value /\ e.preimage.value \in Nat
    BY <2>1 DEF HeldBy, Owned
  <2> QED
    BY <2>1, <2>2 DEF Spendable
<1> QED
  BY <1>3, <1>4

\* What find_usable_commitments returns.
FoundFrom(w, token, target, found) ==
  \/ found = <<>>
  \/ \E p : found = <<p>> /\ Spendable(w, token, p) /\ p.value >= target
  \/ \E p, q :
       /\ found = <<p, q>> /\ Spendable(w, token, p) /\ Spendable(w, token, q) /\ p # q
       /\ p.value + q.value >= target
       /\ p.value > 0 /\ q.value > 0 /\ p.value < target /\ q.value < target

LEMMA WhatIsFound ==
  ASSUME NEW c, NEW w, HeldBy(c, w), NEW token, NEW target \in Nat
  PROVE  FoundFrom(w, token, target, find_usable_commitments(w, token, target))
<1> DEFINE S == get_available_commitments(w, token)
           chosen == Usable(S, target)
           found == find_usable_commitments(w, token, target)
<1>1. /\ IsFiniteSet(S)
      /\ \A s \in S : /\ Spendable(w, token, s.key) /\ s.value = s.key.value /\ s.value \in Nat
                      /\ s = [key |-> s.key, value |-> s.key.value]
  BY AvailableIs
<1>2. found = [i \in DOMAIN chosen |-> chosen[i].key]
  BY DEF find_usable_commitments
<1> HIDE DEF S
<1>3. ChosenFrom(S, target, chosen)
  BY <1>1, WhatIsChosen
<1> HIDE DEF chosen, found
<1>4. CASE chosen = <<>>
  <2>1. found = <<>>
    BY <1>2, <1>4
  <2> QED
    BY <2>1 DEF FoundFrom, found
<1>5. CASE \E a \in S : chosen = <<a>> /\ a.value >= target
  <2>1. PICK a \in S : chosen = <<a>> /\ a.value >= target
    BY <1>5
  <2>2. found = <<a.key>>
    BY <1>2, <2>1
  <2> QED
    BY <1>1, <2>1, <2>2 DEF FoundFrom, found
<1>6. CASE \E a, b \in S :
             /\ a # b /\ chosen = <<a, b>> /\ a.value + b.value >= target
             /\ a.value > 0 /\ b.value > 0 /\ a.value < target /\ b.value < target
  <2>1. PICK a \in S, b \in S :
          /\ a # b /\ chosen = <<a, b>> /\ a.value + b.value >= target
          /\ a.value > 0 /\ b.value > 0 /\ a.value < target /\ b.value < target
    BY <1>6
  <2>2. found = <<a.key, b.key>>
    BY <1>2, <2>1
  <2>3. a.key # b.key
    BY <1>1, <2>1
  <2> QED
    BY <1>1, <2>1, <2>2, <2>3 DEF FoundFrom, found
<1> QED
  BY <1>3, <1>4, <1>5, <1>6 DEF ChosenFrom

LEMMA MarkPendingIs ==
  ASSUME NEW c, NEW w, HeldBy(c, w), NEW taken
  PROVE  LET reserved == mark_commitments_pending_spend(w, taken)
         IN /\ HeldBy(c, reserved)
            /\ \A e \in reserved : \E e0 \in w : e0.preimage = e.preimage
            /\ \A token, p : Spendable(reserved, token, p) => Owned(c, p) /\ p \notin taken
<1> DEFINE f == [e \in w |-> IF e.preimage \in taken THEN [e EXCEPT !.status = "PendingSpend"]
                             ELSE e]
           reserved == mark_commitments_pending_spend(w, taken)
<1>1. reserved = {f[e] : e \in w}
  BY DEF mark_commitments_pending_spend
<1>2. IsFiniteSet(reserved)
  <2> HIDE DEF f, reserved
  <2> QED
    BY <1>1, ImageIsFinite DEF HeldBy
<1>3. ASSUME NEW e \in w
      PROVE  /\ f[e].preimage = e.preimage /\ f[e] = [g \in EntryFields |-> f[e][g]]
             /\ Owned(c, e.preimage)
             /\ f[e].status = "Unspent" => e.preimage \notin taken
  <2>1. e = [g \in EntryFields |-> e[g]] /\ Owned(c, e.preimage)
    BY DEF HeldBy
  <2>2. CASE e.preimage \in taken
    <3>1. f[e] = [e EXCEPT !.status = "PendingSpend"]
      BY <2>2
    <3>2. f[e].preimage = e.preimage /\ f[e].status = "PendingSpend"
          /\ f[e] = [g \in EntryFields |-> f[e][g]]
      BY <2>1, <3>1 DEF EntryFields
    <3> QED
      BY <2>1, <3>2
  <2>3. CASE e.preimage \notin taken
    BY <2>1, <2>3
  <2> QED
    BY <2>2, <2>3
<1> HIDE DEF f, reserved
<1>4. ASSUME NEW e \in reserved
      PROVE  /\ e = [g \in EntryFields |-> e[g]] /\ Owned(c, e.preimage)
             /\ \E e0 \in w : e0.preimage = e.preimage
             /\ e.status = "Unspent" => e.preimage \notin taken
  <2>1. PICK e0 \in w : e = f[e0]
    BY <1>1
  <2>2. /\ f[e0].preimage = e0.preimage /\ f[e0] = [g \in EntryFields |-> f[e0][g]]
        /\ Owned(c, e0.preimage)
        /\ f[e0].status = "Unspent" => e0.preimage \notin taken
    BY <1>3
  <2> QED
    BY <2>1, <2>2
<1>5. HeldBy(c, reserved)
  BY <1>2, <1>4 DEF HeldBy
<1>6. \A token, p : Spendable(reserved, token, p) => Owned(c, p) /\ p \notin taken
  BY <1>4 DEF Spendable
<1> QED
  BY <1>4, <1>5, <1>6 DEF reserved

LEMMA TwoAndTwo ==
  ASSUME NEW T, NEW A \in Seq(T), NEW B \in Seq(T), Len(A) = 2, Len(B) = 2
  PROVE  (A \o B)[1] = A[1] /\ (A \o B)[2] = A[2] /\ (A \o B)[3] = B[1] /\ (A \o B)[4] = B[2]
<1> DEFINE C == A \o B
<1>1. \A i \in 1 .. Len(A) + Len(B) : C[i] = IF i <= Len(A) THEN A[i] ELSE B[i - Len(A)]
  BY ConcatProperties, Zenon
<1> HIDE DEF C
<1>2. /\ 1 \in 1 .. Len(A) + Len(B) /\ 2 \in 1 .. Len(A) + Len(B)
      /\ 3 \in 1 .. Len(A) + Len(B) /\ 4 \in 1 .. Len(A) + Len(B)
  OBVIOUS
<1>3. C[1] = A[1] /\ C[2] = A[2]
  BY <1>1, <1>2
<1>4. C[3] = B[3 - Len(A)] /\ 3 - Len(A) = 1
  BY <1>1, <1>2
<1>5. C[4] = B[4 - Len(A)] /\ 4 - Len(A) = 2
  BY <1>1, <1>2
<1>6. C[1] = A[1] /\ C[2] = A[2] /\ C[3] = B[1] /\ C[4] = B[2]
  BY <1>3, <1>4, <1>5
<1> QED
  BY <1>6 DEF C

\* The slots of what is spent.
InSlots(spend, v, f) ==
  /\ spend[1] = Padded(v)[1] /\ spend[2] = Padded(v)[2]
  /\ spend[3] = Padded(f)[1] /\ spend[4] = Padded(f)[2]

LEMMA PaddedAre ==
  ASSUME NEW v, NEW f
  PROVE  InSlots(Padded(v) \o Padded(f), v, f)
<1>1. /\ Padded(v) = [i \in 1 .. 2 |-> Padded(v)[i]]
      /\ Padded(f) = [i \in 1 .. 2 |-> Padded(f)[i]]
  BY DEF Padded, MAX_POSSIBLE_COMMITMENTS
<1> DEFINE A == Padded(v)
           B == Padded(f)
           T == {A[1], A[2], B[1], B[2]}
<1> HIDE DEF A, B
<1>2. A = [i \in 1 .. 2 |-> A[i]] /\ B = [i \in 1 .. 2 |-> B[i]]
  BY <1>1 DEF A, B
<1>3. A \in Seq(T) /\ B \in Seq(T) /\ Len(A) = 2 /\ Len(B) = 2
  BY <1>2
<1> HIDE DEF T
<1>4. (A \o B)[1] = A[1] /\ (A \o B)[2] = A[2] /\ (A \o B)[3] = B[1] /\ (A \o B)[4] = B[2]
  BY <1>3, TwoAndTwo
<1> QED
  BY <1>4 DEF A, B, InSlots

LEMMA PaddedIs ==
  /\ Padded(<<>>)[1] = DefaultPreimage /\ Padded(<<>>)[2] = DefaultPreimage
  /\ \A p : Padded(<<p>>)[1] = p /\ Padded(<<p>>)[2] = DefaultPreimage
  /\ \A p, q : Padded(<<p, q>>)[1] = p /\ Padded(<<p, q>>)[2] = q
BY DEF Padded, MAX_POSSIBLE_COMMITMENTS

\* What was found fills its two slots, and leaves no more change than one of
\* the commitments in them holds.
TwoSlots(w, token, target, found) ==
  LET a == Padded(found)[1]
      b == Padded(found)[2]
  IN /\ Spendable(w, token, a) /\ (target > 0 => a.value > 0)
     /\ b = DefaultPreimage \/ (Spendable(w, token, b) /\ b.value > 0 /\ b # a)
     /\ a.value + b.value >= target
     /\ Range(found) = {p \in {a, b} : p # DefaultPreimage}
     /\ \E p \in {a, b} : Spendable(w, token, p) /\ a.value + b.value - target <= p.value

LEMMA FoundFills ==
  ASSUME NEW c, NEW w, HeldBy(c, w), NEW token, NEW target \in Nat, NEW found,
         FoundFrom(w, token, target, found), found # <<>>
  PROVE  TwoSlots(w, token, target, found)
<1> DEFINE a == Padded(found)[1]
           b == Padded(found)[2]
<1>1. \A p : Spendable(w, token, p) => p.value \in Nat /\ p # DefaultPreimage
  <2> SUFFICES ASSUME NEW p, Spendable(w, token, p) PROVE p.value \in Nat /\ p # DefaultPreimage
    OBVIOUS
  <2>1. Owned(c, p)
    BY DEF Spendable, HeldBy
  <2> QED
    BY <2>1, DefaultIs, LedgerAssumption DEF Owned
<1>2. CASE \E p : found = <<p>> /\ Spendable(w, token, p) /\ p.value >= target
  <2>1. PICK p : found = <<p>> /\ Spendable(w, token, p) /\ p.value >= target
    BY <1>2
  <2>2. a = p /\ b = DefaultPreimage /\ b.value = 0 /\ Range(found) = {p}
    BY <2>1, PaddedIs, DefaultIs DEF Range
  <2>3. p.value \in Nat /\ p # DefaultPreimage
    BY <1>1, <2>1
  <2> HIDE DEF a, b
  <2> QED
    BY <2>1, <2>2, <2>3 DEF TwoSlots, a, b
<1>3. CASE \E p, q :
             /\ found = <<p, q>> /\ Spendable(w, token, p) /\ Spendable(w, token, q) /\ p # q
             /\ p.value + q.value >= target
             /\ p.value > 0 /\ q.value > 0 /\ p.value < target /\ q.value < target
  <2>1. PICK p, q :
             /\ found = <<p, q>> /\ Spendable(w, token, p) /\ Spendable(w, token, q) /\ p # q
             /\ p.value + q.value >= target
             /\ p.value > 0 /\ q.value > 0 /\ p.value < target /\ q.value < target
    BY <1>3
  <2>2. a = p /\ b = q /\ Range(found) = {p, q}
    BY <2>1, PaddedIs DEF Range
  <2>3. p.value \in Nat /\ p # DefaultPreimage /\ q.value \in Nat /\ q # DefaultPreimage
    BY <1>1, <2>1
  <2>4. p.value + q.value - target <= q.value
    BY <2>1, <2>3
  <2> HIDE DEF a, b
  <2> QED
    BY <2>1, <2>2, <2>3, <2>4 DEF TwoSlots, a, b
<1> QED
  BY <1>2, <1>3 DEF FoundFrom

\* What is paid for an operation: the value, and a fee if there is one.
FeeFound(r, reserved) ==
  IF r.fee = 0 THEN <<>> ELSE find_usable_commitments(reserved, fee_token_id, r.fee)

LEMMA OwnedIsReal ==
  ASSUME NEW c, NEW p, Owned(c, p)
  PROVE  p # DefaultPreimage /\ p.value \in Nat
BY DefaultIs, LedgerAssumption DEF Owned

LEMMA SlotsFill ==
  ASSUME NEW r \in Requests, NEW spend,
         Owned(r.client, spend[1]), spend[1].nf_token_id = r.token,
         \/ spend[2] = DefaultPreimage
         \/ /\ Owned(r.client, spend[2]) /\ spend[2].nf_token_id = r.token
            /\ spend[2].value > 0 /\ spend[2] # spend[1],
         \/ r.fee = 0 /\ spend[3] = DefaultPreimage /\ spend[4] = DefaultPreimage
         \/ /\ Owned(r.client, spend[3]) /\ spend[3].nf_token_id = fee_token_id
            /\ spend[3].value > 0 /\ spend[3] \notin {spend[1], spend[2]}
            /\ \/ spend[4] = DefaultPreimage
               \/ /\ Owned(r.client, spend[4]) /\ spend[4].nf_token_id = fee_token_id
                  /\ spend[4].value > 0 /\ spend[4] \notin {spend[1], spend[2], spend[3]}
  PROVE  SlotsFit(r, spend)
<1>1. /\ SlotToken(r, 1) = r.token /\ SlotToken(r, 2) = r.token
      /\ SlotToken(r, 3) = fee_token_id /\ SlotToken(r, 4) = fee_token_id
  BY DEF SlotToken
<1>2. \A i \in Slots : i = 1 \/ i = 2 \/ i = 3 \/ i = 4
  BY DEF Slots
<1>3. /\ spend[1] # DefaultPreimage
      /\ Owned(r.client, spend[2]) => spend[2] # DefaultPreimage
      /\ Owned(r.client, spend[3]) => spend[3] # DefaultPreimage
      /\ Owned(r.client, spend[4]) => spend[4] # DefaultPreimage
  BY OwnedIsReal
<1>4. Filled(r, spend, 1)
  BY <1>1, <1>2, <1>3 DEF Filled
<1>5. Filled(r, spend, 2) \/ spend[2] = DefaultPreimage
  BY <1>1, <1>2, <1>3 DEF Filled
<1>6. Filled(r, spend, 3) \/ spend[3] = DefaultPreimage
  BY <1>1, <1>2, <1>3 DEF Filled
<1>7. Filled(r, spend, 4) \/ spend[4] = DefaultPreimage
  BY <1>1, <1>2, <1>3 DEF Filled
<1> QED
  BY <1>2, <1>4, <1>5, <1>6, <1>7 DEF SlotsFit

LEMMA Remainder ==
  ASSUME NEW x \in Nat, NEW y \in Nat, NEW t \in Nat, x + y >= t
  PROVE  x + y - t \in Nat
OBVIOUS

LEMMA SpendFits ==
  ASSUME NEW r \in Requests, NEW w, HeldBy(r.client, w), NEW value, value # <<>>,
         FoundFrom(w, r.token, r.value, value), NEW reserved, NEW fee, NEW spend,
         reserved = mark_commitments_pending_spend(w, Range(value)),
         fee = FeeFound(r, reserved), r.fee = 0 \/ fee # <<>>,
         InSlots(spend, value, fee)
  PROVE  /\ SlotsFit(r, spend)
         /\ TokenChange(r, spend) \in Nat /\ FeeChange(r, spend) \in Nat
         /\ \E e \in w : TokenChange(r, spend) <= e.preimage.value
         /\ \E e \in w : FeeChange(r, spend) <= e.preimage.value
<1>1. r.token \in Tokens /\ r.value \in Nat /\ r.fee \in Nat
  BY LedgerAssumption
<1>2. /\ spend[1] = Padded(value)[1] /\ spend[2] = Padded(value)[2]
      /\ spend[3] = Padded(fee)[1] /\ spend[4] = Padded(fee)[2]
  BY DEF InSlots
<1>3. TwoSlots(w, r.token, r.value, value)
  BY <1>1, FoundFills
<1>4. /\ HeldBy(r.client, reserved)
      /\ \A e \in reserved : \E e0 \in w : e0.preimage = e.preimage
      /\ \A token, p : Spendable(reserved, token, p) => Owned(r.client, p) /\ p \notin Range(value)
  BY MarkPendingIs
<1>5. \A p : Owned(r.client, p) => p # DefaultPreimage /\ p.value \in Nat
  BY OwnedIsReal
<1>6. \A token, p : Spendable(w, token, p) => /\ Owned(r.client, p) /\ p.nf_token_id = token
                                              /\ \E e \in w : e.preimage = p
  BY DEF Spendable, HeldBy
<1>7. \A token, p : Spendable(reserved, token, p) => /\ p.nf_token_id = token
                                                     /\ \E e \in w : e.preimage = p
  BY <1>4 DEF Spendable
<1> DEFINE a == spend[1]
           b == spend[2]
           c == spend[3]
           d == spend[4]
<1>8. /\ Owned(r.client, a) /\ a.nf_token_id = r.token
      /\ b = DefaultPreimage \/ (Owned(r.client, b) /\ b.nf_token_id = r.token /\ b.value > 0 /\ b # a)
      /\ a.value + b.value >= r.value
      /\ Range(value) = {p \in {a, b} : p # DefaultPreimage}
      /\ \E e \in w : a.value + b.value - r.value <= e.preimage.value
  BY <1>2, <1>3, <1>6 DEF TwoSlots
<1>9. \/ r.fee = 0 /\ c = DefaultPreimage /\ d = DefaultPreimage
      \/ /\ Owned(r.client, c) /\ c.nf_token_id = fee_token_id /\ c.value > 0 /\ c \notin Range(value)
         /\ \/ d = DefaultPreimage
            \/ /\ Owned(r.client, d) /\ d.nf_token_id = fee_token_id /\ d.value > 0 /\ d # c
               /\ d \notin Range(value)
         /\ c.value + d.value >= r.fee
         /\ \E e \in w : c.value + d.value - r.fee <= e.preimage.value
  <2>1. CASE r.fee = 0
    <3>1. fee = <<>>
      BY <2>1 DEF FeeFound
    <3> QED
      BY <1>2, <2>1, <3>1, PaddedIs
  <2>2. CASE r.fee # 0
    <3>1. FoundFrom(reserved, fee_token_id, r.fee, fee) /\ fee # <<>>
      BY <1>1, <1>4, <2>2, WhatIsFound DEF FeeFound
    <3>2. TwoSlots(reserved, fee_token_id, r.fee, fee) /\ r.fee > 0
      BY <1>1, <1>4, <2>2, <3>1, FoundFills
    <3> QED
      BY <1>2, <1>4, <1>7, <3>2 DEF TwoSlots
  <2> QED
    BY <2>1, <2>2
<1>10. a.value \in Nat /\ b.value \in Nat /\ c.value \in Nat /\ d.value \in Nat
  <2> HIDE DEF a, b, c, d
  <2> QED
    BY <1>5, <1>8, <1>9, DefaultIs
<1>11. SlotsFit(r, spend)
  <2> HIDE DEF a, b, c, d
  <2>1. \/ r.fee = 0 /\ c = DefaultPreimage /\ d = DefaultPreimage
        \/ /\ Owned(r.client, c) /\ c.nf_token_id = fee_token_id
           /\ c.value > 0 /\ c \notin {a, b}
           /\ \/ d = DefaultPreimage
              \/ /\ Owned(r.client, d) /\ d.nf_token_id = fee_token_id
                 /\ d.value > 0 /\ d \notin {a, b, c}
    BY <1>5, <1>8, <1>9
  <2> QED
    BY <1>8, <2>1, SlotsFill DEF a, b, c, d
<1>12. TokenChange(r, spend) \in Nat /\ \E e \in w : TokenChange(r, spend) <= e.preimage.value
  <2> HIDE DEF a, b
  <2>1. TokenChange(r, spend) = a.value + b.value - r.value
    BY DEF TokenChange, a, b
  <2>2. a.value + b.value >= r.value /\ \E e \in w : a.value + b.value - r.value <= e.preimage.value
    BY <1>8
  <2>3. a.value + b.value - r.value \in Nat
    BY <1>1, <1>10, <2>2, Remainder
  <2> QED
    BY <2>1, <2>2, <2>3
<1>13. FeeChange(r, spend) \in Nat /\ \E e \in w : FeeChange(r, spend) <= e.preimage.value
  <2>1. FeeChange(r, spend) = c.value + d.value - r.fee
    BY DEF FeeChange
  <2>2. PICK e \in w : e.preimage.value \in Nat
    BY <1>8, <1>10 DEF HeldBy, Owned
  <2> HIDE DEF c, d
  <2>3. CASE r.fee = 0 /\ c = DefaultPreimage /\ d = DefaultPreimage
    <3>1. FeeChange(r, spend) = 0
      BY <2>1, <2>3, DefaultIs
    <3> QED
      BY <2>2, <3>1
  <2>4. CASE /\ c.value + d.value >= r.fee
             /\ \E e1 \in w : c.value + d.value - r.fee <= e1.preimage.value
    <3>1. c.value + d.value - r.fee \in Nat
      BY <1>1, <1>10, <2>4, Remainder
    <3> QED
      BY <2>1, <2>4, <3>1
  <2> QED
    BY <1>9, <2>3, <2>4
<1> QED
  BY <1>11, <1>12, <1>13

-----------------------------------------------------------------------------
(* Wallets hold what their clients can open, and the first output of every *)
(* transaction in the pool is of some amount of a token.                   *)

FirstOutput(tx) ==
  \/ tx.commitments[1] = Zero
  \/ \E t \in Tokens, v \in Nat : \E k, x : tx.commitments[1] = poseidon_hash(t, SlotOf[t], v, k, x)

WalletsHeld ==
  /\ wallet = [c \in Clients |-> wallet[c]]
  /\ \A c \in Clients : HeldBy(c, wallet[c])

PoolInv == IsFiniteSet(pool) /\ \A tx \in pool : FirstOutput(tx)

WalletInv == WalletsHeld /\ PoolInv

\* Amounts stay within the range of the circuit.
Small(w) == \A e \in w : e.preimage.value <= MaxAmount

RangeInv ==
  /\ \A c \in Clients : Small(wallet[c])
  /\ \A tx \in pool : tx.commitments[1] # Zero => tx.commitments[1][4] <= MaxAmount
  /\ OperationIsProvable

LEMMA EntryIs ==
  ASSUME NEW c, NEW p, NEW status
  PROVE  /\ Entry(c, p, status) = [f \in EntryFields |-> Entry(c, p, status)[f]]
         /\ Entry(c, p, status).preimage = p
BY DEF Entry, EntryFields

\* Entries made of preimages the client owns.
EntriesOf(c, P, status, S) == \A e : e \in S <=> \E p \in P : e = Entry(c, p, status)

LEMMA EntriesHeld ==
  ASSUME NEW c, NEW P, IsFiniteSet(P), NEW status, \A p \in P : Owned(c, p),
         NEW S, EntriesOf(c, P, status, S)
  PROVE  /\ HeldBy(c, S)
         /\ \A e \in S : e.preimage \in P
<1> DEFINE f == [p \in P |-> Entry(c, p, status)]
<1>1. S = {f[p] : p \in P}
  BY DEF EntriesOf
<1>2. IsFiniteSet(S)
  <2> HIDE DEF f
  <2> QED
    BY <1>1, ImageIsFinite
<1>3. ASSUME NEW e \in S
      PROVE  e = [g \in EntryFields |-> e[g]] /\ e.preimage \in P
  <2>1. PICK p \in P : e = Entry(c, p, status)
    BY DEF EntriesOf
  <2> QED
    BY <2>1, EntryIs
<1> QED
  BY <1>2, <1>3 DEF HeldBy

LEMMA BothHeld ==
  ASSUME NEW c, NEW v, NEW w, HeldBy(c, v), HeldBy(c, w)
  PROVE  HeldBy(c, v \cup w)
BY FS_Union DEF HeldBy

LEMMA OneWallet ==
  ASSUME WalletsHeld, NEW c \in Clients, NEW w, HeldBy(c, w), wallet' = [wallet EXCEPT ![c] = w]
  PROVE  WalletsHeld' /\ wallet'[c] = w /\ \A d \in Clients : d # c => wallet'[d] = wallet[d]
<1>1. /\ wallet' = [d \in Clients |-> IF d = c THEN w ELSE wallet[d]]
      /\ \A d \in Clients : HeldBy(d, wallet[d])
  BY DEF WalletsHeld
<1> QED
  BY <1>1 DEF WalletsHeld

\* The preimages of a deposit.
LEMMA DepositsOwned ==
  ASSUME NEW r \in Deposits, NEW D, D = DepositPreimages(r), NEW added,
         added = {Entry(r.client, p, "PendingCreation") : p \in D}
  PROVE  /\ HeldBy(r.client, added)
         /\ \A e \in added : e.preimage.value \in {r.value, r.deposit_fee}
<1>1. /\ r.token \in Tokens /\ r.value \in Nat /\ r.deposit_fee \in Nat
      /\ fee_token_id \in Tokens /\ SlotOf[fee_token_id] = fee_token_id
  BY LedgerAssumption
<1> DEFINE secret == DepositSecret(<<"fresh", ops>>)
           p1 == DepositPreimage(r.value, r.token, SlotOf[r.token], secret)
           p2 == DepositPreimage(r.deposit_fee, fee_token_id, fee_token_id, secret)
<1>2. Owned(r.client, p1) /\ p1.value = r.value
  BY <1>1, DepositPreimageIs DEF Owned
<1>3. Owned(r.client, p2) /\ p2.value = r.deposit_fee
  BY <1>1, DepositPreimageIs DEF Owned
<1>4. D \subseteq {p1, p2}
  BY DEF DepositPreimages
<1> HIDE DEF p1, p2
<1>5. IsFiniteSet({p1, p2})
  <2>1. IsFiniteSet({p1}) /\ {p1, p2} = {p1} \cup {p2}
    BY FS_Singleton
  <2> QED
    BY <2>1, FS_AddElement
<1>6. IsFiniteSet(D)
  BY <1>4, <1>5, FS_Subset
<1>7. \A p \in D : Owned(r.client, p) /\ p.value \in {r.value, r.deposit_fee}
  BY <1>2, <1>3, <1>4
<1>8. EntriesOf(r.client, D, "PendingCreation", added)
  BY DEF EntriesOf
<1>9. HeldBy(r.client, added) /\ \A e \in added : e.preimage \in D
  BY <1>6, <1>7, <1>8, EntriesHeld
<1> QED
  BY <1>7, <1>9

\* How a request may end.
LEMMA ResultsKept ==
  ASSUME NEW r, NEW outcome, OperationIsProvable, Done(r, outcome),
         outcome = "not_proved" => r.value > MaxAmount \/ r.fee > MaxAmount
  PROVE  OperationIsProvable'
<1> DEFINE new == [outcome |-> outcome, value |-> r.value, fee |-> r.fee]
<1>1. results' = results \cup {new}
  BY DEF Done
<1>2. new.outcome = outcome /\ new.value = r.value /\ new.fee = r.fee
  OBVIOUS
<1> HIDE DEF new
<1> QED
  BY <1>1, <1>2 DEF OperationIsProvable

LEMMA DepositKeeps ==
  ASSUME WalletInv, NEW r \in Deposits, handle_deposit(r)
  PROVE  WalletInv' /\ (DepositsInRange /\ RangeInv => RangeInv')
<1> DEFINE added == {Entry(r.client, p, "PendingCreation") : p \in DepositPreimages(r)}
<1>1. /\ wallet' = [wallet EXCEPT ![r.client] = wallet[r.client] \cup added]
      /\ pool' = pool /\ Done(r, "submitted")
  BY DEF handle_deposit
<1>2. HeldBy(r.client, added) /\ \A e \in added : e.preimage.value \in {r.value, r.deposit_fee}
  <2> HIDE DEF added
  <2> QED
    BY DepositsOwned DEF added
<1> HIDE DEF added
<1>3. r.client \in Clients
  BY LedgerAssumption
<1>4. HeldBy(r.client, wallet[r.client] \cup added)
  BY <1>2, <1>3, BothHeld DEF WalletInv, WalletsHeld
<1>5. /\ WalletsHeld' /\ wallet'[r.client] = wallet[r.client] \cup added
      /\ \A d \in Clients : d # r.client => wallet'[d] = wallet[d]
  BY <1>1, <1>3, <1>4, OneWallet DEF WalletInv
<1>6. WalletInv'
  BY <1>1, <1>5 DEF WalletInv, PoolInv
<1>7. ASSUME DepositsInRange, RangeInv PROVE RangeInv'
  <2>1. r.value <= MaxAmount /\ r.deposit_fee <= MaxAmount
    BY <1>7 DEF DepositsInRange
  <2>2. Small(added)
    BY <1>2, <2>1 DEF Small
  <2>3. ASSUME NEW c \in Clients PROVE Small(wallet'[c])
    <3>1. Small(wallet[c])
      BY <1>7 DEF RangeInv
    <3>2. CASE c = r.client
      BY <1>5, <2>2, <3>1, <3>2 DEF Small
    <3>3. CASE c # r.client
      BY <1>5, <3>1, <3>3
    <3> QED
      BY <3>2, <3>3
  <2>4. OperationIsProvable'
    BY <1>1, <1>7, ResultsKept DEF RangeInv
  <2>5. \A tx \in pool' : tx.commitments[1] # Zero => tx.commitments[1][4] <= MaxAmount
    BY <1>1, <1>7 DEF RangeInv
  <2>6. (\A c \in Clients : Small(wallet[c]))'
    BY <2>3 DEF Small
  <2> QED
    BY <2>4, <2>5, <2>6 DEF RangeInv
<1> QED
  BY <1>6, <1>7

-----------------------------------------------------------------------------
(* A block: what is marked is held as before, what is received is what a   *)
(* transaction of the pool carries.                                        *)

LEMMA MarkedIs ==
  ASSUME NEW c, NEW w, HeldBy(c, w), NEW txs
  PROVE  /\ HeldBy(c, Marked(w, txs))
         /\ \A e \in Marked(w, txs) : \E e0 \in w : e0.preimage = e.preimage
<1> DEFINE status(e) == IF e.nullifier \in Nullifiers(txs) THEN "Spent"
                        ELSE IF Hash(e.preimage) \in Commitments(txs) THEN "Unspent" ELSE e.status
           f == [e \in w |-> [e EXCEPT !.status = status(e)]]
           M == Marked(w, txs)
<1>1. M = {f[e] : e \in w}
  BY DEF Marked
<1>2. IsFiniteSet(M)
  <2>1. IsFiniteSet(w)
    BY DEF HeldBy
  <2> HIDE DEF f, M
  <2> QED
    BY <1>1, <2>1, ImageIsFinite
<1>3. ASSUME NEW e0 \in w, NEW e, e = f[e0]
      PROVE  e = [g \in EntryFields |-> e[g]] /\ e.preimage = e0.preimage
  <2>1. e0 = [g \in EntryFields |-> e0[g]]
    BY DEF HeldBy
  <2> HIDE DEF status
  <2>2. e = [e0 EXCEPT !.status = status(e0)]
    BY <1>3
  <2> QED
    BY <2>1, <2>2 DEF EntryFields
<1>4. ASSUME NEW e \in M
      PROVE  /\ e = [g \in EntryFields |-> e[g]] /\ Owned(c, e.preimage)
             /\ \E e0 \in w : e0.preimage = e.preimage
  <2> HIDE DEF f, M
  <2>1. PICK e0 \in w : e = f[e0]
    BY <1>1
  <2>2. e = [g \in EntryFields |-> e[g]] /\ e.preimage = e0.preimage
    BY <1>3, <2>1
  <2> QED
    BY <2>2 DEF HeldBy
<1> QED
  BY <1>2, <1>4 DEF HeldBy

\* Nothing of a deposit is decrypted.
LEMMA DepositsHaveNoSecrets ==
  ASSUME NEW data
  PROVE  ~ HasSecrets(DepositTx(data))
<1>1. \A i \in Slots : DepositTx(data).nullifiers[i] = Zero
  BY DEF DepositTx, build_deposit_circuit
<1> QED
  BY <1>1 DEF HasSecrets

LEMMA WhatIsReceived ==
  ASSUME NEW c, NEW tx, FirstOutput(tx), Hash(test_preimage(c, tx)) = tx.commitments[1]
  PROVE  /\ Owned(c, test_preimage(c, tx))
         /\ tx.commitments[1] # Zero
         /\ tx.commitments[1][4] = test_preimage(c, tx).value
<1> DEFINE p == test_preimage(c, tx)
           h == tx.commitments[1]
<1>1. PICK t1, s1, v1, x1 : p = Preimage(v1, t1, s1, zkp_public_key(c), x1)
  BY DEF test_preimage
<1> HIDE DEF p, h
<1>2. h = poseidon_hash(t1, s1, v1, zkp_public_key(c), x1)
  BY <1>1, PreimageIs DEF Hash, p, h
<1>3. h # Zero
  BY <1>2, HashIsNotZero
<1>4. PICK t \in Tokens, v \in Nat : \E k, x : h = poseidon_hash(t, SlotOf[t], v, k, x)
  BY <1>3 DEF FirstOutput, h
<1>5. t1 = t /\ s1 = SlotOf[t] /\ v1 = v
  <2>1. PICK k, x :
          poseidon_hash(t1, s1, v1, zkp_public_key(c), x1) = poseidon_hash(t, SlotOf[t], v, k, x)
    BY <1>2, <1>4
  <2> QED
    BY <2>1, HashesDiffer
<1>6. Owned(c, p) /\ p.value = v1
  BY <1>1, <1>4, <1>5, PreimageIs DEF Owned
<1>7. h[4] = v1
  BY <1>2 DEF poseidon_hash
<1> QED
  BY <1>3, <1>6, <1>7 DEF p, h

\* What a client receives of a block that holds transactions of the pool and
\* deposits.
LEMMA ReceivedIs ==
  ASSUME PoolInv, NEW c, NEW txs \in SUBSET pool, NEW all,
         IsFiniteSet(all), \A tx \in all : tx \in txs \/ ~ HasSecrets(tx)
  PROVE  /\ HeldBy(c, Received(c, all))
         /\ \A e \in Received(c, all) : \E tx \in pool :
              tx.commitments[1] # Zero /\ tx.commitments[1][4] = e.preimage.value
<1> DEFINE T == {tx \in all : HasSecrets(tx) /\ Hash(test_preimage(c, tx)) = tx.commitments[1]}
           f == [tx \in T |-> test_preimage(c, tx)]
           P == {f[tx] : tx \in T}
           R == Received(c, all)
<1>1. IsFiniteSet(P)
  <2>1. IsFiniteSet(T)
    BY FS_Subset
  <2> HIDE DEF f, T
  <2> QED
    BY <2>1, ImageIsFinite
<1>2. EntriesOf(c, P, "Unspent", R)
  BY DEF EntriesOf, Received
<1>3. ASSUME NEW p \in P
      PROVE  /\ Owned(c, p)
             /\ \E tx \in pool : tx.commitments[1] # Zero /\ tx.commitments[1][4] = p.value
  <2>1. PICK tx \in T : p = test_preimage(c, tx)
    OBVIOUS
  <2>2. tx \in pool /\ FirstOutput(tx)
    BY <2>1 DEF PoolInv
  <2> QED
    BY <2>1, <2>2, WhatIsReceived
<1> HIDE DEF P, R
<1>4. HeldBy(c, R) /\ \A e \in R : e.preimage \in P
  BY <1>1, <1>2, <1>3, EntriesHeld
<1> QED
  BY <1>3, <1>4 DEF R

LEMMA ProposeKeeps ==
  ASSUME WalletInv, NEW txs \in SUBSET pool, NEW data \in SUBSET escrows, ProposeBlock(txs, data)
  PROVE  WalletInv' /\ (RangeInv => RangeInv')
<1> DEFINE extra == IF data = {} THEN {} ELSE {DepositTx(SetToSeq(data))}
           all == txs \cup extra
<1>1. /\ wallet' = [c \in Clients |-> Marked(wallet[c], all) \cup Received(c, all)]
      /\ pool' = pool \ txs /\ results' = results
  BY DEF ProposeBlock, process_propose_block_event
<1>2. \A tx \in all : tx \in txs \/ ~ HasSecrets(tx)
  BY DepositsHaveNoSecrets
<1>3. IsFiniteSet(all)
  <2>1. IsFiniteSet(extra)
    BY FS_EmptySet, FS_Singleton
  <2>2. IsFiniteSet(txs)
    BY FS_Subset DEF WalletInv, PoolInv
  <2> HIDE DEF extra
  <2> QED
    BY <2>1, <2>2, FS_Union
<1> HIDE DEF extra, all
<1>4. ASSUME NEW c \in Clients
      PROVE  /\ HeldBy(c, wallet'[c])
             /\ \A e \in wallet'[c] :
                  \/ \E e0 \in wallet[c] : e0.preimage = e.preimage
                  \/ \E tx \in pool :
                       tx.commitments[1] # Zero /\ tx.commitments[1][4] = e.preimage.value
  <2>1. HeldBy(c, wallet[c]) /\ PoolInv
    BY DEF WalletInv, WalletsHeld
  <2>2. wallet'[c] = Marked(wallet[c], all) \cup Received(c, all)
    BY <1>1
  <2>3. /\ HeldBy(c, Marked(wallet[c], all))
        /\ \A e \in Marked(wallet[c], all) : \E e0 \in wallet[c] : e0.preimage = e.preimage
    BY <2>1, MarkedIs
  <2>4. /\ HeldBy(c, Received(c, all))
        /\ \A e \in Received(c, all) : \E tx \in pool :
             tx.commitments[1] # Zero /\ tx.commitments[1][4] = e.preimage.value
    BY <1>2, <1>3, <2>1, ReceivedIs
  <2>5. HeldBy(c, wallet'[c])
    BY <2>2, <2>3, <2>4, BothHeld
  <2> QED
    BY <2>2, <2>3, <2>4, <2>5
<1>5. WalletInv'
  <2>1. WalletsHeld'
    BY <1>1, <1>4 DEF WalletsHeld
  <2>2. PoolInv'
    <3>1. IsFiniteSet(pool) /\ pool' \subseteq pool
      BY <1>1 DEF WalletInv, PoolInv
    <3>2. IsFiniteSet(pool')
      BY <3>1, FS_Subset
    <3> QED
      BY <3>1, <3>2 DEF WalletInv, PoolInv, FirstOutput
  <2> QED
    BY <2>1, <2>2 DEF WalletInv
<1>6. ASSUME RangeInv PROVE RangeInv'
  <2>1. ASSUME NEW c \in Clients, NEW e \in wallet'[c]
        PROVE  e.preimage.value <= MaxAmount
    BY <1>4, <1>6, <2>1 DEF RangeInv, Small
  <2>2. (\A c \in Clients : Small(wallet[c]))'
    BY <2>1 DEF Small
  <2>3. OperationIsProvable'
    BY <1>1, <1>6 DEF RangeInv, OperationIsProvable
  <2>4. \A tx \in pool' : tx.commitments[1] # Zero => tx.commitments[1][4] <= MaxAmount
    BY <1>1, <1>6 DEF RangeInv
  <2> QED
    BY <2>2, <2>3, <2>4 DEF RangeInv
<1> QED
  BY <1>5, <1>6

-----------------------------------------------------------------------------
(* A transfer or a withdraw: the change is the client's, the first output  *)
(* is of the amount asked for.                                             *)

LEMMA ChangeIs ==
  ASSUME NEW r \in Requests, NEW spend, SlotsFit(r, spend),
         TokenChange(r, spend) \in Nat, FeeChange(r, spend) \in Nat,
         NEW change, change = ChangeEntries(r.client, new_commitments(r, spend))
  PROVE  /\ HeldBy(r.client, change)
         /\ \A e \in change : e.preimage.value \in {TokenChange(r, spend), FeeChange(r, spend)}
<1> DEFINE new == new_commitments(r, spend)
           own == zkp_public_key(r.client)
           slot == spend[1].nf_slot_id
           I == {i \in 2 .. 4 : new[i].public_key = own /\ new[i] # DefaultPreimage}
           P == {new[i] : i \in I}
<1>1. /\ new[2] = Output(TokenChange(r, spend), r.token, slot, own, TransferSalt(2))
      /\ new[3] = Output(r.fee, fee_token_id, fee_token_id, contract_nf_address, TransferSalt(3))
      /\ new[4] = Output(FeeChange(r, spend), fee_token_id, fee_token_id, own, TransferSalt(4))
  BY DEF new_commitments, TokenChange, FeeChange
<1>2. EntriesOf(r.client, P, "PendingCreation", change)
  BY DEF EntriesOf, ChangeEntries
<1> HIDE DEF new
<1>3. slot = SlotOf[r.token] /\ r.token \in Tokens
  <2>1. Filled(r, spend, 1)
    BY DEF SlotsFit, Slots
  <2>2. SlotToken(r, 1) = r.token
    BY DEF SlotToken
  <2> QED
    BY <2>1, <2>2 DEF Filled, Owned
<1>4. own # contract_nf_address
  <2>1. zkp_private_key(r.client) # ZeroScalar /\ Generator # Neutral
    BY DEF zkp_private_key, ZeroScalar, Generator, Neutral
  <2>2. own = <<"point", Generator[2] \cup {zkp_private_key(r.client)}>>
    BY <2>1 DEF zkp_public_key, Mul
  <2> QED
    BY <2>2 DEF contract_nf_address
<1> HIDE DEF own, slot
<1>5. ASSUME new[2] # DefaultPreimage
      PROVE  Owned(r.client, new[2]) /\ new[2].value = TokenChange(r, spend)
  <2>1. new[2] = Preimage(TokenChange(r, spend), r.token, slot, own, TransferSalt(2))
    BY <1>1, <1>5 DEF Output
  <2> QED
    BY <1>3, <2>1, PreimageIs DEF Owned, own
<1>6. ASSUME new[4] # DefaultPreimage
      PROVE  Owned(r.client, new[4]) /\ new[4].value = FeeChange(r, spend)
  <2>1. new[4] = Preimage(FeeChange(r, spend), fee_token_id, fee_token_id, own, TransferSalt(4))
    BY <1>1, <1>6 DEF Output
  <2>2. fee_token_id \in Tokens /\ SlotOf[fee_token_id] = fee_token_id
    BY LedgerAssumption
  <2> QED
    BY <2>1, <2>2, PreimageIs DEF Owned, own
<1>7. 3 \notin I
  <2>1. new[3] = DefaultPreimage \/ new[3].public_key = contract_nf_address
    BY <1>1, PreimageIs DEF Output
  <2> QED
    BY <1>4, <2>1
<1>8. I \subseteq {2, 4}
  BY <1>7
<1>9. \A p \in P : Owned(r.client, p) /\ p.value \in {TokenChange(r, spend), FeeChange(r, spend)}
  BY <1>5, <1>6, <1>8
<1>10. IsFiniteSet(P)
  <2>1. IsFiniteSet({2} \cup {4})
    BY FS_Singleton, FS_Union
  <2>2. IsFiniteSet(I)
    BY <1>8, <2>1, FS_Subset
  <2> HIDE DEF I
  <2> QED
    BY <2>2, ImageIsFinite
<1> HIDE DEF P
<1>11. HeldBy(r.client, change) /\ \A e \in change : e.preimage \in P
  BY <1>2, <1>9, <1>10, EntriesHeld
<1> QED
  BY <1>9, <1>11

LEMMA SentIs ==
  ASSUME NEW r \in Requests, r.kind \in {"transfer", "withdraw"}, NEW spend, SlotsFit(r, spend),
         NEW in, in = Inputs(r, spend, new_commitments(r, spend)), AmountsInRange(in),
         NEW tx, tx = PublicInputs(in)
  PROVE  /\ FirstOutput(tx)
         /\ tx.commitments[1] # Zero => tx.commitments[1][4] <= MaxAmount
<1> DEFINE h == poseidon_hash(in.nf_token_id, in.nf_slot_id, in.value, in.recipient_public_key,
                              get_y(SharedSecret(in)))
<1>1. tx.commitments = verify_commitments(in, SharedSecret(in))
  BY DEF PublicInputs
<1>2. tx.commitments[1] = Zero \/ tx.commitments[1] = h
  BY <1>1 DEF verify_commitments, Slots
<1>3. in.nf_token_id = spend[1].nf_token_id /\ in.nf_slot_id = spend[1].nf_slot_id
      /\ in.value = r.value
  BY InputsAre
<1>4. spend[1].nf_token_id \in Tokens /\ spend[1].nf_slot_id = SlotOf[spend[1].nf_token_id]
  BY DEF SlotsFit, Slots, Filled, Owned
<1>5. r.value \in Nat
  BY LedgerAssumption
<1>6. in.value <= MaxAmount
  BY <1>5, LedgerAssumption DEF AmountsInRange, enforce_in_range
<1>7. h[4] = in.value
  BY DEF poseidon_hash
<1> QED
  BY <1>2, <1>3, <1>4, <1>5, <1>6, <1>7 DEF FirstOutput

\* A request changes one wallet.
LEMMA OneWalletKeeps ==
  ASSUME WalletInv, NEW c \in Clients, NEW w, HeldBy(c, w), PoolInv',
         wallet' = [wallet EXCEPT ![c] = w]
  PROVE  /\ WalletInv'
         /\ RangeInv /\ Small(w) => (\A d \in Clients : Small(wallet[d]))'
<1>1. WalletsHeld' /\ wallet'[c] = w /\ \A d \in Clients : d # c => wallet'[d] = wallet[d]
  BY OneWallet DEF WalletInv
<1>2. ASSUME RangeInv, Small(w), NEW d \in Clients PROVE Small(wallet'[d])
  BY <1>1, <1>2 DEF RangeInv, Small
<1> QED
  BY <1>1, <1>2 DEF WalletInv, Small

LEMMA SpendKeeps ==
  ASSUME WalletInv, NEW r \in Requests, r.kind \in {"transfer", "withdraw"},
         NEW value, value # <<>>, FoundFrom(wallet[r.client], r.token, r.value, value),
         NEW reserved, reserved = mark_commitments_pending_spend(wallet[r.client], Range(value)),
         NEW fee, fee = FeeFound(r, reserved), r.fee = 0 \/ fee # <<>>,
         NEW spend, InSlots(spend, value, fee), Spend(r, reserved, spend)
  PROVE  WalletInv' /\ (RangeInv => RangeInv')
<1> DEFINE c == r.client
           new == new_commitments(r, spend)
           in == Inputs(r, spend, new)
           tx == PublicInputs(in)
           kept == mark_commitments_pending_spend(reserved, Range(spend))
           change == ChangeEntries(c, new)
<1>1. /\ wallet' = [wallet EXCEPT ![c] = kept \cup change]
      /\ \/ Proved(r, spend, new) /\ pool' = pool \cup {tx} /\ Done(r, "submitted")
         \/ ~ Proved(r, spend, new) /\ pool' = pool /\ Done(r, "not_proved")
  BY DEF Spend, handle_client_operation
<1> HIDE DEF c, new, in, tx, kept, change
<1>2. c \in Clients /\ r.value \in Nat /\ r.fee \in Nat
  BY LedgerAssumption DEF c
<1>3. HeldBy(c, wallet[c])
  BY <1>2 DEF WalletInv, WalletsHeld
<1>4. /\ SlotsFit(r, spend)
      /\ TokenChange(r, spend) \in Nat /\ FeeChange(r, spend) \in Nat
      /\ \E e \in wallet[c] : TokenChange(r, spend) <= e.preimage.value
      /\ \E e \in wallet[c] : FeeChange(r, spend) <= e.preimage.value
  BY <1>3, SpendFits DEF c
<1>5. HeldBy(c, reserved) /\ \A e \in reserved : \E e0 \in wallet[c] : e0.preimage = e.preimage
  BY <1>3, MarkPendingIs DEF c
<1>6. HeldBy(c, kept) /\ \A e \in kept : \E e0 \in reserved : e0.preimage = e.preimage
  BY <1>5, MarkPendingIs DEF kept
<1>7. /\ HeldBy(c, change)
      /\ \A e \in change : e.preimage.value \in {TokenChange(r, spend), FeeChange(r, spend)}
  BY <1>4, ChangeIs DEF c, change, new
<1>8. HeldBy(c, kept \cup change)
  BY <1>6, <1>7, BothHeld
<1>9. ASSUME Proved(r, spend, new)
      PROVE  FirstOutput(tx) /\ (tx.commitments[1] # Zero => tx.commitments[1][4] <= MaxAmount)
  <2>1. AmountsInRange(in)
    BY <1>9 DEF Proved, assess_operation_integrity, in
  <2> QED
    BY <1>4, <2>1, SentIs DEF tx, in, new
<1>10. PoolInv'
  <2>1. PoolInv
    BY DEF WalletInv
  <2>2. CASE pool' = pool
    BY <2>1, <2>2 DEF PoolInv, FirstOutput
  <2>3. CASE Proved(r, spend, new) /\ pool' = pool \cup {tx}
    <3>1. IsFiniteSet(pool')
      BY <2>1, <2>3, FS_AddElement DEF PoolInv
    <3>2. \A t \in pool' : FirstOutput(t)
      BY <1>9, <2>1, <2>3 DEF PoolInv
    <3> QED
      BY <3>1, <3>2 DEF PoolInv, FirstOutput
  <2> QED
    BY <1>1, <2>2, <2>3
<1>11. WalletInv'
  BY <1>1, <1>2, <1>8, <1>10, OneWalletKeeps
<1>12. ASSUME RangeInv PROVE RangeInv'
  <2>1. /\ Small(wallet[c])
        /\ \A t \in pool : t.commitments[1] # Zero => t.commitments[1][4] <= MaxAmount
        /\ OperationIsProvable
    BY <1>2, <1>12 DEF RangeInv
  <2>2. MaxAmount \in Nat
    BY LedgerAssumption
  <2>3. TokenChange(r, spend) \in 0 .. MaxAmount /\ FeeChange(r, spend) \in 0 .. MaxAmount
    <3>1. \A e \in wallet[c] : e.preimage.value \in Nat
      BY <1>3 DEF HeldBy, Owned
    <3> QED
      BY <1>4, <2>1, <2>2, <3>1 DEF Small
  <2>4. Small(kept \cup change)
    BY <1>5, <1>6, <1>7, <2>1, <2>3 DEF Small
  <2>5. (\A d \in Clients : Small(wallet[d]))'
    BY <1>1, <1>2, <1>8, <1>10, <1>12, <2>4, OneWalletKeeps
  <2>6. \A t \in pool' : t.commitments[1] # Zero => t.commitments[1][4] <= MaxAmount
    BY <1>1, <1>9, <2>1
  <2>7. ~ Proved(r, spend, new) => r.value > MaxAmount \/ r.fee > MaxAmount
    <3>1. ASSUME r.value <= MaxAmount, r.fee <= MaxAmount PROVE Proved(r, spend, new)
      BY <1>4, <2>3, <3>1, Provable DEF new
    <3> QED
      BY <1>2, <2>2, <3>1
  <2>8. OperationIsProvable'
    BY <1>1, <2>1, <2>7, ResultsKept
  <2> QED
    BY <2>5, <2>6, <2>8 DEF RangeInv
<1> QED
  BY <1>11, <1>12

LEMMA OperateKeeps ==
  ASSUME WalletInv, NEW r \in Requests, r.kind \in {"transfer", "withdraw"}, Operate(r)
  PROVE  WalletInv' /\ (RangeInv => RangeInv')
<1> DEFINE c == r.client
           value == find_usable_commitments(wallet[c], r.token, r.value)
           reserved == mark_commitments_pending_spend(wallet[c], Range(value))
           fee == FeeFound(r, reserved)
<1>1. Reserve(r, value, reserved)
  BY DEF Operate
<1> HIDE DEF c, value, reserved, fee
<1>2. c \in Clients /\ r.value \in Nat
  BY LedgerAssumption DEF c
<1>3. HeldBy(c, wallet[c])
  BY <1>2 DEF WalletInv, WalletsHeld
<1>4. FoundFrom(wallet[c], r.token, r.value, value)
  BY <1>2, <1>3, WhatIsFound DEF value
<1>5. HeldBy(c, reserved) /\ \A e \in reserved : \E e0 \in wallet[c] : e0.preimage = e.preimage
  BY <1>3, MarkPendingIs DEF reserved
<1>6. CASE value = <<>>
  <2>1. UNCHANGED <<wallet, pool>> /\ Done(r, "no_value_commitments")
    BY <1>1, <1>6 DEF Reserve
  <2>2. WalletInv'
    BY <2>1 DEF WalletInv, WalletsHeld, PoolInv, HeldBy, Owned, FirstOutput, zkp_public_key
  <2>3. ASSUME RangeInv PROVE RangeInv'
    <3>1. OperationIsProvable'
      BY <2>1, <2>3, ResultsKept DEF RangeInv
    <3> QED
      BY <2>1, <2>3, <3>1 DEF RangeInv, Small
  <2> QED
    BY <2>2, <2>3
<1>7. CASE value # <<>>
  <2>1. PayFee(r, reserved, value, fee)
    BY <1>1, <1>7 DEF Reserve, fee, FeeFound
  <2>2. CASE r.fee # 0 /\ fee = <<>>
    <3>1. /\ wallet' = [wallet EXCEPT ![c] = reserved] /\ pool' = pool
          /\ Done(r, "no_fee_commitments")
      BY <2>1, <2>2 DEF PayFee, c
    <3>2. PoolInv'
      BY <3>1 DEF WalletInv, PoolInv, FirstOutput
    <3>3. WalletInv'
      BY <1>2, <1>5, <3>1, <3>2, OneWalletKeeps
    <3>4. ASSUME RangeInv PROVE RangeInv'
      <4>1. Small(reserved)
        BY <1>2, <1>5, <3>4 DEF RangeInv, Small
      <4>2. (\A d \in Clients : Small(wallet[d]))'
        BY <1>2, <1>5, <3>1, <3>2, <3>4, <4>1, OneWalletKeeps
      <4>3. OperationIsProvable'
        BY <3>1, <3>4, ResultsKept DEF RangeInv
      <4> QED
        BY <3>1, <3>4, <4>2, <4>3 DEF RangeInv
    <3> QED
      BY <3>3, <3>4
  <2>3. CASE r.fee = 0 \/ fee # <<>>
    <3> DEFINE spend == Padded(value) \o Padded(fee)
    <3>1. Spend(r, reserved, spend)
      BY <2>1, <2>3 DEF PayFee
    <3>2. InSlots(spend, value, fee)
      BY PaddedAre
    <3> HIDE DEF spend
    <3> QED
      BY <1>4, <1>7, <2>3, <3>1, <3>2, SpendKeeps DEF c, reserved, fee
  <2> QED
    BY <2>2, <2>3
<1> QED
  BY <1>6, <1>7

-----------------------------------------------------------------------------
(* The invariant from the start.                                           *)

LEMMA EndowmentIs ==
  ASSUME NEW e \in Endowments
  PROVE  /\ Len(e) \in Nat /\ DOMAIN e = 1 .. Len(e) /\ IsFiniteSet(DOMAIN e)
         /\ \A i \in DOMAIN e : e[i].token \in Tokens /\ e[i].value \in Nat
<1>1. e \in Seq([token : Tokens, value : Nat])
  BY LedgerAssumption
<1>2. Len(e) \in Nat /\ DOMAIN e = 1 .. Len(e)
  BY <1>1
<1>3. IsFiniteSet(1 .. Len(e))
  BY <1>2, FS_Interval
<1>4. ASSUME NEW i \in DOMAIN e PROVE e[i] \in [token : Tokens, value : Nat]
  BY <1>1, <1>2, <1>4, ElementOfSeq
<1>5. \A i \in DOMAIN e : e[i].token \in Tokens /\ e[i].value \in Nat
  BY <1>4
<1> QED
  BY <1>2, <1>3, <1>5

LEMMA InitWallets ==
  ASSUME Init
  PROVE  WalletInv /\ (DepositsInRange => RangeInv)
<1>1. PICK e \in Endowments :
        /\ wallet = [c \in Clients |-> IF c = FirstClient
                      THEN {Entry(c, EarlyPreimages(e)[i], "Unspent") : i \in DOMAIN e} ELSE {}]
        /\ pool = {} /\ results = {}
  BY DEF Init
<1> DEFINE f == EarlyPreimages(e)
           P == {f[i] : i \in DOMAIN e}
           w == wallet[FirstClient]
<1>2. /\ FirstClient \in Clients /\ IsFiniteSet(DOMAIN e)
      /\ \A i \in DOMAIN e : e[i].token \in Tokens /\ e[i].value \in Nat
  BY EndowmentIs, LedgerAssumption
<1>3. /\ wallet = [c \in Clients |-> wallet[c]]
      /\ \A c \in Clients : c # FirstClient => wallet[c] = {}
  BY <1>1
<1>4. EntriesOf(FirstClient, P, "Unspent", w)
  BY <1>1, <1>2 DEF EntriesOf
<1>5. \A p \in P : Owned(FirstClient, p) /\ \E i \in DOMAIN e : p.value = e[i].value
  <2> SUFFICES ASSUME NEW i \in DOMAIN e
               PROVE  Owned(FirstClient, f[i]) /\ f[i].value = e[i].value
    OBVIOUS
  <2>1. f[i] = DepositPreimage(e[i].value, e[i].token, SlotOf[e[i].token],
                               DepositSecret(<<"early", i>>))
    BY DEF EarlyPreimages
  <2> HIDE DEF f
  <2> QED
    BY <1>2, <2>1, DepositPreimageIs DEF Owned
<1>6. IsFiniteSet(P)
  <2> HIDE DEF f
  <2> QED
    BY <1>2, ImageIsFinite
<1> HIDE DEF P, w
<1>7. HeldBy(FirstClient, w) /\ \A x \in w : x.preimage \in P
  BY <1>4, <1>5, <1>6, EntriesHeld
<1>8. \A c : HeldBy(c, {})
  BY FS_EmptySet DEF HeldBy
<1>9. WalletInv
  BY <1>1, <1>3, <1>7, <1>8, FS_EmptySet DEF WalletInv, WalletsHeld, PoolInv, w
<1>10. ASSUME DepositsInRange PROVE RangeInv
  <2>1. Small(w)
    BY <1>5, <1>7, <1>10 DEF Small, DepositsInRange
  <2>2. \A c \in Clients : Small(wallet[c])
    BY <1>3, <2>1 DEF Small, w
  <2> QED
    BY <1>1, <2>2 DEF RangeInv, OperationIsProvable
<1> QED
  BY <1>9, <1>10

LEMMA NextWallets ==
  ASSUME WalletInv, [Next]_vars
  PROVE  WalletInv' /\ (DepositsInRange /\ RangeInv => RangeInv')
<1>1. ASSUME NEW r \in Deposits, handle_deposit(r)
      PROVE  WalletInv' /\ (DepositsInRange /\ RangeInv => RangeInv')
  BY <1>1, DepositKeeps
<1>2. ASSUME NEW r \in Requests, handle_transfer(r) \/ handle_withdraw(r)
      PROVE  WalletInv' /\ (DepositsInRange /\ RangeInv => RangeInv')
  <2>1. r.kind \in {"transfer", "withdraw"} /\ Operate(r)
    BY <1>2 DEF handle_transfer, handle_withdraw
  <2> QED
    BY <2>1, OperateKeeps
<1>3. ASSUME NEW txs \in SUBSET pool, NEW data \in SUBSET escrows, ProposeBlock(txs, data)
      PROVE  WalletInv' /\ (DepositsInRange /\ RangeInv => RangeInv')
  BY <1>3, ProposeKeeps
<1>4. ASSUME UNCHANGED vars
      PROVE  WalletInv' /\ (DepositsInRange /\ RangeInv => RangeInv')
  <2>1. UNCHANGED <<wallet, pool, results>>
    BY <1>4 DEF vars
  <2> QED
    BY <2>1 DEF WalletInv, WalletsHeld, PoolInv, HeldBy, Owned, FirstOutput, zkp_public_key,
                RangeInv, Small, OperationIsProvable
<1> QED
  BY <1>1, <1>2, <1>3, <1>4 DEF Next

\* Whatever a client's wallet has come to hold, find_usable_commitments finds
\* something to spend whenever one or two commitments cover the target,
\* leaves as little change as any choice of one or two does and of those
\* spends the most dust: the three passes of find_subset_commitments miss
\* nothing, for any set of clients, tokens and amounts.
THEOREM BestSelectionCorrect == Spec => []SelectionIsBest
<1>1. Init => WalletInv
  BY InitWallets
<1>2. WalletInv /\ [Next]_vars => WalletInv'
  BY NextWallets
<1>3. WalletInv => SelectionIsBest
  <2> SUFFICES ASSUME WalletInv, NEW c \in Clients, NEW token \in Tokens,
                      NEW target \in 1 .. 2 * MaxAmount
               PROVE  Best(get_available_commitments(wallet[c], token), target)
    BY DEF SelectionIsBest, Best
  <2>1. HeldBy(c, wallet[c])
    BY DEF WalletInv, WalletsHeld
  <2>2. /\ IsFiniteSet(get_available_commitments(wallet[c], token))
        /\ \A s \in get_available_commitments(wallet[c], token) : s.value \in Nat
    BY <2>1, AvailableIs
  <2>3. target \in Nat \ {0}
    BY LedgerAssumption
  <2> QED
    BY <2>2, <2>3, OfferIsBest
<1> QED
  BY <1>1, <1>2, <1>3, PTL DEF Spec

\* When every deposit is of an amount of 96 bits, client_operation fails on
\* no transfer or withdraw whose value and fee are: whatever commitments were
\* found for it, the balance, the membership proofs, the nullifiers and the
\* outputs built from them satisfy the circuit, so no request leaves its
\* commitments reserved for a transaction that was never made.
THEOREM ProvableCorrect == DepositsInRange => (Spec => []OperationIsProvable)
<1> SUFFICES ASSUME DepositsInRange PROVE Spec => []OperationIsProvable
  OBVIOUS
<1>1. Init => WalletInv /\ RangeInv
  BY InitWallets
<1>2. WalletInv /\ RangeInv /\ [Next]_vars => WalletInv' /\ RangeInv'
  BY NextWallets
<1>3. RangeInv => OperationIsProvable
  BY DEF RangeInv
<1> QED
  BY <1>1, <1>2, <1>3, PTL DEF Spec

-----------------------------------------------------------------------------
(* Every token has an owner.                                               *)
(*                                                                         *)
(* The invariant that shows it follows a commitment from the salt it is    *)
(* given to the transaction that spends it: no salt is given twice, what a *)
(* client holds nobody else does, and the status of an entry says where    *)
(* its commitment is.                                                      *)

\* The salts operation n may give its commitments.
SaltOf(n, x) ==
  \/ \E i \in 1 .. 4 : x = <<"salt", n, i>>
  \/ \E c \in Clients : x = get_y(Mul(<<"ephemeral", n>>, zkp_public_key(c)))
  \/ x = SecretHash(DepositSecret(<<"fresh", n>>))

\* Not the salt of an operation still to come.
Past(x) == \A n \in Nat : SaltOf(n, x) => n < ops

IsHash(h) ==
  /\ h = poseidon_hash(h[2], h[3], h[4], h[5], h[6])
  /\ h[2] \in Tokens /\ h[4] \in Nat

IsNullifier(n) == \E c \in Clients : n = NullifierOf(nullifier_key(c), n[3])

\* What a set of transactions spends.
Spends(txs) == {n[3] : n \in Nullifiers(txs)}

IsWithdraw(tx) == tx.commitments[1] = Zero /\ tx.nullifiers[1] # Zero

OfToken(t, h) == IF h[2] = t THEN h[4] ELSE 0
Amount(t, S) == SumFunction([h \in S |-> OfToken(t, h)])

Kept(txs) == {h \in Commitments(txs) : h[5] # contract_nf_address}

WithdrawnBy(t, tx) ==
  IF IsWithdraw(tx) /\ tx.public_data[1] = t THEN tx.public_data[3] ELSE 0
FeeOf(t, tx) == IF t = fee_token_id THEN tx.fee ELSE 0

\* A transaction of either circuit.
WellFormed(tx) ==
  /\ tx.commitments = [i \in Slots |-> tx.commitments[i]]
  /\ tx.nullifiers = [i \in Slots |-> tx.nullifiers[i]]
  /\ tx.fee \in Nat
  /\ \A i \in Slots : tx.commitments[i] # Zero => IsHash(tx.commitments[i])
  /\ \A i \in Slots : tx.nullifiers[i] # Zero => IsNullifier(tx.nullifiers[i])
  /\ IsWithdraw(tx) => tx.public_data[3] \in Nat

\* A transfer or a withdraw, once proved: what it spends is what it leaves,
\* withdraws and pays, and its first output can be read.
Operation(tx) ==
  /\ WellFormed(tx)
  /\ tx.nullifiers[1] # Zero
  /\ \A h \in Spends({tx}) : IsHash(h) /\ h[5] # contract_nf_address
  /\ \A t \in Tokens :
       Amount(t, Kept({tx})) + WithdrawnBy(t, tx) + FeeOf(t, tx) = Amount(t, Spends({tx}))
  /\ tx.commitments[1] # Zero =>
       \E c \in Clients : Hash(test_preimage(c, tx)) = tx.commitments[1]
  /\ tx.commitments[3] # Zero => tx.commitments[3][5] = contract_nf_address

-----------------------------------------------------------------------------
(* Salts are given once *)

LEMMA HashIs ==
  ASSUME NEW t, NEW s, NEW v, NEW k, NEW x, NEW h, h = poseidon_hash(t, s, v, k, x)
  PROVE  /\ h[2] = t /\ h[3] = s /\ h[4] = v /\ h[5] = k /\ h[6] = x
         /\ h = poseidon_hash(h[2], h[3], h[4], h[5], h[6])
<1>1. h[2] = t /\ h[3] = s /\ h[4] = v /\ h[5] = k /\ h[6] = x
  BY DEF poseidon_hash
<1> QED
  BY <1>1

LEMMA PublicKeyIs ==
  ASSUME NEW c
  PROVE  zkp_public_key(c) = <<"point", {<<"key", c>>}>>
<1>1. zkp_private_key(c) # ZeroScalar /\ Generator # Neutral /\ Generator[2] = {}
  BY DEF zkp_private_key, ZeroScalar, Generator, Neutral
<1> QED
  BY <1>1 DEF zkp_public_key, Mul, zkp_private_key

LEMMA SharedPointIs ==
  ASSUME NEW c, NEW n
  PROVE  Mul(<<"ephemeral", n>>, zkp_public_key(c)) = <<"point", {<<"key", c>>, <<"ephemeral", n>>}>>
<1>1. <<"ephemeral", n>> # ZeroScalar
  BY DEF ZeroScalar
<1>2. zkp_public_key(c) # Neutral
  BY KeyIsAPoint
<1>3. zkp_public_key(c)[2] = {<<"key", c>>}
  BY PublicKeyIs
<1> QED
  BY <1>1, <1>2, <1>3 DEF Mul

LEMMA KeysDiffer ==
  ASSUME NEW c, NEW d, zkp_public_key(c) = zkp_public_key(d)
  PROVE  c = d
<1>1. zkp_public_key(c)[2] = {<<"key", c>>} /\ zkp_public_key(d)[2] = {<<"key", d>>}
  BY PublicKeyIs
<1>2. <<"key", c>> = <<"key", d>>
  BY <1>1
<1> QED
  BY <1>2

LEMMA KeyIsNotTheContracts ==
  ASSUME NEW c
  PROVE  zkp_public_key(c) # contract_nf_address /\ contract_nf_address # Neutral
BY PublicKeyIs DEF contract_nf_address, Neutral

LEMMA SecretHashIs ==
  ASSUME NEW y
  PROVE  /\ SecretHash(DepositSecret(y))[1] = "secret_hash"
         /\ SecretHash(DepositSecret(y))[2][2] = y
<1>1. DepositSecret(y)[2] = y
  BY DEF DepositSecret
<1>2. SecretHash(DepositSecret(y))[2] = DepositSecret(y)
  BY DEF SecretHash
<1>3. SecretHash(DepositSecret(y))[1] = "secret_hash"
  BY DEF SecretHash
<1> QED
  BY <1>1, <1>2, <1>3

LEMMA SharedSecretsDiffer ==
  ASSUME NEW c, NEW d, NEW n, NEW m,
         get_y(Mul(<<"ephemeral", n>>, zkp_public_key(c))) =
         get_y(Mul(<<"ephemeral", m>>, zkp_public_key(d)))
  PROVE  n = m
<1> DEFINE P == {<<"key", c>>, <<"ephemeral", n>>}
           Q == {<<"key", d>>, <<"ephemeral", m>>}
<1>1. get_y(<<"point", P>>)[2][2] = P /\ get_y(<<"point", Q>>)[2][2] = Q
  BY DEF get_y
<1>2. get_y(<<"point", P>>) = get_y(<<"point", Q>>)
  BY SharedPointIs
<1>3. P = Q
  <2> HIDE DEF P, Q
  <2> QED
    BY <1>1, <1>2
<1>4. <<"ephemeral", n>> \in Q
  BY <1>3
<1>5. <<"ephemeral", n>> # <<"key", d>>
  OBVIOUS
<1>6. <<"ephemeral", n>> = <<"ephemeral", m>>
  BY <1>4, <1>5
<1> QED
  BY <1>6

\* No two operations give the same salt.
LEMMA SaltsAreApart ==
  ASSUME NEW n, NEW m, NEW x, SaltOf(n, x), SaltOf(m, x)
  PROVE  n = m
<1> DEFINE Own(k) == \E i \in 1 .. 4 : x = <<"salt", k, i>>
           Shared(k) == \E c \in Clients : x = get_y(Mul(<<"ephemeral", k>>, zkp_public_key(c)))
           Fresh(k) == x = SecretHash(DepositSecret(<<"fresh", k>>))
<1>1. \A k : Own(k) => x[1] = "salt" /\ x[2] = k
  OBVIOUS
<1>2. \A k : Shared(k) => x[1] = "y"
  BY DEF get_y
<1>3. \A k : Fresh(k) => x[1] = "secret_hash" /\ x[2][2] = <<"fresh", k>>
  BY SecretHashIs
<1>4. (Own(n) \/ Shared(n) \/ Fresh(n)) /\ (Own(m) \/ Shared(m) \/ Fresh(m))
  BY DEF SaltOf
<1>5. ASSUME Shared(n), Shared(m) PROVE n = m
  BY <1>5, SharedSecretsDiffer
<1>6. ASSUME Fresh(n), Fresh(m) PROVE n = m
  <2> HIDE DEF Fresh
  <2>1. <<"fresh", n>> = <<"fresh", m>>
    BY <1>3, <1>6
  <2> QED
    BY <2>1
<1> HIDE DEF Own, Shared, Fresh
<1>7. Own(n) => n = m
  BY <1>1, <1>2, <1>3, <1>4
<1>8. Shared(n) => n = m
  BY <1>1, <1>2, <1>3, <1>4, <1>5
<1>9. Fresh(n) => n = m
  BY <1>1, <1>2, <1>3, <1>4, <1>6
<1> QED
  BY <1>4, <1>7, <1>8, <1>9

LEMMA EarlySaltIs ==
  ASSUME NEW i, NEW n
  PROVE  ~ SaltOf(n, SecretHash(DepositSecret(<<"early", i>>)))
<1> DEFINE x == SecretHash(DepositSecret(<<"early", i>>))
<1>1. x[1] = "secret_hash" /\ x[2][2] = <<"early", i>>
  BY SecretHashIs
<1>2. \A j : <<"salt", n, j>>[1] = "salt"
  OBVIOUS
<1>3. \A p : get_y(p)[1] = "y"
  BY DEF get_y
<1>4. SecretHash(DepositSecret(<<"fresh", n>>))[2][2] = <<"fresh", n>>
  BY SecretHashIs
<1> HIDE DEF x
<1>5. x # SecretHash(DepositSecret(<<"fresh", n>>))
  <2>1. <<"early", i>> # <<"fresh", n>>
    OBVIOUS
  <2> QED
    BY <1>1, <1>4, <2>1
<1>6. \A j : x # <<"salt", n, j>>
  BY <1>1, <1>2
<1>7. \A p : x # get_y(p)
  BY <1>1, <1>3
<1> QED
  BY <1>5, <1>6, <1>7 DEF SaltOf, x

\* What this operation gives is new, and past once it is handled.
LEMMA NewSalts ==
  ASSUME ops \in Nat, NEW x, SaltOf(ops, x)
  PROVE  ~ Past(x) /\ (ops' = ops + 1 => Past(x)')
<1>1. ~ Past(x)
  BY DEF Past
<1>2. ASSUME ops' = ops + 1, NEW n \in Nat, SaltOf(n, x) PROVE n < ops'
  <2>1. n = ops
    BY <1>2, SaltsAreApart
  <2> QED
    BY <1>2, <2>1
<1> QED
  BY <1>1, <1>2 DEF Past, SaltOf, zkp_public_key

LEMMA StillPast ==
  ASSUME ops \in Nat, ops' \in {ops, ops + 1}, NEW x, Past(x)
  PROVE  Past(x)'
BY DEF Past, SaltOf, zkp_public_key

-----------------------------------------------------------------------------
(* What a set of transactions creates and spends *)

\* The commitments and nullifiers of a transaction are in its slots.
LEMMA CommitmentsAre ==
  ASSUME NEW txs, \A tx \in txs : WellFormed(tx)
  PROVE  /\ \A h : h \in Commitments(txs) <=>
                     h # Zero /\ \E tx \in txs : \E i \in Slots : h = tx.commitments[i]
         /\ \A n : n \in Nullifiers(txs) <=>
                     n # Zero /\ \E tx \in txs : \E i \in Slots : n = tx.nullifiers[i]
<1>1. ASSUME NEW tx \in txs
      PROVE  /\ Range(tx.commitments) = {tx.commitments[i] : i \in Slots}
             /\ Range(tx.nullifiers) = {tx.nullifiers[i] : i \in Slots}
  <2>1. DOMAIN tx.commitments = Slots /\ DOMAIN tx.nullifiers = Slots
    <3>1. /\ tx.commitments = [i \in Slots |-> tx.commitments[i]]
          /\ tx.nullifiers = [i \in Slots |-> tx.nullifiers[i]]
      BY <1>1 DEF WellFormed
    <3> QED
      BY <3>1
  <2> QED
    BY <2>1 DEF Range
<1>2. \A h : h \in Commitments(txs) <=> h # Zero /\ \E tx \in txs : h \in Range(tx.commitments)
  BY DEF Commitments
<1>3. \A n : n \in Nullifiers(txs) <=> n # Zero /\ \E tx \in txs : n \in Range(tx.nullifiers)
  BY DEF Nullifiers
<1>4. \A tx \in txs : /\ \A h : h \in Range(tx.commitments) <=> \E i \in Slots : h = tx.commitments[i]
                     /\ \A n : n \in Range(tx.nullifiers) <=> \E i \in Slots : n = tx.nullifiers[i]
  BY <1>1
<1>5. ASSUME NEW h
      PROVE  h \in Commitments(txs) <=> h # Zero /\ \E tx \in txs : \E i \in Slots : h = tx.commitments[i]
  <2>1. \A tx \in txs : h \in Range(tx.commitments) <=> \E i \in Slots : h = tx.commitments[i]
    BY <1>4
  <2> QED
    BY <1>2, <2>1
<1>6. ASSUME NEW n
      PROVE  n \in Nullifiers(txs) <=> n # Zero /\ \E tx \in txs : \E i \in Slots : n = tx.nullifiers[i]
  <2>1. \A tx \in txs : n \in Range(tx.nullifiers) <=> \E i \in Slots : n = tx.nullifiers[i]
    BY <1>4
  <2> QED
    BY <1>3, <2>1
<1> QED
  BY <1>5, <1>6

LEMMA OfUnion ==
  ASSUME NEW A, NEW B
  PROVE  /\ Commitments(A \cup B) = Commitments(A) \cup Commitments(B)
         /\ Nullifiers(A \cup B) = Nullifiers(A) \cup Nullifiers(B)
         /\ Spends(A \cup B) = Spends(A) \cup Spends(B)
         /\ Kept(A \cup B) = Kept(A) \cup Kept(B)
<1>1. Commitments(A \cup B) = Commitments(A) \cup Commitments(B)
  BY DEF Commitments
<1>2. Nullifiers(A \cup B) = Nullifiers(A) \cup Nullifiers(B)
  BY DEF Nullifiers
<1>3. Spends(A \cup B) = Spends(A) \cup Spends(B)
  BY <1>2 DEF Spends
<1>4. Kept(A \cup B) = Kept(A) \cup Kept(B)
  BY <1>1 DEF Kept
<1> QED
  BY <1>1, <1>2, <1>3, <1>4

LEMMA OfMembers ==
  ASSUME NEW A
  PROVE  /\ \A h : h \in Commitments(A) <=> \E tx \in A : h \in Commitments({tx})
         /\ \A n : n \in Nullifiers(A) <=> \E tx \in A : n \in Nullifiers({tx})
         /\ \A h : h \in Spends(A) <=> \E tx \in A : h \in Spends({tx})
<1>1. \A h : h \in Commitments(A) <=> \E tx \in A : h \in Commitments({tx})
  BY DEF Commitments
<1>2. \A n : n \in Nullifiers(A) <=> \E tx \in A : n \in Nullifiers({tx})
  BY DEF Nullifiers
<1>3. \A h : h \in Spends(A) <=> \E tx \in A : h \in Spends({tx})
  BY <1>2 DEF Spends
<1> QED
  BY <1>1, <1>2, <1>3

LEMMA SpendsWithin ==
  ASSUME NEW A, NEW X, \A tx \in A : Spends({tx}) \subseteq X
  PROVE  Spends(A) \subseteq X
<1> SUFFICES ASSUME NEW h \in Spends(A) PROVE h \in X
  OBVIOUS
<1>1. \E tx \in A : h \in Spends({tx})
  <2>1. PICK n \in Nullifiers(A) : h = n[3]
    BY DEF Spends
  <2>2. \E tx \in A : n \in Nullifiers({tx})
    BY DEF Nullifiers
  <2> QED
    BY <2>1, <2>2 DEF Spends
<1> QED
  BY <1>1

LEMMA CommitmentsApart ==
  ASSUME NEW A, NEW X, \A tx \in A : X \cap Commitments({tx}) = {}
  PROVE  X \cap Commitments(A) = {}
<1> SUFFICES ASSUME NEW h \in Commitments(A) PROVE h \notin X
  OBVIOUS
<1>1. \E tx \in A : h \in Commitments({tx})
  BY DEF Commitments
<1> QED
  BY <1>1

LEMMA SpendsApart ==
  ASSUME NEW A, NEW X, \A tx \in A : X \cap Spends({tx}) = {}
  PROVE  X \cap Spends(A) = {}
<1> SUFFICES ASSUME NEW h \in Spends(A) PROVE h \notin X
  OBVIOUS
<1>1. \E tx \in A : h \in Spends({tx})
  <2>1. PICK n \in Nullifiers(A) : h = n[3]
    BY DEF Spends
  <2>2. \E tx \in A : n \in Nullifiers({tx})
    BY DEF Nullifiers
  <2> QED
    BY <2>1, <2>2 DEF Spends
<1> QED
  BY <1>1

LEMMA HashesAndNullifiers ==
  ASSUME NEW txs, \A tx \in txs : WellFormed(tx)
  PROVE  /\ \A h \in Commitments(txs) : IsHash(h)
         /\ \A n \in Nullifiers(txs) : IsNullifier(n)
<1>1. ASSUME NEW tx \in txs, NEW i \in Slots
      PROVE  /\ tx.commitments[i] # Zero => IsHash(tx.commitments[i])
             /\ tx.nullifiers[i] # Zero => IsNullifier(tx.nullifiers[i])
  BY <1>1 DEF WellFormed
<1> QED
  BY <1>1, CommitmentsAre

LEMMA SlotsAreFinite == IsFiniteSet(Slots)
<1> DEFINE n == 4
<1>1. Slots = 1 .. n /\ n \in Int /\ 1 \in Int
  BY DEF Slots
<1> HIDE DEF n
<1> QED
  BY <1>1, FS_Interval

LEMMA TxsAreFinite ==
  ASSUME NEW txs, IsFiniteSet(txs), \A tx \in txs : WellFormed(tx)
  PROVE  IsFiniteSet(Commitments(txs)) /\ IsFiniteSet(Kept(txs)) /\ IsFiniteSet(Spends(txs))
<1> DEFINE P == txs \X Slots
           f == [p \in P |-> p[1].commitments[p[2]]]
           g == [p \in P |-> p[1].nullifiers[p[2]]]
           third == [n \in Nullifiers(txs) |-> n[3]]
<1>1. IsFiniteSet(P)
  <2>1. IsFiniteSet(Slots)
    BY SlotsAreFinite
  <2> QED
    BY <2>1, FS_Product
<1>2. \A tx \in txs, i \in Slots : <<tx, i>> \in P /\ f[<<tx, i>>] = tx.commitments[i]
                                   /\ g[<<tx, i>>] = tx.nullifiers[i]
  OBVIOUS
<1> HIDE DEF P, f, g
<1>3. IsFiniteSet({f[p] : p \in P}) /\ IsFiniteSet({g[p] : p \in P})
  BY <1>1, ImageIsFinite
<1>4. Commitments(txs) \subseteq {f[p] : p \in P} /\ Nullifiers(txs) \subseteq {g[p] : p \in P}
  <2>1. ASSUME NEW h \in Commitments(txs) PROVE h \in {f[p] : p \in P}
    <3>1. PICK tx \in txs, i \in Slots : h = tx.commitments[i]
      BY CommitmentsAre
    <3> QED
      BY <1>2, <3>1
  <2>2. ASSUME NEW n \in Nullifiers(txs) PROVE n \in {g[p] : p \in P}
    <3>1. PICK tx \in txs, i \in Slots : n = tx.nullifiers[i]
      BY CommitmentsAre
    <3> QED
      BY <1>2, <3>1
  <2> QED
    BY <2>1, <2>2
<1>5. IsFiniteSet(Commitments(txs)) /\ IsFiniteSet(Nullifiers(txs))
  BY <1>3, <1>4, FS_Subset
<1>6. IsFiniteSet(Kept(txs))
  BY <1>5, FS_Subset DEF Kept
<1>7. Spends(txs) = {third[n] : n \in Nullifiers(txs)}
  BY DEF Spends
<1> HIDE DEF third
<1>8. IsFiniteSet(Spends(txs))
  BY <1>5, <1>7, ImageIsFinite
<1> QED
  BY <1>5, <1>6, <1>8

-----------------------------------------------------------------------------
(* Sums over commitments *)

LEMMA AmountIs ==
  ASSUME NEW t, NEW S, IsFiniteSet(S), \A h \in S : IsHash(h)
  PROVE  /\ Amount(t, S) \in Nat
         /\ \A f : (\A h \in S : f[h] = OfToken(t, h)) => SumFunctionOnSet(f, S) = Amount(t, S)
<1> DEFINE g == [h \in S |-> OfToken(t, h)]
<1>1. DOMAIN g = S /\ \A h \in S : g[h] = OfToken(t, h) /\ g[h] \in Nat
  BY DEF OfToken, IsHash
<1>2. Amount(t, S) = SumFunctionOnSet(g, S)
  BY <1>1 DEF Amount, SumFunction
<1> HIDE DEF g
<1>3. SumFunctionOnSet(g, S) \in Nat
  BY <1>1, SumNat
<1>4. ASSUME NEW f, \A h \in S : f[h] = OfToken(t, h)
      PROVE  SumFunctionOnSet(f, S) = SumFunctionOnSet(g, S)
  BY <1>1, <1>4, SumSame
<1> QED
  BY <1>2, <1>3, <1>4

LEMMA AmountOfUnion ==
  ASSUME NEW t, NEW S, IsFiniteSet(S), NEW U, IsFiniteSet(U), S \cap U = {},
         \A h \in S \cup U : IsHash(h)
  PROVE  Amount(t, S \cup U) = Amount(t, S) + Amount(t, U)
<1> DEFINE g == [h \in S \cup U |-> OfToken(t, h)]
<1>1. \A h \in S \cup U : g[h] = OfToken(t, h) /\ g[h] \in Int
  BY DEF OfToken, IsHash
<1> HIDE DEF g
<1>2. IsFiniteSet(S \cup U)
  BY FS_Union
<1>3. SumFunctionOnSet(g, S \cup U) = SumFunctionOnSet(g, S) + SumFunctionOnSet(g, U)
  BY <1>1, SumUnion
<1>4. /\ SumFunctionOnSet(g, S \cup U) = Amount(t, S \cup U)
      /\ SumFunctionOnSet(g, S) = Amount(t, S) /\ SumFunctionOnSet(g, U) = Amount(t, U)
  BY <1>1, <1>2, AmountIs
<1> QED
  BY <1>3, <1>4

LEMMA AmountOfRest ==
  ASSUME NEW t, NEW S, IsFiniteSet(S), NEW U \in SUBSET S, \A h \in S : IsHash(h)
  PROVE  Amount(t, S \ U) = Amount(t, S) - Amount(t, U)
<1>1. IsFiniteSet(U) /\ IsFiniteSet(S \ U)
  BY FS_Subset
<1>2. (S \ U) \cup U = S /\ (S \ U) \cap U = {}
  OBVIOUS
<1>3. Amount(t, S) = Amount(t, S \ U) + Amount(t, U)
  BY <1>1, <1>2, AmountOfUnion
<1>4. Amount(t, S \ U) \in Nat /\ Amount(t, U) \in Nat
  BY <1>1, AmountIs
<1> QED
  BY <1>3, <1>4

-----------------------------------------------------------------------------
(* The ledger of a chain: what can be spent, was withdrawn and was paid *)

LiveIn(M) == Kept(M) \ Spends(M)
WithdrawnFrom(t, M) == SumFunctionOnSet([tx \in M |-> WithdrawnBy(t, tx)], M)
FeesFrom(t, M) == SumFunctionOnSet([tx \in M |-> FeeOf(t, tx)], M)
Ledger(t, M) == Amount(t, LiveIn(M)) + WithdrawnFrom(t, M) + FeesFrom(t, M)

LEMMA PaysAre ==
  ASSUME NEW t, NEW tx, WellFormed(tx)
  PROVE  WithdrawnBy(t, tx) \in Nat /\ FeeOf(t, tx) \in Nat
BY DEF WellFormed, WithdrawnBy, FeeOf

LEMMA LiveInIs ==
  ASSUME NEW M, IsFiniteSet(M), \A tx \in M : WellFormed(tx)
  PROVE  IsFiniteSet(LiveIn(M)) /\ \A h \in LiveIn(M) : IsHash(h)
<1>1. IsFiniteSet(Kept(M))
  BY TxsAreFinite
<1>2. \A h \in Kept(M) : IsHash(h)
  BY HashesAndNullifiers DEF Kept
<1> QED
  BY <1>1, <1>2, FS_Subset DEF LiveIn

LEMMA LedgerTypes ==
  ASSUME NEW t, NEW M, IsFiniteSet(M), \A tx \in M : WellFormed(tx)
  PROVE  /\ Amount(t, LiveIn(M)) \in Nat /\ WithdrawnFrom(t, M) \in Nat /\ FeesFrom(t, M) \in Nat
         /\ Ledger(t, M) \in Nat
<1>1. Amount(t, LiveIn(M)) \in Nat
  BY LiveInIs, AmountIs
<1> DEFINE f == [tx \in M |-> WithdrawnBy(t, tx)]
           g == [tx \in M |-> FeeOf(t, tx)]
<1>2. \A tx \in M : f[tx] \in Nat /\ g[tx] \in Nat
  BY PaysAre
<1> HIDE DEF f, g
<1>3. SumFunctionOnSet(f, M) \in Nat /\ SumFunctionOnSet(g, M) \in Nat
  BY <1>2, SumNat
<1>4. WithdrawnFrom(t, M) \in Nat /\ FeesFrom(t, M) \in Nat
  BY <1>3 DEF WithdrawnFrom, FeesFrom, f, g
<1> QED
  BY <1>1, <1>4 DEF Ledger

\* A new transaction adds what it withdraws and pays.
LEMMA AddPays ==
  ASSUME NEW t, NEW M, IsFiniteSet(M), \A tx \in M : WellFormed(tx),
         NEW new, new \notin M, WellFormed(new)
  PROVE  /\ WithdrawnFrom(t, M \cup {new}) = WithdrawnFrom(t, M) + WithdrawnBy(t, new)
         /\ FeesFrom(t, M \cup {new}) = FeesFrom(t, M) + FeeOf(t, new)
<1> DEFINE U == M \cup {new}
           f == [tx \in U |-> WithdrawnBy(t, tx)]
           g == [tx \in U |-> FeeOf(t, tx)]
           f0 == [tx \in M |-> WithdrawnBy(t, tx)]
           g0 == [tx \in M |-> FeeOf(t, tx)]
<1>1. /\ \A tx \in M : /\ f[tx] \in Int /\ g[tx] \in Int
                       /\ f0[tx] \in Int /\ g0[tx] \in Int
                       /\ f[tx] = f0[tx] /\ g[tx] = g0[tx]
      /\ f[new] \in Int /\ g[new] \in Int
      /\ f[new] = WithdrawnBy(t, new) /\ g[new] = FeeOf(t, new)
  BY PaysAre
<1> HIDE DEF f, g, f0, g0
<1>2. /\ SumFunctionOnSet(f, M \cup {new}) = SumFunctionOnSet(f, M) + f[new]
      /\ SumFunctionOnSet(g, M \cup {new}) = SumFunctionOnSet(g, M) + g[new]
  BY <1>1, SumAdd
<1>3. /\ SumFunctionOnSet(f, M) = SumFunctionOnSet(f0, M)
      /\ SumFunctionOnSet(g, M) = SumFunctionOnSet(g0, M)
  BY <1>1, SumSame
<1>4. /\ WithdrawnFrom(t, U) = SumFunctionOnSet(f, U) /\ FeesFrom(t, U) = SumFunctionOnSet(g, U)
      /\ WithdrawnFrom(t, M) = SumFunctionOnSet(f0, M) /\ FeesFrom(t, M) = SumFunctionOnSet(g0, M)
  BY DEF WithdrawnFrom, FeesFrom, f, g, f0, g0
<1> QED
  BY <1>1, <1>2, <1>3, <1>4

\* The transaction is new to the chain and spends what can be spent.
NewTo(M, new) ==
  /\ WellFormed(new) /\ new \notin M
  /\ Commitments({new}) \cap (Commitments(M) \cup Spends(M)) = {}
  /\ Spends({new}) \subseteq LiveIn(M)

LEMMA AddToLive ==
  ASSUME NEW t, NEW M, IsFiniteSet(M), \A tx \in M : WellFormed(tx), NEW new, NewTo(M, new)
  PROVE  /\ Amount(t, Kept({new})) \in Nat /\ Amount(t, Spends({new})) \in Nat
         /\ Amount(t, LiveIn(M \cup {new})) =
              Amount(t, LiveIn(M)) - Amount(t, Spends({new})) + Amount(t, Kept({new}))
<1>1. IsFiniteSet(LiveIn(M)) /\ \A h \in LiveIn(M) : IsHash(h)
  BY LiveInIs
<1>2. IsFiniteSet({new}) /\ \A tx \in {new} : WellFormed(tx)
  BY FS_Singleton DEF NewTo
<1>3. IsFiniteSet(Kept({new})) /\ IsFiniteSet(Spends({new}))
  BY <1>2, TxsAreFinite
<1>4. \A h \in Kept({new}) : IsHash(h)
  BY <1>2, HashesAndNullifiers DEF Kept
<1> DEFINE rest == LiveIn(M) \ Spends({new})
<1>5. LiveIn(M \cup {new}) = rest \cup Kept({new})
  <2>1. /\ Kept(M \cup {new}) = Kept(M) \cup Kept({new})
        /\ Spends(M \cup {new}) = Spends(M) \cup Spends({new})
    BY OfUnion
  <2>2. Kept({new}) \subseteq Commitments({new}) /\ LiveIn(M) \subseteq Commitments(M)
    BY DEF Kept, LiveIn
  <2>3. Kept({new}) \cap Spends(M) = {} /\ Kept({new}) \cap Spends({new}) = {}
    BY <2>2 DEF NewTo
  <2> QED
    BY <2>1, <2>3 DEF LiveIn
<1>6. rest \cap Kept({new}) = {}
  BY DEF NewTo, LiveIn, Kept
<1>7. Spends({new}) \in SUBSET LiveIn(M)
  BY DEF NewTo
<1>8. IsFiniteSet(rest) /\ \A h \in rest \cup Kept({new}) : IsHash(h)
  BY <1>1, <1>4, FS_Subset
<1>9. Amount(t, rest) = Amount(t, LiveIn(M)) - Amount(t, Spends({new}))
  BY <1>1, <1>7, AmountOfRest
<1> HIDE DEF rest
<1>10. Amount(t, rest \cup Kept({new})) = Amount(t, rest) + Amount(t, Kept({new}))
  BY <1>3, <1>6, <1>8, AmountOfUnion
<1>11. Amount(t, Kept({new})) \in Nat /\ Amount(t, Spends({new})) \in Nat
  BY <1>1, <1>3, <1>4, <1>7, AmountIs
<1> QED
  BY <1>5, <1>9, <1>10, <1>11

LEMMA AddTx ==
  ASSUME NEW t, NEW M, IsFiniteSet(M), \A tx \in M : WellFormed(tx), NEW new, NewTo(M, new)
  PROVE  Ledger(t, M \cup {new}) =
           Ledger(t, M) + (Amount(t, Kept({new})) + WithdrawnBy(t, new) + FeeOf(t, new)
                             - Amount(t, Spends({new})))
<1>1. /\ Amount(t, Kept({new})) \in Nat /\ Amount(t, Spends({new})) \in Nat
      /\ Amount(t, LiveIn(M \cup {new})) =
           Amount(t, LiveIn(M)) - Amount(t, Spends({new})) + Amount(t, Kept({new}))
  BY AddToLive
<1>2. /\ WithdrawnFrom(t, M \cup {new}) = WithdrawnFrom(t, M) + WithdrawnBy(t, new)
      /\ FeesFrom(t, M \cup {new}) = FeesFrom(t, M) + FeeOf(t, new)
  BY AddPays DEF NewTo
<1>3. WithdrawnBy(t, new) \in Nat /\ FeeOf(t, new) \in Nat
  BY PaysAre DEF NewTo
<1>4. Amount(t, LiveIn(M)) \in Nat /\ WithdrawnFrom(t, M) \in Nat /\ FeesFrom(t, M) \in Nat
  BY LedgerTypes
<1>5. Ledger(t, M) = Amount(t, LiveIn(M)) + WithdrawnFrom(t, M) + FeesFrom(t, M)
  BY DEF Ledger
<1>6. Ledger(t, M \cup {new}) = Amount(t, LiveIn(M \cup {new}))
         + WithdrawnFrom(t, M \cup {new}) + FeesFrom(t, M \cup {new})
  BY DEF Ledger
<1> QED
  BY <1>1, <1>2, <1>3, <1>4, <1>5, <1>6

LEMMA LiveIs ==
  ASSUME \A tx \in mined : WellFormed(tx)
  PROVE  Live = LiveIn(mined)
<1>1. \A n \in Nullifiers(mined) : \E c \in Clients : n = NullifierOf(nullifier_key(c), n[3])
  BY HashesAndNullifiers DEF IsNullifier
<1>2. \A k, h : NullifierOf(k, h)[3] = h
  BY DEF NullifierOf
<1>3. ASSUME NEW h
      PROVE  h \in Spends(mined) <=>
               \E c \in Clients : NullifierOf(nullifier_key(c), h) \in Nullifiers(mined)
  <2>1. ASSUME h \in Spends(mined)
        PROVE  \E c \in Clients : NullifierOf(nullifier_key(c), h) \in Nullifiers(mined)
    <3>1. PICK n \in Nullifiers(mined) : h = n[3]
      BY <2>1 DEF Spends
    <3> QED
      BY <1>1, <3>1
  <2>2. ASSUME NEW c \in Clients, NullifierOf(nullifier_key(c), h) \in Nullifiers(mined)
        PROVE  h \in Spends(mined)
    BY <1>2, <2>2 DEF Spends
  <2> QED
    BY <2>1, <2>2
<1> QED
  BY <1>3 DEF Live, IsLive, LiveIn, Kept

LEMMA WithdrawnIs ==
  ASSUME NEW t, IsFiniteSet(mined), \A tx \in mined : WellFormed(tx)
  PROVE  WithdrawnAmount(t) = WithdrawnFrom(t, mined) /\ FeesPaid(t) = FeesFrom(t, mined)
<1> DEFINE f == [tx \in mined |-> WithdrawnBy(t, tx)]
           g == [tx \in mined |-> FeeOf(t, tx)]
           f0 == [tx \in Withdraws |-> IF tx.public_data[1] = t THEN tx.public_data[3] ELSE 0]
           g0 == [tx \in mined |-> tx.fee]
           rest == mined \ Withdraws
<1>1. Withdraws = {tx \in mined : IsWithdraw(tx)}
  BY DEF Withdraws, IsWithdraw
<1>2. /\ IsFiniteSet(Withdraws) /\ IsFiniteSet(rest)
      /\ Withdraws \cup rest = mined /\ Withdraws \cap rest = {}
  BY <1>1, FS_Subset
<1>3. \A tx \in mined : f[tx] = WithdrawnBy(t, tx) /\ f[tx] \in Nat /\ g[tx] = FeeOf(t, tx)
                        /\ g0[tx] = tx.fee /\ g0[tx] \in Nat
  BY PaysAre DEF WellFormed
<1>4. \A tx \in Withdraws : f0[tx] = f[tx]
  BY <1>1, <1>3 DEF WithdrawnBy
<1>5. \A tx \in rest : f[tx] = 0
  BY <1>1, <1>3 DEF WithdrawnBy
<1>6. /\ WithdrawnAmount(t) = SumFunctionOnSet(f0, Withdraws)
      /\ WithdrawnFrom(t, mined) = SumFunctionOnSet(f, mined)
      /\ FeesFrom(t, mined) = SumFunctionOnSet(g, mined)
      /\ FeesPaid(t) = IF t = fee_token_id THEN SumFunctionOnSet(g0, mined) ELSE 0
  BY DEF WithdrawnAmount, WithdrawnFrom, FeesFrom, FeesPaid, SumFunction
<1> HIDE DEF f, g, f0, g0, rest
<1>7. SumFunctionOnSet(f, Withdraws \cup rest) =
        SumFunctionOnSet(f, Withdraws) + SumFunctionOnSet(f, rest)
  BY <1>2, <1>3, SumUnion
<1>8. SumFunctionOnSet(f, rest) = 0
  BY <1>2, <1>5, SumZero
<1>9. SumFunctionOnSet(f0, Withdraws) = SumFunctionOnSet(f, Withdraws)
      /\ SumFunctionOnSet(f, Withdraws) \in Nat
  <2>1. \A tx \in Withdraws : f[tx] \in Nat /\ f0[tx] = f[tx]
    BY <1>2, <1>3, <1>4
  <2> QED
    BY <1>2, <2>1, SumSame, SumNat
<1>10. WithdrawnAmount(t) = WithdrawnFrom(t, mined)
  BY <1>2, <1>6, <1>7, <1>8, <1>9
<1>11. CASE t = fee_token_id
  <2>1. \A tx \in mined : g0[tx] \in Int /\ g[tx] = g0[tx]
    BY <1>3, <1>11 DEF FeeOf
  <2>2. SumFunctionOnSet(g, mined) = SumFunctionOnSet(g0, mined)
    BY <2>1, SumSame
  <2> QED
    BY <1>6, <1>10, <1>11, <2>2
<1>12. CASE t # fee_token_id
  <2>1. \A tx \in mined : g[tx] = 0
    BY <1>3, <1>12 DEF FeeOf
  <2>2. SumFunctionOnSet(g, mined) = 0
    BY <2>1, SumZero
  <2> QED
    BY <1>6, <1>10, <1>12, <2>2
<1> QED
  BY <1>11, <1>12

LEMMA LedgerIs ==
  ASSUME NEW t, IsFiniteSet(mined), \A tx \in mined : WellFormed(tx)
  PROVE  LiveAmount(t) + WithdrawnAmount(t) + FeesPaid(t) = Ledger(t, mined)
<1>1. LiveAmount(t) = Amount(t, LiveIn(mined))
  BY LiveIs DEF LiveAmount, Amount, OfToken
<1> QED
  BY <1>1, WithdrawnIs DEF Ledger

\* Operations taken together move what can be spent and lose nothing.
LEMMA AddOperations ==
  ASSUME NEW t \in Tokens, NEW M, IsFiniteSet(M), \A tx \in M : WellFormed(tx),
         Spends(M) \subseteq Commitments(M),
         NEW B, IsFiniteSet(B),
         \A tx \in B : /\ Operation(tx) /\ tx \notin M
                       /\ Commitments({tx}) \cap Commitments(M) = {}
                       /\ Spends({tx}) \subseteq Commitments(M)
                       /\ Spends({tx}) \cap Spends(M) = {},
         \A tx, other \in B : tx # other =>
           /\ Commitments({tx}) \cap Commitments({other}) = {}
           /\ Spends({tx}) \cap Spends({other}) = {}
  PROVE  Ledger(t, M \cup B) = Ledger(t, M)
<1> DEFINE T == {s \in SUBSET B : Ledger(t, M \cup s) = Ledger(t, M)}
<1>1. {} \in T
  <2>1. M \cup {} = M
    OBVIOUS
  <2> QED
    BY <2>1
<1>2. ASSUME NEW s \in SUBSET B, NEW x \in B, s \in T, x \notin s
      PROVE  s \cup {x} \in T
  <2> DEFINE N == M \cup s
  <2>1. IsFiniteSet(N)
    BY FS_Subset, FS_Union
  <2>2. \A tx \in N : WellFormed(tx)
    BY DEF Operation
  <2>3. /\ Commitments(N) = Commitments(M) \cup Commitments(s)
        /\ Spends(N) = Spends(M) \cup Spends(s)
        /\ Kept(N) = Kept(M) \cup Kept(s)
    BY OfUnion
  <2>4. Spends(s) \subseteq Commitments(M)
    BY SpendsWithin
  <2>5. Commitments({x}) \cap Commitments(s) = {} /\ Spends({x}) \cap Spends(s) = {}
    <3>1. \A y \in s : Commitments({x}) \cap Commitments({y}) = {} /\ Spends({x}) \cap Spends({y}) = {}
      BY <1>2
    <3> QED
      BY <3>1, CommitmentsApart, SpendsApart
  <2>6. Spends({x}) \subseteq LiveIn(N)
    <3>1. \A h \in Spends({x}) : h[5] # contract_nf_address /\ h \in Commitments(M)
      BY DEF Operation
    <3> QED
      BY <2>3, <2>5, <3>1 DEF LiveIn, Kept
  <2>7. x \notin N /\ WellFormed(x)
    BY <1>2 DEF Operation
  <2>8. Commitments({x}) \cap (Commitments(N) \cup Spends(N)) = {}
    BY <2>3, <2>4, <2>5
  <2>9. NewTo(N, x)
    BY <2>6, <2>7, <2>8 DEF NewTo
  <2> HIDE DEF N
  <2>10. Ledger(t, N \cup {x}) =
           Ledger(t, N) + (Amount(t, Kept({x})) + WithdrawnBy(t, x) + FeeOf(t, x)
                             - Amount(t, Spends({x})))
    BY <2>1, <2>2, <2>9, AddTx
  <2>11. /\ Amount(t, Kept({x})) + WithdrawnBy(t, x) + FeeOf(t, x) = Amount(t, Spends({x}))
         /\ Amount(t, Kept({x})) \in Nat /\ Amount(t, Spends({x})) \in Nat
         /\ WithdrawnBy(t, x) \in Nat /\ FeeOf(t, x) \in Nat /\ Ledger(t, N) \in Nat
    <3>1. Amount(t, Kept({x})) \in Nat /\ Amount(t, Spends({x})) \in Nat
      BY <2>1, <2>2, <2>9, AddToLive
    <3>2. WithdrawnBy(t, x) \in Nat /\ FeeOf(t, x) \in Nat
      BY <2>7, PaysAre
    <3>3. Ledger(t, N) \in Nat
      BY <2>1, <2>2, LedgerTypes
    <3> QED
      BY <3>1, <3>2, <3>3 DEF Operation
  <2>12. Ledger(t, N \cup {x}) = Ledger(t, N)
    BY <2>10, <2>11
  <2>13. N \cup {x} = M \cup (s \cup {x})
    BY DEF N
  <2>14. Ledger(t, N) = Ledger(t, M)
    BY <1>2 DEF N
  <2>15. Ledger(t, M \cup (s \cup {x})) = Ledger(t, M)
    BY <2>12, <2>13, <2>14
  <2>16. s \cup {x} \in SUBSET B
    OBVIOUS
  <2> QED
    BY <2>15, <2>16
<1> HIDE DEF T
<1>3. SUBSET B \subseteq T
  BY <1>1, <1>2, SubsetInduction
<1>4. B \in T
  BY <1>3
<1> QED
  BY <1>4 DEF T

-----------------------------------------------------------------------------
(* The transaction of an operation *)

SharedWith(c) == Mul(<<"ephemeral", ops>>, zkp_public_key(c))

\* What a client sends to the proposers.
Sent(r, spend, tx) ==
  /\ tx.commitments = [i \in Slots |-> tx.commitments[i]]
  /\ tx.nullifiers = [i \in Slots |-> tx.nullifiers[i]]
  /\ tx.fee = r.fee
  /\ tx.commitments[1] =
       IF r.kind = "withdraw" THEN Zero
       ELSE poseidon_hash(r.token, SlotOf[r.token], r.value, zkp_public_key(r.to),
                          get_y(SharedWith(r.to)))
  /\ tx.commitments[2] =
       IF TokenChange(r, spend) = 0 THEN Zero
       ELSE poseidon_hash(r.token, SlotOf[r.token], TokenChange(r, spend),
                          zkp_public_key(r.client), TransferSalt(2))
  /\ tx.commitments[3] =
       IF r.fee = 0 THEN Zero
       ELSE poseidon_hash(fee_token_id, fee_token_id, r.fee, contract_nf_address, TransferSalt(3))
  /\ tx.commitments[4] =
       IF FeeChange(r, spend) = 0 THEN Zero
       ELSE poseidon_hash(fee_token_id, fee_token_id, FeeChange(r, spend),
                          zkp_public_key(r.client), TransferSalt(4))
  /\ \A i \in Slots :
       tx.nullifiers[i] = IF Filled(r, spend, i)
                          THEN NullifierOf(nullifier_key(r.client), Hash(spend[i])) ELSE Zero
  /\ tx.public_data =
       IF r.kind = "withdraw" THEN <<r.token, <<"address", r.to>>, r.value, Zero, Zero>>
       ELSE kemdem(<<"ephemeral", ops>>, SharedWith(r.to), <<r.token, SlotOf[r.token], r.value>>)

LEMMA KeysOfInputs ==
  ASSUME NEW r, NEW spend, r.kind \in {"transfer", "withdraw"},
         NEW in, in = Inputs(r, spend, new_commitments(r, spend))
  PROVE  /\ Mul(in.zkp_private_key, Generator) = zkp_public_key(r.client)
         /\ in.withdraw_address = IF r.kind = "withdraw" THEN <<"address", r.to>> ELSE Zero
         /\ WithdrawFlag(in) <=> r.kind = "withdraw"
         /\ r.kind = "transfer" => /\ in.ephemeral_key = <<"ephemeral", ops>>
                                   /\ in.recipient_public_key = zkp_public_key(r.to)
                                   /\ SharedSecret(in) = SharedWith(r.to)
<1> DEFINE new == new_commitments(r, spend)
<1>1. /\ in.zkp_private_key = zkp_private_key(r.client)
      /\ in.ephemeral_key = ephemeral_key(r)
      /\ in.withdraw_address = WithdrawAddress(r)
      /\ in.recipient_public_key = IF r.kind = "withdraw" THEN Neutral ELSE new[1].public_key
  BY DEF Inputs
<1>2. new[1] = new_commitment_one(r, spend)
  BY DEF new_commitments
<1> HIDE DEF new
<1>3. Mul(in.zkp_private_key, Generator) = zkp_public_key(r.client)
  BY <1>1 DEF zkp_public_key
<1>4. in.withdraw_address = IF r.kind = "withdraw" THEN <<"address", r.to>> ELSE Zero
  BY <1>1 DEF WithdrawAddress
<1>5. <<"address", r.to>> # Zero
  BY DEF Zero
<1>6. WithdrawFlag(in) <=> r.kind = "withdraw"
  BY <1>4, <1>5 DEF WithdrawFlag
<1>7. ASSUME r.kind = "transfer"
      PROVE  /\ in.ephemeral_key = <<"ephemeral", ops>>
             /\ in.recipient_public_key = zkp_public_key(r.to)
  <2>1. r.kind # "withdraw"
    BY <1>7
  <2>2. in.ephemeral_key = <<"ephemeral", ops>>
    BY <1>1, <2>1 DEF ephemeral_key
  <2>3. new[1] = Preimage(r.value, r.token, spend[1].nf_slot_id, zkp_public_key(r.to),
                          get_y(Mul(ephemeral_key(r), zkp_public_key(r.to))))
    BY <1>2, <2>1 DEF new_commitment_one
  <2>4. new[1].public_key = zkp_public_key(r.to)
    BY <2>3, PreimageIs
  <2> QED
    BY <1>1, <2>1, <2>2, <2>4
<1>8. r.kind = "transfer" => SharedSecret(in) = SharedWith(r.to)
  BY <1>7 DEF SharedSecret, SharedWith
<1> QED
  BY <1>3, <1>4, <1>6, <1>7, <1>8

LEMMA SentTx ==
  ASSUME NEW r \in Requests, r.kind \in {"transfer", "withdraw"}, NEW spend, SlotsFit(r, spend),
         NEW tx, tx = PublicInputs(Inputs(r, spend, new_commitments(r, spend)))
  PROVE  Sent(r, spend, tx)
<1> DEFINE new == new_commitments(r, spend)
           in == Inputs(r, spend, new)
           com == verify_commitments(in, SharedSecret(in))
<1>1. /\ tx.fee = in.fee /\ tx.commitments = com /\ tx.nullifiers = nullifiers(in)
      /\ tx.public_data = verify_encryption(in, SharedSecret(in))
  BY DEF PublicInputs
<1> HIDE DEF new, in
<1>2. /\ in.commitments_values = <<TokenChange(r, spend), FeeChange(r, spend)>>
      /\ in.commitments_salts = <<new[2].salt, new[3].salt, new[4].salt>>
      /\ in.fee = r.fee /\ in.value = r.value
      /\ in.nf_token_id = spend[1].nf_token_id /\ in.nf_slot_id = spend[1].nf_slot_id
      /\ in.nullifier_key = nullifier_key(r.client)
      /\ new[2].value = TokenChange(r, spend) /\ new[3].value = r.fee
      /\ new[4].value = FeeChange(r, spend)
      /\ \A i \in 2 .. 4 : new[i].value # 0 => new[i].salt = TransferSalt(i)
      /\ \A i \in Slots : in.nullifiers_values[i] = spend[i].value
                          /\ in.nullifiers_salts[i] = spend[i].salt
                          /\ in.public_keys[i] = spend[i].public_key
  BY InputsAre DEF in, new
<1>3. /\ in.nf_token_id = r.token /\ in.nf_slot_id = SlotOf[r.token]
      /\ SlotOf[fee_token_id] = fee_token_id
  <2>1. Filled(r, spend, 1)
    BY DEF SlotsFit, Slots
  <2> QED
    BY <1>2, <2>1, LedgerAssumption DEF Filled, Owned, SlotToken
<1>4. /\ Mul(in.zkp_private_key, Generator) = zkp_public_key(r.client)
      /\ in.withdraw_address = IF r.kind = "withdraw" THEN <<"address", r.to>> ELSE Zero
      /\ WithdrawFlag(in) <=> r.kind = "withdraw"
      /\ r.kind = "transfer" => /\ in.ephemeral_key = <<"ephemeral", ops>>
                                /\ in.recipient_public_key = zkp_public_key(r.to)
                                /\ SharedSecret(in) = SharedWith(r.to)
  BY KeysOfInputs DEF in, new
<1>5. 2 \in 2 .. 4 /\ 3 \in 2 .. 4 /\ 4 \in 2 .. 4
  OBVIOUS
<1>6. /\ in.commitments_values[1] = TokenChange(r, spend)
      /\ in.commitments_values[2] = FeeChange(r, spend)
      /\ TokenChange(r, spend) # 0 => in.commitments_salts[1] = TransferSalt(2)
      /\ r.fee # 0 => in.commitments_salts[2] = TransferSalt(3)
      /\ FeeChange(r, spend) # 0 => in.commitments_salts[3] = TransferSalt(4)
  BY <1>2, <1>5
<1>7. com = [i \in Slots |-> com[i]] /\ nullifiers(in) = [i \in Slots |-> nullifiers(in)[i]]
  BY DEF verify_commitments, nullifiers
<1>8. com[1] = IF r.kind = "withdraw" THEN Zero
               ELSE poseidon_hash(r.token, SlotOf[r.token], r.value, zkp_public_key(r.to),
                                  get_y(SharedWith(r.to)))
  <2>1. com[1] = IF WithdrawFlag(in) THEN Zero
                 ELSE poseidon_hash(in.nf_token_id, in.nf_slot_id, in.value,
                                    in.recipient_public_key, get_y(SharedSecret(in)))
    BY DEF verify_commitments, Slots
  <2> HIDE DEF com
  <2> QED
    BY <1>2, <1>3, <1>4, <2>1
<1>9. com[2] = IF TokenChange(r, spend) = 0 THEN Zero
               ELSE poseidon_hash(r.token, SlotOf[r.token], TokenChange(r, spend),
                                  zkp_public_key(r.client), TransferSalt(2))
  <2>1. com[2] = IF in.commitments_values[1] = 0 THEN Zero
                 ELSE poseidon_hash(in.nf_token_id, in.nf_slot_id, in.commitments_values[1],
                                    Mul(in.zkp_private_key, Generator), in.commitments_salts[1])
    BY DEF verify_commitments, Slots
  <2> HIDE DEF com
  <2> QED
    BY <1>3, <1>4, <1>6, <2>1
<1>10. com[3] = IF r.fee = 0 THEN Zero
                ELSE poseidon_hash(fee_token_id, fee_token_id, r.fee, contract_nf_address,
                                   TransferSalt(3))
  <2>1. com[3] = IF in.fee = 0 THEN Zero
                 ELSE poseidon_hash(fee_token_id, fee_token_id, in.fee, contract_nf_address,
                                    in.commitments_salts[2])
    BY DEF verify_commitments, Slots
  <2> HIDE DEF com
  <2> QED
    BY <1>2, <1>6, <2>1
<1>11. com[4] = IF FeeChange(r, spend) = 0 THEN Zero
                ELSE poseidon_hash(fee_token_id, fee_token_id, FeeChange(r, spend),
                                   zkp_public_key(r.client), TransferSalt(4))
  <2>1. com[4] = IF in.commitments_values[2] = 0 THEN Zero
                 ELSE poseidon_hash(fee_token_id, fee_token_id, in.commitments_values[2],
                                    Mul(in.zkp_private_key, Generator), in.commitments_salts[3])
    BY DEF verify_commitments, Slots
  <2> HIDE DEF com
  <2> QED
    BY <1>4, <1>6, <2>1
<1>12. ASSUME NEW i \in Slots
       PROVE  nullifiers(in)[i] = IF Filled(r, spend, i)
                THEN NullifierOf(nullifier_key(r.client), Hash(spend[i])) ELSE Zero
  <2>1. nullifiers(in)[i] = IF IsPlaceholder(in, i) THEN Zero
                            ELSE NullifierOf(in.nullifier_key, SpentHash(in, i))
    BY DEF nullifiers
  <2>2. CASE Filled(r, spend, i)
    <3>1. ~ IsPlaceholder(in, i)
      BY <1>2, <2>2 DEF Filled, Owned, IsPlaceholder
    <3>2. spend[i].nf_token_id = SlotToken(r, i) /\ spend[i].nf_slot_id = SlotOf[SlotToken(r, i)]
      BY <2>2 DEF Filled, Owned
    <3>3. SpentHash(in, i) = Hash(spend[i])
      BY <1>2, <1>3, <3>2 DEF SpentHash, Hash, SlotToken
    <3> QED
      BY <1>2, <2>1, <2>2, <3>1, <3>3
  <2>3. CASE ~ Filled(r, spend, i)
    <3>1. i # 1 /\ spend[i].value = 0
      BY <2>3, DefaultIs DEF SlotsFit
    <3>2. IsPlaceholder(in, i)
      BY <1>2, <3>1 DEF IsPlaceholder
    <3> QED
      BY <2>1, <2>3, <3>2
  <2> QED
    BY <2>2, <2>3
<1>13. tx.public_data =
         IF r.kind = "withdraw" THEN <<r.token, <<"address", r.to>>, r.value, Zero, Zero>>
         ELSE kemdem(<<"ephemeral", ops>>, SharedWith(r.to), <<r.token, SlotOf[r.token], r.value>>)
  BY <1>1, <1>2, <1>3, <1>4 DEF verify_encryption
<1> HIDE DEF com
<1> QED
  BY <1>1, <1>2, <1>7, <1>8, <1>9, <1>10, <1>11, <1>12, <1>13 DEF Sent

\* A sum over some of the slots, slot by slot.
LEMMA SlotSum ==
  ASSUME NEW t, NEW com, NEW K \in SUBSET Slots, \A i \in K : IsHash(com[i]),
         \A i, j \in K : com[i] = com[j] => i = j,
         NEW a, \A i \in Slots : a[i] = IF i \in K THEN OfToken(t, com[i]) ELSE 0
  PROVE  /\ Amount(t, {com[i] : i \in K}) = a[1] + a[2] + a[3] + a[4]
         /\ \A i \in Slots : a[i] \in Nat
<1> DEFINE H == {com[i] : i \in K}
           f == [h \in H |-> OfToken(t, h)]
<1>1. IsFiniteSet(K) /\ IsFiniteSet(Slots \ K) /\ IsFiniteSet(Slots)
  BY SlotsAreFinite, FS_Subset
<1>2. \A i \in Slots : a[i] \in Nat
  BY DEF OfToken, IsHash
<1>3. \A i \in K : com[i] \in H /\ a[i] = f[com[i]] /\ a[i] \in Int
  BY <1>2
<1>4. \A h \in H : f[h] = OfToken(t, h) /\ IsHash(h)
  OBVIOUS
<1> HIDE DEF f
<1>5. IsFiniteSet({com[i] : i \in K}) /\ SumFunctionOnSet(f, {com[i] : i \in K}) = SumFunctionOnSet(a, K)
  BY <1>1, <1>3, SumReindex
<1>6. Amount(t, H) = SumFunctionOnSet(a, K)
  <2> HIDE DEF H
  <2>1. IsFiniteSet(H) /\ SumFunctionOnSet(f, H) = SumFunctionOnSet(a, K)
    BY <1>5 DEF H
  <2>2. SumFunctionOnSet(f, H) = Amount(t, H)
    BY <1>4, <2>1, AmountIs
  <2> QED
    BY <2>1, <2>2
<1>7. SumFunctionOnSet(a, Slots) = SumFunctionOnSet(a, K)
  <2>1. K \cup (Slots \ K) = Slots /\ K \cap (Slots \ K) = {}
    OBVIOUS
  <2>2. \A i \in K \cup (Slots \ K) : a[i] \in Int
    BY <1>2
  <2>3. SumFunctionOnSet(a, K \cup (Slots \ K)) = SumFunctionOnSet(a, K) + SumFunctionOnSet(a, Slots \ K)
    BY <1>1, <2>1, <2>2, SumUnion
  <2>4. \A i \in Slots \ K : a[i] = 0
    OBVIOUS
  <2>5. SumFunctionOnSet(a, Slots \ K) = 0
    BY <1>1, <2>4, SumZero
  <2>6. SumFunctionOnSet(a, K) \in Int
    <3>1. \A i \in K : a[i] \in Int
      BY <1>3
    <3> QED
      BY <1>1, <3>1, SumPick
  <2>7. SumFunctionOnSet(a, Slots) = SumFunctionOnSet(a, K) + SumFunctionOnSet(a, Slots \ K)
    BY <2>1, <2>3, Zenon
  <2> QED
    BY <2>5, <2>6, <2>7
<1>8. SumFunctionOnSet(a, Slots) = a[1] + a[2] + a[3] + a[4]
  <2>1. 1 \in Slots /\ 2 \in Slots /\ 3 \in Slots /\ 4 \in Slots
    BY DEF Slots
  <2>2. a[1] \in Int /\ a[2] \in Int /\ a[3] \in Int /\ a[4] \in Int
    BY <1>2, <2>1
  <2>3. SumFunctionOnSet(a, {}) = 0
    BY SumEmpty
  <2>4. IsFiniteSet({}) /\ IsFiniteSet({1}) /\ IsFiniteSet({1, 2}) /\ IsFiniteSet({1, 2, 3})
    <3>1. {} \cup {1} = {1} /\ {1} \cup {2} = {1, 2} /\ {1, 2} \cup {3} = {1, 2, 3}
      OBVIOUS
    <3> QED
      BY <3>1, FS_EmptySet, FS_AddElement
  <2>5. SumFunctionOnSet(a, {} \cup {1}) = SumFunctionOnSet(a, {}) + a[1]
    BY <2>2, <2>4, SumAdd
  <2>6. SumFunctionOnSet(a, {1} \cup {2}) = SumFunctionOnSet(a, {1}) + a[2]
    <3>1. 2 \notin {1} /\ \A y \in {1} : a[y] \in Int
      BY <2>2
    <3> QED
      BY <2>2, <2>4, <3>1, SumAdd
  <2>7. SumFunctionOnSet(a, {1, 2} \cup {3}) = SumFunctionOnSet(a, {1, 2}) + a[3]
    <3>1. 3 \notin {1, 2} /\ \A y \in {1, 2} : a[y] \in Int
      BY <2>2
    <3> QED
      BY <2>2, <2>4, <3>1, SumAdd
  <2>8. SumFunctionOnSet(a, {1, 2, 3} \cup {4}) = SumFunctionOnSet(a, {1, 2, 3}) + a[4]
    <3>1. 4 \notin {1, 2, 3} /\ \A y \in {1, 2, 3} : a[y] \in Int
      BY <2>2
    <3> QED
      BY <2>2, <2>4, <3>1, SumAdd
  <2>9. {} \cup {1} = {1} /\ {1} \cup {2} = {1, 2} /\ {1, 2} \cup {3} = {1, 2, 3}
        /\ {1, 2, 3} \cup {4} = Slots
    BY DEF Slots
  <2>10. /\ SumFunctionOnSet(a, {1}) = SumFunctionOnSet(a, {}) + a[1]
         /\ SumFunctionOnSet(a, {1, 2}) = SumFunctionOnSet(a, {1}) + a[2]
         /\ SumFunctionOnSet(a, {1, 2, 3}) = SumFunctionOnSet(a, {1, 2}) + a[3]
         /\ SumFunctionOnSet(a, Slots) = SumFunctionOnSet(a, {1, 2, 3}) + a[4]
    BY <2>5, <2>6, <2>7, <2>8, <2>9, Zenon
  <2> QED
    BY <2>2, <2>3, <2>10
<1> QED
  BY <1>2, <1>6, <1>7, <1>8

Part(t, token, v) == IF token = t THEN v ELSE 0

LEMMA FourSlots ==
  \A i \in Slots : i = 1 \/ i = 2 \/ i = 3 \/ i = 4
BY DEF Slots

\* The salt of a slot's commitment, and what it holds.
LEMMA SentCommitments ==
  ASSUME NEW r \in Requests, r.kind \in {"transfer", "withdraw"}, NEW spend, NEW tx,
         Sent(r, spend, tx), ops \in Nat,
         TokenChange(r, spend) \in Nat, FeeChange(r, spend) \in Nat
  PROVE  \A i \in Slots : tx.commitments[i] # Zero =>
           /\ IsHash(tx.commitments[i])
           /\ SaltOf(ops, tx.commitments[i][6])
           /\ tx.commitments[i][5] = contract_nf_address <=> i = 3
<1>1. /\ r.token \in Tokens /\ r.value \in Nat /\ r.fee \in Nat /\ r.to \in Clients
      /\ fee_token_id \in Tokens
  BY LedgerAssumption
<1>2. ASSUME tx.commitments[1] # Zero
      PROVE  /\ IsHash(tx.commitments[1]) /\ SaltOf(ops, tx.commitments[1][6])
             /\ tx.commitments[1][5] # contract_nf_address
  <2>1. tx.commitments[1] = poseidon_hash(r.token, SlotOf[r.token], r.value, zkp_public_key(r.to),
                                          get_y(SharedWith(r.to)))
    BY <1>2 DEF Sent
  <2>2. SaltOf(ops, get_y(SharedWith(r.to)))
    BY <1>1 DEF SaltOf, SharedWith
  <2> QED
    BY <1>1, <2>1, <2>2, HashIs, KeyIsNotTheContracts DEF IsHash
<1>3. \A i \in 1 .. 4 : SaltOf(ops, TransferSalt(i))
  BY DEF SaltOf, TransferSalt
<1>4. ASSUME tx.commitments[2] # Zero
      PROVE  /\ IsHash(tx.commitments[2]) /\ SaltOf(ops, tx.commitments[2][6])
             /\ tx.commitments[2][5] # contract_nf_address
  <2>1. tx.commitments[2] = poseidon_hash(r.token, SlotOf[r.token], TokenChange(r, spend),
                                          zkp_public_key(r.client), TransferSalt(2))
    BY <1>4 DEF Sent
  <2> QED
    BY <1>1, <1>3, <2>1, HashIs, KeyIsNotTheContracts DEF IsHash
<1>5. ASSUME tx.commitments[3] # Zero
      PROVE  /\ IsHash(tx.commitments[3]) /\ SaltOf(ops, tx.commitments[3][6])
             /\ tx.commitments[3][5] = contract_nf_address
  <2>1. tx.commitments[3] = poseidon_hash(fee_token_id, fee_token_id, r.fee, contract_nf_address,
                                          TransferSalt(3))
    BY <1>5 DEF Sent
  <2> QED
    BY <1>1, <1>3, <2>1, HashIs DEF IsHash
<1>6. ASSUME tx.commitments[4] # Zero
      PROVE  /\ IsHash(tx.commitments[4]) /\ SaltOf(ops, tx.commitments[4][6])
             /\ tx.commitments[4][5] # contract_nf_address
  <2>1. tx.commitments[4] = poseidon_hash(fee_token_id, fee_token_id, FeeChange(r, spend),
                                          zkp_public_key(r.client), TransferSalt(4))
    BY <1>6 DEF Sent
  <2> QED
    BY <1>1, <1>3, <2>1, HashIs, KeyIsNotTheContracts DEF IsHash
<1> QED
  BY <1>2, <1>4, <1>5, <1>6, FourSlots

LEMMA SentIsFormed ==
  ASSUME NEW r \in Requests, r.kind \in {"transfer", "withdraw"}, NEW spend, SlotsFit(r, spend),
         NEW tx, Sent(r, spend, tx), ops \in Nat,
         TokenChange(r, spend) \in Nat, FeeChange(r, spend) \in Nat
  PROVE  /\ WellFormed(tx)
         /\ tx.nullifiers[1] # Zero
         /\ IsWithdraw(tx) <=> r.kind = "withdraw"
         /\ IsWithdraw(tx) => WithdrawData(tx) = Claim(r, spend)
         /\ IsWithdraw(tx) => tx.public_data[1] = r.token /\ tx.public_data[3] = r.value
<1>1. r.client \in Clients /\ r.value \in Nat /\ r.fee \in Nat
  BY LedgerAssumption
<1>2. Filled(r, spend, 1)
  BY DEF SlotsFit, Slots
<1>3. tx.nullifiers[1] = nullifier_hash(spend[1], nullifier_key(r.client)) /\ tx.nullifiers[1] # Zero
  <2>1. tx.nullifiers[1] = NullifierOf(nullifier_key(r.client), Hash(spend[1]))
    BY <1>2 DEF Sent, Slots
  <2> QED
    BY <2>1, NullifiersDiffer DEF nullifier_hash
<1>4. IsWithdraw(tx) <=> r.kind = "withdraw"
  <2>1. r.kind # "withdraw" => tx.commitments[1] # Zero
    BY HashIsNotZero DEF Sent
  <2>2. r.kind = "withdraw" => tx.commitments[1] = Zero
    BY DEF Sent
  <2> QED
    BY <1>3, <2>1, <2>2 DEF IsWithdraw
<1>5. ASSUME r.kind = "withdraw"
      PROVE  /\ tx.public_data[1] = r.token /\ tx.public_data[2] = <<"address", r.to>>
             /\ tx.public_data[3] = r.value
  <2>1. tx.public_data = <<r.token, <<"address", r.to>>, r.value, Zero, Zero>>
    BY <1>5 DEF Sent
  <2> QED
    BY <2>1
<1>6. IsWithdraw(tx) => WithdrawData(tx) = Claim(r, spend)
  BY <1>3, <1>4, <1>5 DEF WithdrawData, Claim, WithdrawAddress
<1>7. \A i \in Slots : tx.nullifiers[i] # Zero => IsNullifier(tx.nullifiers[i])
  <2> SUFFICES ASSUME NEW i \in Slots, tx.nullifiers[i] # Zero
               PROVE  IsNullifier(tx.nullifiers[i])
    OBVIOUS
  <2>1. tx.nullifiers[i] = NullifierOf(nullifier_key(r.client), Hash(spend[i]))
    BY DEF Sent
  <2>2. tx.nullifiers[i][3] = Hash(spend[i])
    BY <2>1 DEF NullifierOf
  <2> QED
    BY <1>1, <2>1, <2>2 DEF IsNullifier
<1>8. \A i \in Slots : tx.commitments[i] # Zero => IsHash(tx.commitments[i])
  BY SentCommitments
<1>9. WellFormed(tx)
  BY <1>1, <1>4, <1>5, <1>7, <1>8 DEF WellFormed, Sent
<1> QED
  BY <1>3, <1>4, <1>5, <1>6, <1>9

\* What an operation spends are the commitments in its filled slots.
LEMMA SentSpends ==
  ASSUME NEW r, NEW spend, NEW tx, WellFormed(tx), Sent(r, spend, tx)
  PROVE  Spends({tx}) = {Hash(spend[i]) : i \in {i \in Slots : Filled(r, spend, i)}}
<1> DEFINE K == {i \in Slots : Filled(r, spend, i)}
<1>1. \A n : n \in Nullifiers({tx}) <=> n # Zero /\ \E i \in Slots : n = tx.nullifiers[i]
  <2>1. \A y \in {tx} : WellFormed(y)
    OBVIOUS
  <2>2. \A n : n \in Nullifiers({tx}) <=>
               n # Zero /\ \E y \in {tx} : \E i \in Slots : n = y.nullifiers[i]
    BY <2>1, CommitmentsAre
  <2> QED
    BY <2>2
<1>2. \A i \in Slots : tx.nullifiers[i] # Zero <=> i \in K
  BY NullifiersDiffer DEF Sent
<1>3. \A i \in K : tx.nullifiers[i][3] = Hash(spend[i])
  <2> SUFFICES ASSUME NEW i \in K PROVE tx.nullifiers[i][3] = Hash(spend[i])
    OBVIOUS
  <2>1. tx.nullifiers[i] = NullifierOf(nullifier_key(r.client), Hash(spend[i]))
    BY DEF Sent
  <2> QED
    BY <2>1 DEF NullifierOf
<1>4. ASSUME NEW h \in Spends({tx}) PROVE \E i \in K : h = Hash(spend[i])
  <2>1. PICK n \in Nullifiers({tx}) : h = n[3]
    BY DEF Spends
  <2>2. PICK i \in Slots : n = tx.nullifiers[i] /\ n # Zero
    BY <1>1
  <2> QED
    BY <1>2, <1>3, <2>1, <2>2
<1>5. ASSUME NEW i \in K PROVE Hash(spend[i]) \in Spends({tx})
  <2>1. tx.nullifiers[i] \in Nullifiers({tx})
    BY <1>1, <1>2
  <2>2. tx.nullifiers[i][3] \in Spends({tx})
    BY <2>1 DEF Spends
  <2> QED
    BY <1>3, <2>2
<1> HIDE DEF K
<1>6. Spends({tx}) = {Hash(spend[i]) : i \in K}
  BY <1>4, <1>5
<1> QED
  BY <1>6 DEF K

LEMMA SentKept ==
  ASSUME NEW tx, WellFormed(tx),
         \A i \in Slots : tx.commitments[i] # Zero =>
           (tx.commitments[i][5] = contract_nf_address <=> i = 3)
  PROVE  Kept({tx}) = {tx.commitments[i] : i \in {i \in {1, 2, 4} : tx.commitments[i] # Zero}}
<1>1. \A h : h \in Commitments({tx}) <=> h # Zero /\ \E i \in Slots : h = tx.commitments[i]
  <2>1. \A y \in {tx} : WellFormed(y)
    OBVIOUS
  <2>2. \A h : h \in Commitments({tx}) <=>
               h # Zero /\ \E y \in {tx} : \E i \in Slots : h = y.commitments[i]
    BY <2>1, CommitmentsAre
  <2> QED
    BY <2>2
<1>2. \A i : i \in {1, 2, 4} <=> i \in Slots /\ i # 3
  BY DEF Slots
<1> QED
  BY <1>1, <1>2 DEF Kept

\* What an operation spends is what it leaves, withdraws and pays.
LEMMA SentBalances ==
  ASSUME NEW r \in Requests, r.kind \in {"transfer", "withdraw"}, NEW spend, SlotsFit(r, spend),
         NEW tx, Sent(r, spend, tx), ops \in Nat,
         TokenChange(r, spend) \in Nat, FeeChange(r, spend) \in Nat, NEW t \in Tokens
  PROVE  /\ \A h \in Spends({tx}) : IsHash(h) /\ h[5] # contract_nf_address
         /\ Amount(t, Kept({tx})) + WithdrawnBy(t, tx) + FeeOf(t, tx) = Amount(t, Spends({tx}))
<1> DEFINE com == tx.commitments
           K == {i \in {1, 2, 4} : com[i] # Zero}
           a == [i \in Slots |-> IF i \in K THEN OfToken(t, com[i]) ELSE 0]
           F == {i \in Slots : Filled(r, spend, i)}
           hash == [i \in Slots |-> Hash(spend[i])]
           b == [i \in Slots |-> IF i \in F THEN OfToken(t, hash[i]) ELSE 0]
<1>1. r.token \in Tokens /\ r.value \in Nat /\ r.fee \in Nat
  BY LedgerAssumption
<1>2. /\ WellFormed(tx) /\ (IsWithdraw(tx) <=> r.kind = "withdraw")
      /\ IsWithdraw(tx) => tx.public_data[1] = r.token /\ tx.public_data[3] = r.value
  BY SentIsFormed
<1>3. \A i \in Slots : com[i] # Zero =>
        IsHash(com[i]) /\ (com[i][5] = contract_nf_address <=> i = 3)
  BY SentCommitments
<1>4. /\ com[1] = IF r.kind = "withdraw" THEN Zero
                  ELSE poseidon_hash(r.token, SlotOf[r.token], r.value, zkp_public_key(r.to),
                                     get_y(SharedWith(r.to)))
      /\ com[2] = IF TokenChange(r, spend) = 0 THEN Zero
                  ELSE poseidon_hash(r.token, SlotOf[r.token], TokenChange(r, spend),
                                     zkp_public_key(r.client), TransferSalt(2))
      /\ com[4] = IF FeeChange(r, spend) = 0 THEN Zero
                  ELSE poseidon_hash(fee_token_id, fee_token_id, FeeChange(r, spend),
                                     zkp_public_key(r.client), TransferSalt(4))
      /\ tx.fee = r.fee
  BY DEF Sent
<1> HIDE DEF com
<1>5. K \in SUBSET Slots
  BY DEF Slots
<1>6. \A i \in K : IsHash(com[i])
  BY <1>3, <1>5
<1>7. \A i, j \in K : com[i] = com[j] => i = j
  <2>1. com[1] # Zero => com[1][6] = get_y(SharedWith(r.to))
    BY <1>4, SaltOfHash
  <2>2. com[2] # Zero => com[2][6] = TransferSalt(2)
    BY <1>4, SaltOfHash
  <2>3. com[4] # Zero => com[4][6] = TransferSalt(4)
    BY <1>4, SaltOfHash
  <2>4. /\ TransferSalt(2) # TransferSalt(4)
        /\ TransferSalt(2) # get_y(SharedWith(r.to)) /\ TransferSalt(4) # get_y(SharedWith(r.to))
    BY SaltsDiffer
  <2> QED
    BY <2>1, <2>2, <2>3, <2>4
<1>8. \A i \in Slots : a[i] = IF i \in K THEN OfToken(t, com[i]) ELSE 0
  OBVIOUS
<1>9. a[1] = IF r.kind = "withdraw" THEN 0 ELSE Part(t, r.token, r.value)
  <2>1. CASE r.kind = "withdraw"
    BY <1>4, <1>8, <2>1 DEF Slots
  <2>2. CASE r.kind # "withdraw"
    <3>1. /\ com[1] = poseidon_hash(r.token, SlotOf[r.token], r.value, zkp_public_key(r.to),
                                    get_y(SharedWith(r.to)))
          /\ com[1] # Zero
      BY <1>4, <2>2, HashIsNotZero
    <3>2. com[1][2] = r.token /\ com[1][4] = r.value
      BY <3>1, HashIs
    <3>3. a[1] = OfToken(t, com[1])
      BY <3>1 DEF Slots
    <3> HIDE DEF a
    <3> QED
      BY <2>2, <3>2, <3>3 DEF OfToken, Part
  <2> QED
    BY <2>1, <2>2
<1>10. a[2] = Part(t, r.token, TokenChange(r, spend))
  <2>1. CASE TokenChange(r, spend) = 0
    BY <1>4, <1>8, <2>1 DEF Slots, Part
  <2>2. CASE TokenChange(r, spend) # 0
    <3>1. /\ com[2] = poseidon_hash(r.token, SlotOf[r.token], TokenChange(r, spend),
                                    zkp_public_key(r.client), TransferSalt(2))
          /\ com[2] # Zero
      BY <1>4, <2>2, HashIsNotZero
    <3>2. com[2][2] = r.token /\ com[2][4] = TokenChange(r, spend)
      BY <3>1, HashIs
    <3>3. a[2] = OfToken(t, com[2])
      BY <3>1 DEF Slots
    <3> HIDE DEF a
    <3> QED
      BY <3>2, <3>3 DEF OfToken, Part
  <2> QED
    BY <2>1, <2>2
<1>11. a[3] = 0
  BY <1>8 DEF Slots
<1>12. a[4] = Part(t, fee_token_id, FeeChange(r, spend))
  <2>1. CASE FeeChange(r, spend) = 0
    BY <1>4, <1>8, <2>1 DEF Slots, Part
  <2>2. CASE FeeChange(r, spend) # 0
    <3>1. /\ com[4] = poseidon_hash(fee_token_id, fee_token_id, FeeChange(r, spend),
                                    zkp_public_key(r.client), TransferSalt(4))
          /\ com[4] # Zero
      BY <1>4, <2>2, HashIsNotZero
    <3>2. com[4][2] = fee_token_id /\ com[4][4] = FeeChange(r, spend)
      BY <3>1, HashIs
    <3>3. a[4] = OfToken(t, com[4])
      BY <3>1 DEF Slots
    <3> HIDE DEF a
    <3> QED
      BY <3>2, <3>3 DEF OfToken, Part
  <2> QED
    BY <2>1, <2>2
<1>13. Amount(t, Kept({tx})) = a[1] + a[2] + a[3] + a[4]
  <2>1. Kept({tx}) = {com[i] : i \in K}
    BY <1>2, <1>3, SentKept DEF com
  <2> DEFINE e == [i \in Slots |-> com[i]]
  <2>2. \A i \in K : e[i] = com[i]
    BY <1>5
  <2> HIDE DEF K, a, e
  <2>3. \A i \in K : IsHash(e[i])
    BY <1>6, <2>2
  <2>4. \A i, j \in K : e[i] = e[j] => i = j
    BY <1>7, <2>2
  <2>5. \A i \in Slots : a[i] = IF i \in K THEN OfToken(t, e[i]) ELSE 0
    BY <1>8, <2>2
  <2>6. Amount(t, {e[i] : i \in K}) = a[1] + a[2] + a[3] + a[4]
    BY <1>5, <2>3, <2>4, <2>5, SlotSum
  <2> QED
    BY <2>1, <2>2, <2>6
<1>14. \A i \in Slots :
         b[i] = Part(t, SlotToken(r, i), spend[i].value) /\ spend[i].value \in Nat
  <2> SUFFICES ASSUME NEW i \in Slots
               PROVE  b[i] = Part(t, SlotToken(r, i), spend[i].value) /\ spend[i].value \in Nat
    OBVIOUS
  <2>1. CASE Filled(r, spend, i)
    <3>1. b[i] = OfToken(t, Hash(spend[i]))
      BY <2>1
    <3>2. Hash(spend[i])[2] = spend[i].nf_token_id /\ Hash(spend[i])[4] = spend[i].value
      BY HashIs DEF Hash
    <3>3. spend[i].nf_token_id = SlotToken(r, i) /\ spend[i].value \in Nat
      BY <2>1 DEF Filled, Owned
    <3> HIDE DEF b
    <3> QED
      BY <3>1, <3>2, <3>3 DEF OfToken, Part
  <2>2. CASE ~ Filled(r, spend, i)
    <3>1. spend[i].value = 0
      BY <2>2, DefaultIs DEF SlotsFit
    <3> QED
      BY <2>2, <3>1 DEF Part
  <2> QED
    BY <2>1, <2>2
<1>15. \A i \in F : IsHash(hash[i]) /\ hash[i][5] # contract_nf_address
  <2> SUFFICES ASSUME NEW i \in F PROVE IsHash(hash[i]) /\ hash[i][5] # contract_nf_address
    OBVIOUS
  <2>1. Owned(r.client, spend[i])
    BY DEF Filled
  <2>2. hash[i] = Hash(spend[i])
    OBVIOUS
  <2>3. /\ hash[i] = poseidon_hash(hash[i][2], hash[i][3], hash[i][4], hash[i][5], hash[i][6])
        /\ hash[i][2] = spend[i].nf_token_id /\ hash[i][4] = spend[i].value
        /\ hash[i][5] = spend[i].public_key
    BY <2>2, HashIs DEF Hash
  <2> HIDE DEF hash
  <2>4. IsHash(hash[i])
    BY <2>1, <2>3 DEF IsHash, Owned
  <2>5. hash[i][5] # contract_nf_address
    BY <2>1, <2>3, KeyIsNotTheContracts DEF Owned
  <2> QED
    BY <2>4, <2>5
<1>16. \A i, j \in F : hash[i] = hash[j] => i = j
  <2> SUFFICES ASSUME NEW i \in F, NEW j \in F, Hash(spend[i]) = Hash(spend[j]) PROVE i = j
    OBVIOUS
  <2>1. Owned(r.client, spend[i]) /\ Owned(r.client, spend[j])
    BY DEF Filled
  <2>2. spend[i] = spend[j]
    BY <2>1, OwnedByHash
  <2> QED
    BY <2>2 DEF Filled
<1>17. Spends({tx}) = {hash[i] : i \in F}
  <2>1. Spends({tx}) = {Hash(spend[i]) : i \in F}
    BY <1>2, SentSpends
  <2> QED
    BY <2>1
<1>18. Amount(t, Spends({tx})) = b[1] + b[2] + b[3] + b[4]
  <2>1. F \in SUBSET Slots /\ \A i \in Slots : b[i] = IF i \in F THEN OfToken(t, hash[i]) ELSE 0
    OBVIOUS
  <2> HIDE DEF F, b, hash
  <2>2. \A i \in F : IsHash(hash[i])
    BY <1>15
  <2>3. Amount(t, {hash[i] : i \in F}) = b[1] + b[2] + b[3] + b[4]
    BY <1>16, <2>1, <2>2, SlotSum
  <2> QED
    BY <1>17, <2>3
<1>19. /\ b[1] = Part(t, r.token, spend[1].value) /\ b[2] = Part(t, r.token, spend[2].value)
       /\ b[3] = Part(t, fee_token_id, spend[3].value)
       /\ b[4] = Part(t, fee_token_id, spend[4].value)
       /\ spend[1].value \in Nat /\ spend[2].value \in Nat
       /\ spend[3].value \in Nat /\ spend[4].value \in Nat
  <2>1. 1 \in Slots /\ 2 \in Slots /\ 3 \in Slots /\ 4 \in Slots
    BY DEF Slots
  <2>2. /\ SlotToken(r, 1) = r.token /\ SlotToken(r, 2) = r.token
        /\ SlotToken(r, 3) = fee_token_id /\ SlotToken(r, 4) = fee_token_id
    BY DEF SlotToken
  <2> HIDE DEF b
  <2> QED
    BY <1>14, <2>1, <2>2
<1>20. /\ WithdrawnBy(t, tx) = IF r.kind = "withdraw" THEN Part(t, r.token, r.value) ELSE 0
       /\ FeeOf(t, tx) = Part(t, fee_token_id, r.fee)
  BY <1>2, <1>4 DEF WithdrawnBy, FeeOf, Part
<1> HIDE DEF a, b, K, F, hash
<1>21. Amount(t, Kept({tx})) + WithdrawnBy(t, tx) =
         Part(t, r.token, r.value) + Part(t, r.token, TokenChange(r, spend))
           + Part(t, fee_token_id, FeeChange(r, spend))
  BY <1>1, <1>9, <1>10, <1>11, <1>12, <1>13, <1>20 DEF Part
<1>22. Part(t, r.token, r.value) + Part(t, r.token, TokenChange(r, spend)) = b[1] + b[2]
  BY <1>1, <1>19 DEF Part, TokenChange
<1>23. Part(t, fee_token_id, r.fee) + Part(t, fee_token_id, FeeChange(r, spend)) = b[3] + b[4]
  BY <1>1, <1>19 DEF Part, FeeChange
<1>24. /\ b[1] \in Nat /\ b[2] \in Nat /\ b[3] \in Nat /\ b[4] \in Nat
       /\ Part(t, r.token, r.value) \in Nat /\ Part(t, r.token, TokenChange(r, spend)) \in Nat
       /\ Part(t, fee_token_id, r.fee) \in Nat /\ Part(t, fee_token_id, FeeChange(r, spend)) \in Nat
  BY <1>1, <1>19 DEF Part
<1>25. Amount(t, Kept({tx})) + WithdrawnBy(t, tx) + FeeOf(t, tx) = Amount(t, Spends({tx}))
  BY <1>18, <1>20, <1>21, <1>22, <1>23, <1>24
<1>26. \A h \in Spends({tx}) : IsHash(h) /\ h[5] # contract_nf_address
  BY <1>15, <1>17
<1> QED
  BY <1>25, <1>26

-----------------------------------------------------------------------------
(* The recipient of a transfer reads its first output *)

LEMMA ThreeAndMore ==
  ASSUME NEW T, NEW A \in Seq(T), NEW B \in Seq(T), Len(A) = 3, Len(B) \in {1, 2}
  PROVE  /\ (A \o B)[1] = A[1] /\ (A \o B)[2] = A[2] /\ (A \o B)[3] = A[3]
         /\ (A \o B)[4] = B[1] /\ (Len(B) = 2 => (A \o B)[5] = B[2])
<1> DEFINE C == A \o B
<1>1. \A i \in 1 .. Len(A) + Len(B) : C[i] = IF i <= Len(A) THEN A[i] ELSE B[i - Len(A)]
  BY ConcatProperties, Zenon
<1> HIDE DEF C
<1>2. C[1] = A[1] /\ C[2] = A[2] /\ C[3] = A[3]
  BY <1>1
<1>3. C[4] = B[1]
  <2>1. CASE Len(B) = 1
    <3>1. 4 \in 1 .. Len(A) + Len(B) /\ ~ (4 <= Len(A)) /\ 4 - Len(A) = 1
      BY <2>1
    <3> QED
      BY <1>1, <3>1
  <2>2. CASE Len(B) = 2
    <3>1. 4 \in 1 .. Len(A) + Len(B) /\ ~ (4 <= Len(A)) /\ 4 - Len(A) = 1
      BY <2>2
    <3> QED
      BY <1>1, <3>1
  <2> QED
    BY <2>1, <2>2
<1>4. ASSUME Len(B) = 2 PROVE C[5] = B[2]
  <2>1. 5 \in 1 .. Len(A) + Len(B) /\ ~ (5 <= Len(A)) /\ 5 - Len(A) = 2
    BY <1>4
  <2>2. C[5] = B[5 - Len(A)]
    BY <1>1, <2>1
  <2> QED
    BY <2>1, <2>2
<1>5. /\ C[1] = A[1] /\ C[2] = A[2] /\ C[3] = A[3]
      /\ C[4] = B[1] /\ (Len(B) = 2 => C[5] = B[2])
  BY <1>2, <1>3, <1>4
<1> QED
  BY <1>5 DEF C

LEMMA CipherIs ==
  ASSUME NEW k, NEW s, NEW plain, NEW cipher, cipher = kemdem(k, s, plain)
  PROVE  /\ cipher[1] = Mask(s, 1, plain[1]) /\ cipher[2] = Mask(s, 2, plain[2])
         /\ cipher[3] = Mask(s, 3, plain[3])
         /\ cipher[4] = get_y(Mul(k, Generator)) /\ cipher[5] = Sign(Mul(k, Generator))
<1> DEFINE A == [i \in 1 .. 3 |-> Mask(s, i, plain[i])]
           y == get_y(Mul(k, Generator))
           sign == Sign(Mul(k, Generator))
           B == <<y, sign>>
           T == {A[1], A[2], A[3], y, sign}
<1>1. cipher = A \o B
  BY DEF kemdem
<1>2. /\ A[1] = Mask(s, 1, plain[1]) /\ A[2] = Mask(s, 2, plain[2])
      /\ A[3] = Mask(s, 3, plain[3])
  OBVIOUS
<1>3. A = [i \in 1 .. 3 |-> A[i]]
  OBVIOUS
<1> HIDE DEF A, y, sign
<1>4. A \in Seq(T) /\ Len(A) = 3
  BY <1>3
<1>5. B \in Seq(T) /\ Len(B) = 2 /\ B[1] = y /\ B[2] = sign
  OBVIOUS
<1> HIDE DEF B, T
<1>6. /\ (A \o B)[1] = A[1] /\ (A \o B)[2] = A[2] /\ (A \o B)[3] = A[3]
      /\ (A \o B)[4] = B[1] /\ (A \o B)[5] = B[2]
  BY <1>4, <1>5, ThreeAndMore
<1> QED
  BY <1>1, <1>2, <1>5, <1>6 DEF y, sign

LEMMA MaskIs ==
  ASSUME NEW s, NEW i, NEW x
  PROVE  Unmask(s, i, Mask(s, i, x)) = x
<1> DEFINE m == Mask(s, i, x)
<1>1. Len(m) = 4 /\ m[2] = s /\ m[3] = i /\ m[4] = x
  BY DEF Mask
<1> HIDE DEF m
<1> QED
  BY <1>1 DEF Unmask, m

LEMMA DecryptedIs ==
  ASSUME NEW c, NEW t, NEW s, NEW v, NEW cipher,
         cipher = kemdem(<<"ephemeral", ops>>, SharedWith(c), <<t, s, v>>)
  PROVE  LET plain == kemdem_decrypt(zkp_private_key(c), cipher)
         IN plain[1] = t /\ plain[2] = s /\ plain[3] = v /\ plain[4] = get_y(SharedWith(c))
<1> DEFINE eph == <<"ephemeral", ops>>
           epk == Mul(eph, Generator)
           shared == Mul(zkp_private_key(c), Decompress(cipher[4], cipher[5]))
<1>1. /\ cipher[1] = Mask(SharedWith(c), 1, t) /\ cipher[2] = Mask(SharedWith(c), 2, s)
      /\ cipher[3] = Mask(SharedWith(c), 3, v)
      /\ cipher[4] = get_y(epk) /\ cipher[5] = Sign(epk)
  BY CipherIs
<1>2. epk = <<"point", {eph}>>
  BY DEF Mul, ZeroScalar, Generator, Neutral
<1>3. Decompress(cipher[4], cipher[5]) = epk
  <2>1. get_y(epk)[2] = epk /\ Sign(epk)[2] = epk
    BY DEF get_y, Sign
  <2> HIDE DEF epk
  <2> QED
    BY <1>1, <2>1 DEF Decompress
<1>4. shared = SharedWith(c)
  <2>1. shared = Mul(<<"key", c>>, <<"point", {eph}>>)
    BY <1>2, <1>3 DEF zkp_private_key
  <2>2. Mul(<<"key", c>>, <<"point", {eph}>>) = <<"point", {eph} \cup {<<"key", c>>}>>
    BY DEF Mul, ZeroScalar, Neutral
  <2>3. SharedWith(c) = <<"point", {<<"key", c>>, eph}>>
    BY SharedPointIs DEF SharedWith
  <2>4. {eph} \cup {<<"key", c>>} = {<<"key", c>>, eph}
    OBVIOUS
  <2> HIDE DEF shared
  <2> QED
    BY <2>1, <2>2, <2>3, <2>4
<1> DEFINE A == [i \in 1 .. 3 |-> Unmask(shared, i, cipher[i])]
           B == <<get_y(shared)>>
           T == {A[1], A[2], A[3], get_y(shared)}
           plain == kemdem_decrypt(zkp_private_key(c), cipher)
<1>5. plain = A \o B
  BY DEF kemdem_decrypt
<1> HIDE DEF shared, plain
<1>6. A[1] = t /\ A[2] = s /\ A[3] = v
  <2>1. /\ A[1] = Unmask(shared, 1, cipher[1]) /\ A[2] = Unmask(shared, 2, cipher[2])
        /\ A[3] = Unmask(shared, 3, cipher[3])
    OBVIOUS
  <2> HIDE DEF A
  <2> QED
    BY <1>1, <1>4, <2>1, MaskIs
<1>7. A = [i \in 1 .. 3 |-> A[i]]
  OBVIOUS
<1> HIDE DEF A
<1>8. A \in Seq(T) /\ Len(A) = 3
  BY <1>7
<1>9. B \in Seq(T) /\ Len(B) = 1 /\ B[1] = get_y(shared)
  OBVIOUS
<1> HIDE DEF B, T
<1>10. /\ (A \o B)[1] = A[1] /\ (A \o B)[2] = A[2] /\ (A \o B)[3] = A[3]
       /\ (A \o B)[4] = B[1]
  BY <1>8, <1>9, ThreeAndMore
<1>11. plain[1] = t /\ plain[2] = s /\ plain[3] = v /\ plain[4] = get_y(SharedWith(c))
  BY <1>4, <1>5, <1>6, <1>9, <1>10
<1> QED
  BY <1>11 DEF plain

\* A transaction a client sends is an operation, its salts are of this
\* operation.
LEMMA SentIsOperation ==
  ASSUME NEW r \in Requests, r.kind \in {"transfer", "withdraw"}, NEW spend, SlotsFit(r, spend),
         NEW tx, Sent(r, spend, tx), ops \in Nat,
         TokenChange(r, spend) \in Nat, FeeChange(r, spend) \in Nat
  PROVE  /\ Operation(tx)
         /\ \A h \in Commitments({tx}) : SaltOf(ops, h[6])
<1>1. WellFormed(tx) /\ tx.nullifiers[1] # Zero /\ (IsWithdraw(tx) <=> r.kind = "withdraw")
  BY SentIsFormed
<1>2. \A i \in Slots : tx.commitments[i] # Zero =>
        SaltOf(ops, tx.commitments[i][6]) /\ (tx.commitments[i][5] = contract_nf_address <=> i = 3)
  BY SentCommitments
<1>3. \A h \in Commitments({tx}) : SaltOf(ops, h[6])
  <2> SUFFICES ASSUME NEW h \in Commitments({tx}) PROVE SaltOf(ops, h[6])
    OBVIOUS
  <2>1. \A y \in {tx} : WellFormed(y)
    BY <1>1
  <2>2. \E y \in {tx} : \E i \in Slots : h = y.commitments[i] /\ h # Zero
    BY <2>1, CommitmentsAre
  <2> QED
    BY <1>2, <2>2
<1>4. \A h \in Spends({tx}) : IsHash(h) /\ h[5] # contract_nf_address
  <2>1. fee_token_id \in Tokens
    BY LedgerAssumption
  <2> QED
    BY <2>1, SentBalances
<1>5. \A t \in Tokens :
        Amount(t, Kept({tx})) + WithdrawnBy(t, tx) + FeeOf(t, tx) = Amount(t, Spends({tx}))
  BY SentBalances
<1>6. ASSUME tx.commitments[1] # Zero
      PROVE  \E c \in Clients : Hash(test_preimage(c, tx)) = tx.commitments[1]
  <2>1. r.kind # "withdraw" /\ r.to \in Clients
    BY <1>6, LedgerAssumption DEF Sent
  <2>2. tx.public_data = kemdem(<<"ephemeral", ops>>, SharedWith(r.to),
                                <<r.token, SlotOf[r.token], r.value>>)
    BY <2>1 DEF Sent
  <2>3. test_preimage(r.to, tx) = Preimage(r.value, r.token, SlotOf[r.token],
                                           zkp_public_key(r.to), get_y(SharedWith(r.to)))
    BY <2>2, DecryptedIs DEF test_preimage
  <2>4. Hash(test_preimage(r.to, tx)) = poseidon_hash(r.token, SlotOf[r.token], r.value,
                                           zkp_public_key(r.to), get_y(SharedWith(r.to)))
    BY <2>3, PreimageIs DEF Hash
  <2> QED
    BY <2>1, <2>4 DEF Sent
<1>7. tx.commitments[3] # Zero => tx.commitments[3][5] = contract_nf_address
  BY <1>2 DEF Slots
<1> QED
  BY <1>1, <1>3, <1>4, <1>5, <1>6, <1>7 DEF Operation

-----------------------------------------------------------------------------
(* The invariant *)

Known(h) == \E c \in Clients : \E e \in wallet[c] : Hash(e.preimage) = h

Claimed(tx) == IsWithdraw(tx) => WithdrawData(tx) \in claims

\* A transaction a proposer holds spends what is on chain and nobody has
\* spent; the change it makes is known.
InPool(tx) ==
  /\ Operation(tx) /\ Claimed(tx)
  /\ \A h \in Commitments({tx}) : Past(h[6])
  /\ Commitments({tx}) \cap Commitments(mined) = {}
  /\ Spends({tx}) \subseteq Commitments(mined)
  /\ Spends({tx}) \cap Spends(mined) = {}
  /\ \A i \in {2, 4} : tx.commitments[i] # Zero => Known(tx.commitments[i])

Apart(tx, other) ==
  /\ Commitments({tx}) \cap Commitments({other}) = {}
  /\ Spends({tx}) \cap Spends({other}) = {}

PoolTxs ==
  /\ IsFiniteSet(pool)
  /\ \A tx \in pool : InPool(tx)
  /\ \A tx, other \in pool : tx # other => Apart(tx, other)

OnChain(h) == Past(h[6]) /\ (h[5] # contract_nf_address => Known(h))

MinedTxs ==
  /\ IsFiniteSet(mined)
  /\ \A tx \in mined : WellFormed(tx) /\ Claimed(tx)
  /\ Spends(mined) \subseteq Commitments(mined)
  /\ \A h \in Commitments(mined) : OnChain(h)

IsDeposit(d) ==
  /\ d = [nf_token_id |-> d.nf_token_id, nf_slot_id |-> d.nf_slot_id,
          value |-> d.value, secret_hash |-> d.secret_hash]
  /\ d.nf_token_id \in Tokens /\ d.value \in Nat

EscrowData ==
  /\ IsFiniteSet(escrows)
  /\ \A d \in escrows :
       /\ IsDeposit(d)
       /\ Past(d.secret_hash) /\ Known(to_commitment(d))
       /\ to_commitment(d) \notin Commitments(pool \cup mined)

\* What the status of an entry says of its commitment.
EntryFits(c, e) ==
  LET h == Hash(e.preimage)
  IN /\ e.nullifier = nullifier_hash(e.preimage, nullifier_key(c))
     /\ Past(e.preimage.salt)
     /\ e.status \in {"PendingCreation", "Unspent", "PendingSpend", "Spent"}
     /\ e.status = "PendingCreation" <=> h \notin Commitments(mined)
     /\ e.status = "Unspent" => h \notin Spends(pool \cup mined)
     /\ e.status = "Spent" => e.nullifier \in Nullifiers(mined)

EntriesFit == \A c \in Clients : \A e \in wallet[c] : EntryFits(c, e)

\* No two clients hold the same commitment.
NotShared ==
  \A c, d \in Clients : c # d =>
    \A e \in wallet[c], f \in wallet[d] : Hash(e.preimage) # Hash(f.preimage)

DepositOf(t, d) == IF d.nf_token_id = t THEN d.value ELSE 0
Escrowed(t, S) == SumFunctionOnSet([d \in S |-> DepositOf(t, d)], S)

LedgerBalances ==
  /\ DOMAIN deposited = Tokens
  /\ \A t \in Tokens : Ledger(t, mined) + Escrowed(t, escrows) = deposited[t]

LedgerInv ==
  ops \in Nat /\ PoolTxs /\ MinedTxs /\ EscrowData /\ EntriesFit /\ NotShared /\ LedgerBalances

-----------------------------------------------------------------------------
(* A request leaves the chain as it is *)

LEMMA KnownStays ==
  ASSUME \A c \in Clients : \A e \in wallet[c] : \E f \in wallet'[c] : f.preimage = e.preimage,
         NEW h, Known(h)
  PROVE  Known(h)'
<1>1. PICK c \in Clients : \E e \in wallet[c] : Hash(e.preimage) = h
  BY DEF Known
<1>2. PICK e \in wallet[c] : Hash(e.preimage) = h
  BY <1>1
<1>3. PICK f \in wallet'[c] : f.preimage = e.preimage
  BY <1>1, <1>2
<1> QED
  BY <1>1, <1>2, <1>3 DEF Known

LEMMA ChainStays ==
  ASSUME ops \in Nat, ops' \in {ops, ops + 1}, mined' = mined, claims \subseteq claims',
         \A h : Known(h) => Known(h)'
  PROVE  /\ MinedTxs => MinedTxs'
         /\ \A tx : InPool(tx) => InPool(tx)'
<1>1. \A h : OnChain(h) => OnChain(h)'
  <2> SUFFICES ASSUME NEW h, OnChain(h) PROVE OnChain(h)'
    OBVIOUS
  <2>1. Past(h[6])'
    BY StillPast DEF OnChain
  <2>2. h[5] # contract_nf_address => Known(h)'
    BY DEF OnChain
  <2> QED
    BY <2>1, <2>2 DEF OnChain
<1>2. \A tx : Claimed(tx) => Claimed(tx)'
  BY DEF Claimed
<1>3. MinedTxs => MinedTxs'
  BY <1>1, <1>2 DEF MinedTxs
<1>4. ASSUME NEW tx, InPool(tx) PROVE InPool(tx)'
  <2>1. Claimed(tx)'
    BY <1>2, <1>4 DEF InPool
  <2>2. ASSUME NEW h \in Commitments({tx}) PROVE Past(h[6])'
    <3>1. Past(h[6])
      BY <1>4 DEF InPool
    <3> QED
      BY <3>1, StillPast
  <2>3. ASSUME NEW i \in {2, 4}, tx.commitments[i] # Zero PROVE Known(tx.commitments[i])'
    BY <1>4, <2>3 DEF InPool
  <2> QED
    BY <1>4, <2>1, <2>2, <2>3 DEF InPool
<1> QED
  BY <1>3, <1>4

-----------------------------------------------------------------------------
(* A deposit: its salt is new, so what it holds is nowhere else *)

LEMMA DepositsNew ==
  ASSUME NEW r \in Deposits, NEW p \in DepositPreimages(r)
  PROVE  /\ Owned(r.client, p) /\ SaltOf(ops, p.salt)
         /\ to_commitment(DepositData(p)) = Hash(p)
         /\ IsDeposit(DepositData(p)) /\ DepositData(p).secret_hash = p.salt
         /\ \A t : DepositOf(t, DepositData(p)) = IF p.nf_token_id = t THEN p.value ELSE 0
<1> DEFINE secret == DepositSecret(<<"fresh", ops>>)
<1>1. /\ r.token \in Tokens /\ r.value \in Nat /\ r.deposit_fee \in Nat
      /\ fee_token_id \in Tokens /\ SlotOf[fee_token_id] = fee_token_id /\ Zero \notin Tokens
  BY LedgerAssumption
<1>2. \/ p = DepositPreimage(r.value, r.token, SlotOf[r.token], secret)
      \/ p = DepositPreimage(r.deposit_fee, fee_token_id, fee_token_id, secret)
  BY DEF DepositPreimages
<1>3. SaltOf(ops, SecretHash(secret))
  BY DEF SaltOf
<1> HIDE DEF secret
<1>4. PICK v \in Nat, t \in Tokens : p = DepositPreimage(v, t, SlotOf[t], secret)
  BY <1>1, <1>2
<1>5. /\ p = [f \in PreimageFields |-> p[f]]
      /\ p.value = v /\ p.nf_token_id = t /\ p.nf_slot_id = SlotOf[t]
      /\ p.public_key = Neutral /\ p.salt = SecretHash(secret) /\ p.secret = secret
  BY <1>4, DepositPreimageIs
<1>6. Owned(r.client, p)
  BY <1>5 DEF Owned
<1>7. /\ DepositData(p).nf_token_id = t /\ DepositData(p).nf_slot_id = SlotOf[t]
      /\ DepositData(p).value = v /\ DepositData(p).secret_hash = p.salt
      /\ IsDeposit(DepositData(p))
  BY <1>5 DEF DepositData, IsDeposit
<1>8. to_commitment(DepositData(p)) = Hash(p)
  BY <1>1, <1>5, <1>7 DEF to_commitment, IsPadding, Hash
<1>9. \A u : DepositOf(u, DepositData(p)) = IF p.nf_token_id = u THEN p.value ELSE 0
  BY <1>5, <1>7 DEF DepositOf
<1> QED
  BY <1>3, <1>5, <1>6, <1>7, <1>8, <1>9

LEMMA DepositsAreFinite ==
  ASSUME NEW r
  PROVE  IsFiniteSet(DepositPreimages(r))
<1> DEFINE secret == DepositSecret(<<"fresh", ops>>)
           A == {DepositPreimage(r.value, r.token, SlotOf[r.token], secret)}
           F == DepositPreimage(r.deposit_fee, fee_token_id, fee_token_id, secret)
           B == IF r.deposit_fee = 0 THEN {} ELSE {F}
<1>1. DepositPreimages(r) = A \cup B
  BY DEF DepositPreimages
<1>2. IsFiniteSet(A) /\ IsFiniteSet(B)
  <2> HIDE DEF F
  <2> QED
    BY FS_EmptySet, FS_Singleton
<1> QED
  BY <1>1, <1>2, FS_Union

LEMMA EscrowedIs ==
  ASSUME NEW t, NEW S, IsFiniteSet(S), \A d \in S : IsDeposit(d)
  PROVE  /\ Escrowed(t, S) \in Nat
         /\ \A f : (\A d \in S : f[d] = DepositOf(t, d)) => SumFunctionOnSet(f, S) = Escrowed(t, S)
<1> DEFINE g == [d \in S |-> DepositOf(t, d)]
<1>1. Escrowed(t, S) = SumFunctionOnSet(g, S)
  BY DEF Escrowed
<1>2. \A d \in S : g[d] = DepositOf(t, d) /\ g[d] \in Nat
  BY DEF DepositOf, IsDeposit
<1> HIDE DEF g
<1>3. SumFunctionOnSet(g, S) \in Nat
  BY <1>2, SumNat
<1>4. ASSUME NEW f, \A d \in S : f[d] = DepositOf(t, d)
      PROVE  SumFunctionOnSet(f, S) = SumFunctionOnSet(g, S)
  <2>1. \A d \in S : g[d] \in Int /\ f[d] = g[d]
    BY <1>2, <1>4
  <2> QED
    BY <2>1, SumSame
<1> QED
  BY <1>1, <1>3, <1>4

LEMMA EscrowedUnion ==
  ASSUME NEW t, NEW S, IsFiniteSet(S), NEW U, IsFiniteSet(U), S \cap U = {},
         \A d \in S \cup U : IsDeposit(d)
  PROVE  Escrowed(t, S \cup U) = Escrowed(t, S) + Escrowed(t, U)
<1> DEFINE g == [d \in S \cup U |-> DepositOf(t, d)]
<1>1. \A d \in S \cup U : g[d] = DepositOf(t, d) /\ g[d] \in Int
  BY DEF DepositOf, IsDeposit
<1> HIDE DEF g
<1>2. IsFiniteSet(S \cup U)
  BY FS_Union
<1>3. SumFunctionOnSet(g, S \cup U) = SumFunctionOnSet(g, S) + SumFunctionOnSet(g, U)
  BY <1>1, SumUnion
<1>4. /\ SumFunctionOnSet(g, S \cup U) = Escrowed(t, S \cup U)
      /\ SumFunctionOnSet(g, S) = Escrowed(t, S)
      /\ SumFunctionOnSet(g, U) = Escrowed(t, U)
  <2>1. SumFunctionOnSet(g, S \cup U) = Escrowed(t, S \cup U)
    BY <1>1, <1>2, EscrowedIs
  <2>2. SumFunctionOnSet(g, S) = Escrowed(t, S)
    BY <1>1, EscrowedIs
  <2>3. SumFunctionOnSet(g, U) = Escrowed(t, U)
    BY <1>1, EscrowedIs
  <2> QED
    BY <2>1, <2>2, <2>3
<1> QED
  BY <1>3, <1>4

\* The escrow takes what the deposit is of.
LEMMA EscrowTakes ==
  ASSUME NEW t, NEW r \in Deposits, NEW S, IsFiniteSet(S), \A d \in S : IsDeposit(d),
         NEW new, new = {DepositData(p) : p \in DepositPreimages(r)}, S \cap new = {}
  PROVE  /\ Escrowed(t, S \cup new) = Escrowed(t, S) + escrow_funds(r, t)
         /\ escrow_funds(r, t) \in Nat
         /\ IsFiniteSet(S \cup new) /\ \A d \in new : IsDeposit(d)
<1> DEFINE D == DepositPreimages(r)
           e == [p \in D |-> DepositData(p)]
           g == [p \in D |-> IF p.nf_token_id = t THEN p.value ELSE 0]
           f == [d \in new |-> DepositOf(t, d)]
<1>1. escrow_funds(r, t) = SumFunctionOnSet(g, D)
  BY DEF escrow_funds, SumFunction
<1>2. \A p \in D : e[p] = DepositData(p) /\ e[p] \in new
  OBVIOUS
<1>3. new = {e[p] : p \in D}
  OBVIOUS
<1>4. ASSUME NEW p \in D, NEW q \in D, e[p] = e[q] PROVE p = q
  <2>1. Owned(r.client, p) /\ Owned(r.client, q)
    BY DepositsNew
  <2>2. Hash(p) = Hash(q)
    BY <1>2, <1>4, DepositsNew
  <2> QED
    BY <2>1, <2>2, OwnedByHash
<1>5. ASSUME NEW p \in D PROVE g[p] = f[e[p]] /\ g[p] \in Int
  <2>1. Owned(r.client, p) /\ DepositOf(t, DepositData(p)) = g[p]
    BY DepositsNew
  <2>2. f[e[p]] = DepositOf(t, DepositData(p))
    BY <1>2
  <2>3. g[p] \in Int
    BY <2>1 DEF Owned
  <2> QED
    BY <2>1, <2>2, <2>3
<1>6. IsFiniteSet(D)
  BY DepositsAreFinite
<1>7. \A d \in new : f[d] = DepositOf(t, d) /\ IsDeposit(d)
  BY DepositsNew
<1> HIDE DEF D, e, g, f
<1>8. /\ IsFiniteSet({e[p] : p \in D})
      /\ SumFunctionOnSet(f, {e[p] : p \in D}) = SumFunctionOnSet(g, D)
  BY <1>4, <1>5, <1>6, SumReindex
<1>9. IsFiniteSet(new) /\ SumFunctionOnSet(f, new) = escrow_funds(r, t)
  BY <1>1, <1>3, <1>8
<1>10. SumFunctionOnSet(f, new) = Escrowed(t, new) /\ Escrowed(t, new) \in Nat
  BY <1>7, <1>9, EscrowedIs
<1>11. \A d \in S \cup new : IsDeposit(d)
  BY <1>7
<1>12. Escrowed(t, S \cup new) = Escrowed(t, S) + Escrowed(t, new)
  BY <1>9, <1>11, EscrowedUnion
<1>13. IsFiniteSet(S \cup new)
  BY <1>9, FS_Union
<1> QED
  BY <1>7, <1>9, <1>10, <1>12, <1>13

LEMMA SaltIs ==
  ASSUME NEW p
  PROVE  Hash(p)[6] = p.salt
BY SaltOfHash DEF Hash

\* What is in the pool or on chain has a salt given before.
LEMMA TakenSalts ==
  ASSUME PoolTxs, MinedTxs, NEW h \in Commitments(pool \cup mined)
  PROVE  Past(h[6])
<1>1. h \in Commitments(pool) \/ h \in Commitments(mined)
  <2>1. Commitments(pool \cup mined) = Commitments(pool) \cup Commitments(mined)
    BY OfUnion
  <2> QED
    BY <2>1
<1>2. CASE h \in Commitments(pool)
  <2>1. PICK tx \in pool : h \in Commitments({tx})
    BY <1>2, OfMembers
  <2> QED
    BY <2>1 DEF PoolTxs, InPool
<1>3. CASE h \in Commitments(mined)
  BY <1>3 DEF MinedTxs, OnChain
<1> QED
  BY <1>1, <1>2, <1>3

\* An entry that stays as it is while the chain does.
LEMMA EntryStays ==
  ASSUME ops \in Nat, ops' \in {ops, ops + 1}, mined' = mined, NEW c, NEW e, EntryFits(c, e),
         e.status = "Unspent" => Hash(e.preimage) \notin Spends(pool' \cup mined)
  PROVE  EntryFits(c, e)'
<1>1. Past(e.preimage.salt)'
  BY StillPast DEF EntryFits
<1> QED
  BY <1>1 DEF EntryFits

\* What two clients hold stays apart when one of them adds what has a new
\* salt.
LEMMA StillNotShared ==
  ASSUME NotShared, EntriesFit, NEW c \in Clients,
         \A d \in Clients : d # c => wallet'[d] = wallet[d],
         \A e \in wallet'[c] : ~ Past(e.preimage.salt) \/ \E f \in wallet[c] : f.preimage = e.preimage
  PROVE  NotShared'
<1>1. ASSUME NEW d \in Clients, d # c, NEW e \in wallet'[c], NEW f \in wallet'[d]
      PROVE  Hash(e.preimage) # Hash(f.preimage)
  <2>1. f \in wallet[d]
    BY <1>1
  <2>2. CASE ~ Past(e.preimage.salt)
    <3>1. Past(f.preimage.salt)
      BY <1>1, <2>1 DEF EntriesFit, EntryFits
    <3>2. Hash(e.preimage)[6] = e.preimage.salt /\ Hash(f.preimage)[6] = f.preimage.salt
      BY SaltIs
    <3> QED
      BY <2>2, <3>1, <3>2
  <2>3. CASE \E g \in wallet[c] : g.preimage = e.preimage
    BY <1>1, <2>1, <2>3 DEF NotShared
  <2> QED
    BY <1>1, <2>2, <2>3
<1>2. ASSUME NEW d \in Clients, NEW b \in Clients, d # b, NEW e \in wallet'[d], NEW f \in wallet'[b]
      PROVE  Hash(e.preimage) # Hash(f.preimage)
  <2>1. CASE d = c
    BY <1>1, <1>2, <2>1
  <2>2. CASE b = c
    <3>1. Hash(f.preimage) # Hash(e.preimage)
      BY <1>1, <1>2, <2>2
    <3> QED
      BY <3>1
  <2>3. CASE d # c /\ b # c
    BY <1>2, <2>3 DEF NotShared
  <2> QED
    BY <2>1, <2>2, <2>3
<1> QED
  BY <1>2 DEF NotShared

LEMMA DepositLedger ==
  ASSUME WalletInv, LedgerInv, NEW r \in Deposits, handle_deposit(r)
  PROVE  LedgerInv'
<1> DEFINE D == DepositPreimages(r)
           added == {Entry(r.client, p, "PendingCreation") : p \in D}
           new == {DepositData(p) : p \in D}
<1>1. /\ wallet' = [wallet EXCEPT ![r.client] = wallet[r.client] \cup added]
      /\ escrows' = escrows \cup new
      /\ deposited' = [t \in Tokens |-> deposited[t] + escrow_funds(r, t)]
      /\ ops' = ops + 1 /\ pool' = pool /\ mined' = mined /\ claims' = claims
  BY DEF handle_deposit, Done
<1>2. r.client \in Clients /\ ops \in Nat
  BY LedgerAssumption DEF LedgerInv
<1>3. /\ wallet'[r.client] = wallet[r.client] \cup added
      /\ \A c \in Clients : c # r.client => wallet'[c] = wallet[c]
  <2>1. wallet = [c \in Clients |-> wallet[c]]
    BY DEF WalletInv, WalletsHeld
  <2> HIDE DEF added
  <2> QED
    BY <1>1, <1>2, <2>1
<1>4. \A e : e \in added <=> \E p \in D : e = Entry(r.client, p, "PendingCreation")
  OBVIOUS
<1>5. \A d : d \in new <=> \E p \in D : d = DepositData(p)
  OBVIOUS
<1>6. ASSUME NEW p \in D
      PROVE  ~ Past(p.salt) /\ Past(p.salt)'
  <2>1. SaltOf(ops, p.salt)
    BY DepositsNew
  <2> QED
    BY <1>1, <1>2, <2>1, NewSalts
<1>7. /\ \A h : Known(h) => Known(h)'
      /\ \A p \in D : Known(Hash(p))'
  <2>1. \A c \in Clients : \A e \in wallet[c] : e \in wallet'[c]
    BY <1>3
  <2>2. \A h : Known(h) => Known(h)'
    BY <2>1, KnownStays
  <2>3. ASSUME NEW p \in D PROVE Known(Hash(p))'
    <3>1. Entry(r.client, p, "PendingCreation") \in wallet'[r.client]
      BY <1>3, <1>4
    <3>2. Entry(r.client, p, "PendingCreation").preimage = p
      BY EntryIs
    <3> QED
      BY <1>2, <3>1, <3>2 DEF Known
  <2> QED
    BY <2>2, <2>3
<1>8. \A p \in D : Hash(p) \notin Commitments(pool \cup mined)
  BY <1>6, TakenSalts, SaltIs DEF LedgerInv
<1> HIDE DEF D, added, new
<1>9. MinedTxs' /\ \A tx \in pool : InPool(tx)'
  BY <1>1, <1>2, <1>7, ChainStays DEF LedgerInv, PoolTxs
<1>10. PoolTxs'
  BY <1>1, <1>9 DEF LedgerInv, PoolTxs
<1>11. \A d \in escrows : IsDeposit(d) /\ Past(d.secret_hash)
  BY DEF LedgerInv, EscrowData
<1>12. escrows \cap new = {}
  BY <1>5, <1>6, <1>11, DepositsNew DEF D
<1>13. IsFiniteSet(escrows)
  BY DEF LedgerInv, EscrowData
<1>14. \A t : /\ Escrowed(t, escrows \cup new) = Escrowed(t, escrows) + escrow_funds(r, t)
              /\ escrow_funds(r, t) \in Nat
              /\ IsFiniteSet(escrows \cup new) /\ \A d \in new : IsDeposit(d)
  BY <1>11, <1>12, <1>13, EscrowTakes DEF new, D
<1>15. EscrowData'
  <2>1. ASSUME NEW d \in escrows'
        PROVE  /\ IsDeposit(d) /\ Past(d.secret_hash)' /\ Known(to_commitment(d))'
               /\ to_commitment(d) \notin Commitments(pool \cup mined)
    <3>1. CASE d \in escrows
      <4>1. /\ Past(d.secret_hash) /\ Known(to_commitment(d))
            /\ to_commitment(d) \notin Commitments(pool \cup mined)
        BY <3>1 DEF LedgerInv, EscrowData
      <4>2. Past(d.secret_hash)'
        BY <1>1, <1>2, <4>1, StillPast
      <4> QED
        BY <1>7, <1>11, <3>1, <4>1, <4>2
    <3>2. CASE d \in new
      <4>1. PICK p \in D : d = DepositData(p)
        BY <1>5, <3>2
      <4>2. to_commitment(d) = Hash(p) /\ d.secret_hash = p.salt /\ IsDeposit(d)
        BY <4>1, DepositsNew DEF D
      <4> QED
        BY <1>6, <1>7, <1>8, <4>2
    <3> QED
      BY <1>1, <3>1, <3>2
  <2>2. IsFiniteSet(escrows')
    BY <1>1, <1>14
  <2> QED
    BY <1>1, <2>1, <2>2 DEF EscrowData
<1>16. EntriesFit'
  <2>1. ASSUME NEW c \in Clients, NEW e \in wallet[c] PROVE EntryFits(c, e)'
    <3>1. EntryFits(c, e)
      BY DEF LedgerInv, EntriesFit
    <3>2. e.status = "Unspent" => Hash(e.preimage) \notin Spends(pool' \cup mined)
      BY <1>1, <3>1 DEF EntryFits
    <3> QED
      BY <1>1, <1>2, <3>1, <3>2, EntryStays
  <2>2. ASSUME NEW e \in added PROVE EntryFits(r.client, e)'
    <3>1. PICK p \in D : e = Entry(r.client, p, "PendingCreation")
      BY <1>4
    <3>2. /\ e.preimage = p /\ e.status = "PendingCreation"
          /\ e.nullifier = nullifier_hash(p, nullifier_key(r.client))
      BY <3>1 DEF Entry
    <3>3. Hash(p) \notin Commitments(mined)
      <4>1. Commitments(pool \cup mined) = Commitments(pool) \cup Commitments(mined)
        BY OfUnion
      <4> QED
        BY <1>8, <4>1
    <3> QED
      BY <1>1, <1>6, <3>2, <3>3 DEF EntryFits
  <2>3. ASSUME NEW c \in Clients, NEW e \in wallet'[c] PROVE EntryFits(c, e)'
    BY <1>3, <2>1, <2>2
  <2> QED
    BY <2>3 DEF EntriesFit
<1>17. NotShared'
  <2>1. \A e \in wallet'[r.client] :
          ~ Past(e.preimage.salt) \/ \E f \in wallet[r.client] : f.preimage = e.preimage
    BY <1>3, <1>4, <1>6, EntryIs
  <2> QED
    BY <1>2, <1>3, <2>1, StillNotShared DEF LedgerInv
<1>18. LedgerBalances'
  <2>1. DOMAIN deposited' = Tokens
    BY <1>1
  <2>2. ASSUME NEW t \in Tokens
        PROVE  Ledger(t, mined) + Escrowed(t, escrows') = deposited'[t]
    <3>1. Ledger(t, mined) + Escrowed(t, escrows) = deposited[t]
      BY DEF LedgerInv, LedgerBalances
    <3>2. deposited'[t] = deposited[t] + escrow_funds(r, t)
      BY <1>1
    <3>3. Escrowed(t, escrows') = Escrowed(t, escrows) + escrow_funds(r, t)
      BY <1>1, <1>14
    <3>4. Escrowed(t, escrows) \in Nat /\ Escrowed(t, escrows') \in Nat
      <4>1. IsFiniteSet(escrows') /\ \A d \in escrows' : IsDeposit(d)
        BY <1>1, <1>11, <1>14
      <4> QED
        BY <1>11, <1>13, <4>1, EscrowedIs
    <3>5. Ledger(t, mined) \in Nat
      BY LedgerTypes DEF LedgerInv, MinedTxs
    <3>6. escrow_funds(r, t) \in Nat
      BY <1>14
    <3> QED
      BY <3>1, <3>2, <3>3, <3>4, <3>5, <3>6
  <2> QED
    BY <1>1, <2>1, <2>2 DEF LedgerBalances
<1>19. ops' \in Nat
  BY <1>1, <1>2
<1> QED
  BY <1>9, <1>10, <1>15, <1>16, <1>17, <1>18, <1>19 DEF LedgerInv

-----------------------------------------------------------------------------
(* A transfer or a withdraw: what it spends is the client's and nobody has *)
(* spent it, what it makes has a new salt.                                  *)

LEMMA PendingFits ==
  ASSUME NEW c, NEW w, HeldBy(c, w), \A e \in w : EntryFits(c, e),
         NEW taken, \A e \in w : e.preimage \in taken => Hash(e.preimage) \in Commitments(mined),
         NEW reserved, reserved = mark_commitments_pending_spend(w, taken)
  PROVE  /\ \A e \in reserved : EntryFits(c, e) /\ (e.status = "Unspent" => e \in w)
         /\ \A e \in w : \E f \in reserved : f.preimage = e.preimage
<1> DEFINE f == [e \in w |-> IF e.preimage \in taken THEN [e EXCEPT !.status = "PendingSpend"]
                             ELSE e]
<1>1. reserved = {f[e] : e \in w}
  BY DEF mark_commitments_pending_spend
<1>2. ASSUME NEW e \in w
      PROVE  /\ f[e].preimage = e.preimage /\ EntryFits(c, f[e])
             /\ f[e].status = "Unspent" => f[e] = e
  <2>1. e = [g \in EntryFields |-> e[g]] /\ EntryFits(c, e)
    BY DEF HeldBy
  <2>2. CASE e.preimage \in taken
    <3>1. f[e] = [e EXCEPT !.status = "PendingSpend"]
      BY <2>2
    <3> HIDE DEF f
    <3>2. /\ f[e].preimage = e.preimage /\ f[e].nullifier = e.nullifier
          /\ f[e].status = "PendingSpend"
      BY <2>1, <3>1 DEF EntryFields
    <3>3. Hash(e.preimage) \in Commitments(mined)
      BY <2>2
    <3> QED
      BY <2>1, <3>2, <3>3 DEF EntryFits
  <2>3. CASE e.preimage \notin taken
    BY <2>1, <2>3
  <2> QED
    BY <2>2, <2>3
<1> HIDE DEF f
<1> QED
  BY <1>1, <1>2

UnspentKept(reserved, w) == \A e \in reserved : e.status = "Unspent" => e \in w

\* Every slot is a placeholder or an unspent commitment of the wallet.
UnspentIn(w, spend) ==
  \A i \in Slots : spend[i] = DefaultPreimage \/
                  \E e \in w : e.status = "Unspent" /\ e.preimage = spend[i]

LEMMA SpendsUnspent ==
  ASSUME NEW r \in Requests, NEW w, HeldBy(r.client, w), NEW value, value # <<>>,
         FoundFrom(w, r.token, r.value, value), NEW reserved, NEW fee, NEW spend,
         reserved = mark_commitments_pending_spend(w, Range(value)),
         UnspentKept(reserved, w),
         fee = FeeFound(r, reserved), r.fee = 0 \/ fee # <<>>,
         InSlots(spend, value, fee)
  PROVE  UnspentIn(w, spend)
<1>1. r.token \in Tokens /\ r.value \in Nat /\ r.fee \in Nat
  BY LedgerAssumption
<1>2. /\ spend[1] = Padded(value)[1] /\ spend[2] = Padded(value)[2]
      /\ spend[3] = Padded(fee)[1] /\ spend[4] = Padded(fee)[2]
  BY DEF InSlots
<1>3. TwoSlots(w, r.token, r.value, value)
  BY <1>1, FoundFills
<1>4. HeldBy(r.client, reserved)
  BY MarkPendingIs
<1> DEFINE Fits(p) == p = DefaultPreimage \/ \E e \in w : e.status = "Unspent" /\ e.preimage = p
<1>5. Fits(spend[1]) /\ Fits(spend[2])
  BY <1>2, <1>3 DEF TwoSlots, Spendable
<1>6. Fits(spend[3]) /\ Fits(spend[4])
  <2>1. CASE r.fee = 0
    <3>1. fee = <<>>
      BY <2>1 DEF FeeFound
    <3> QED
      BY <1>2, <3>1, PaddedIs
  <2>2. CASE r.fee # 0
    <3>1. FoundFrom(reserved, fee_token_id, r.fee, fee) /\ fee # <<>>
      BY <1>1, <1>4, <2>2, WhatIsFound DEF FeeFound
    <3>2. TwoSlots(reserved, fee_token_id, r.fee, fee)
      BY <1>1, <1>4, <3>1, FoundFills
    <3> QED
      BY <1>2, <3>2 DEF TwoSlots, Spendable, UnspentKept
  <2> QED
    BY <2>1, <2>2
<1> HIDE DEF Fits
<1>7. \A i \in Slots : Fits(spend[i])
  BY <1>5, <1>6, FourSlots
<1> QED
  BY <1>7 DEF Fits, UnspentIn

FourOf(v, f) == Padded(v) \o Padded(f)

LEMMA RangeOfSlots ==
  ASSUME NEW v, NEW f
  PROVE  \A p : p \in Range(FourOf(v, f)) <=> \E i \in Slots : p = FourOf(v, f)[i]
<1> DEFINE A == Padded(v)
           B == Padded(f)
<1>1. A = [i \in 1 .. 2 |-> A[i]] /\ B = [i \in 1 .. 2 |-> B[i]]
  BY DEF Padded, MAX_POSSIBLE_COMMITMENTS
<1> DEFINE T == {A[1], A[2], B[1], B[2]}
<1> HIDE DEF A, B
<1>2. A \in Seq(T) /\ B \in Seq(T) /\ Len(A) = 2 /\ Len(B) = 2
  BY <1>1
<1> HIDE DEF T
<1> DEFINE C == A \o B
<1>3. C \in Seq(T) /\ Len(C) = Len(A) + Len(B)
  BY <1>2, ConcatProperties, Zenon
<1> HIDE DEF C
<1>5. DOMAIN C = 1 .. Len(C)
  BY <1>3
<1>6. DOMAIN C = 1 .. 4
  BY <1>2, <1>3, <1>5
<1> QED
  <2>1. \A p : p \in Range(C) <=> \E i \in Slots : p = C[i]
    BY <1>6 DEF Range, Slots
  <2> QED
    BY <2>1 DEF C, A, B, FourOf

LEMMA ChangeFits ==
  ASSUME NEW r \in Requests, NEW spend, SlotsFit(r, spend), ops \in Nat,
         NEW change, change = ChangeEntries(r.client, new_commitments(r, spend))
  PROVE  /\ \A e \in change : /\ e.status = "PendingCreation" /\ SaltOf(ops, e.preimage.salt)
                              /\ e.nullifier = nullifier_hash(e.preimage, nullifier_key(r.client))
         /\ \A tx : Sent(r, spend, tx) =>
              \A i \in {2, 4} : tx.commitments[i] # Zero =>
                \E e \in change : Hash(e.preimage) = tx.commitments[i]
<1> DEFINE new == new_commitments(r, spend)
           own == zkp_public_key(r.client)
           slot == spend[1].nf_slot_id
<1>1. /\ new[2] = Output(TokenChange(r, spend), r.token, slot, own, TransferSalt(2))
      /\ new[3] = Output(r.fee, fee_token_id, fee_token_id, contract_nf_address, TransferSalt(3))
      /\ new[4] = Output(FeeChange(r, spend), fee_token_id, fee_token_id, own, TransferSalt(4))
  BY DEF new_commitments, TokenChange, FeeChange
<1>2. \A e : e \in change <=> \E i \in 2 .. 4 : /\ new[i].public_key = own /\ new[i] # DefaultPreimage
                                               /\ e = Entry(r.client, new[i], "PendingCreation")
  BY DEF ChangeEntries
<1> HIDE DEF new
<1>3. slot = SlotOf[r.token]
  <2>1. Filled(r, spend, 1)
    BY DEF SlotsFit, Slots
  <2>2. SlotToken(r, 1) = r.token
    BY DEF SlotToken
  <2> QED
    BY <2>1, <2>2 DEF Filled, Owned
<1> HIDE DEF own, slot
<1>4. ASSUME NEW i \in 2 .. 4, new[i] # DefaultPreimage
      PROVE  SaltOf(ops, new[i].salt)
  <2>1. new[i].salt = TransferSalt(i)
    <3>1. i = 2 \/ i = 3 \/ i = 4
      OBVIOUS
    <3>2. \A v, t, s, k, x : Output(v, t, s, k, x) # DefaultPreimage => Output(v, t, s, k, x).salt = x
      BY OutputIs DEF Output
    <3> QED
      BY <1>1, <1>4, <3>1, <3>2
  <2> QED
    BY <2>1 DEF SaltOf, TransferSalt
<1>5. \A e \in change : /\ e.status = "PendingCreation" /\ SaltOf(ops, e.preimage.salt)
                        /\ e.nullifier = nullifier_hash(e.preimage, nullifier_key(r.client))
  BY <1>2, <1>4 DEF Entry
<1>6. ASSUME NEW i \in {2, 4}, NEW v, NEW t, new[i] = Output(v, t, SlotOf[t], own, TransferSalt(i)),
             v # 0
      PROVE  \E e \in change : Hash(e.preimage) = poseidon_hash(t, SlotOf[t], v, own, TransferSalt(i))
  <2>1. new[i] = Preimage(v, t, SlotOf[t], own, TransferSalt(i))
    BY <1>6 DEF Output
  <2>2. /\ new[i].public_key = own /\ new[i].value = v
        /\ Hash(new[i]) = poseidon_hash(t, SlotOf[t], v, own, TransferSalt(i))
    BY <2>1, PreimageIs DEF Hash
  <2>3. new[i] # DefaultPreimage
    BY <1>6, <2>2, DefaultIs
  <2>4. Entry(r.client, new[i], "PendingCreation") \in change
    BY <1>2, <2>2, <2>3
  <2> QED
    BY <2>2, <2>4, EntryIs
<1>7. ASSUME NEW tx, Sent(r, spend, tx), NEW i \in {2, 4}, tx.commitments[i] # Zero
      PROVE  \E e \in change : Hash(e.preimage) = tx.commitments[i]
  <2>1. CASE i = 2
    <3>1. /\ TokenChange(r, spend) # 0
          /\ tx.commitments[2] = poseidon_hash(r.token, SlotOf[r.token], TokenChange(r, spend), own,
                                               TransferSalt(2))
      BY <1>7, <2>1 DEF Sent, own
    <3>2. new[2] = Output(TokenChange(r, spend), r.token, SlotOf[r.token], own, TransferSalt(2))
      BY <1>1, <1>3
    <3>3. \E e \in change : Hash(e.preimage) =
            poseidon_hash(r.token, SlotOf[r.token], TokenChange(r, spend), own, TransferSalt(2))
      BY <1>6, <3>1, <3>2
    <3> QED
      BY <2>1, <3>1, <3>3
  <2>2. CASE i = 4
    <3>1. /\ FeeChange(r, spend) # 0
          /\ tx.commitments[4] = poseidon_hash(fee_token_id, fee_token_id, FeeChange(r, spend), own,
                                               TransferSalt(4))
      BY <1>7, <2>2 DEF Sent, own
    <3>2. SlotOf[fee_token_id] = fee_token_id
      BY LedgerAssumption
    <3> QED
      BY <1>1, <1>6, <2>2, <3>1, <3>2
  <2> QED
    BY <2>1, <2>2
<1> QED
  BY <1>5, <1>7

LEMMA CommitmentOfDeposit ==
  ASSUME NEW d, IsDeposit(d)
  PROVE  /\ to_commitment(d) = poseidon_hash(d.nf_token_id, d.nf_slot_id, d.value, Neutral, d.secret_hash)
         /\ to_commitment(d)[6] = d.secret_hash /\ to_commitment(d) # Zero
         /\ IsHash(to_commitment(d)) /\ to_commitment(d)[5] = Neutral
         /\ \A t : OfToken(t, to_commitment(d)) = DepositOf(t, d)
<1>1. d.nf_token_id \in Tokens /\ d.value \in Nat /\ d.nf_token_id # Zero
  BY LedgerAssumption DEF IsDeposit
<1>2. to_commitment(d) = poseidon_hash(d.nf_token_id, d.nf_slot_id, d.value, Neutral, d.secret_hash)
  BY <1>1 DEF to_commitment, IsPadding
<1> DEFINE h == to_commitment(d)
<1> HIDE DEF h
<1>3. h = poseidon_hash(d.nf_token_id, d.nf_slot_id, d.value, Neutral, d.secret_hash)
  BY <1>2 DEF h
<1>4. /\ h[2] = d.nf_token_id /\ h[4] = d.value /\ h[5] = Neutral /\ h[6] = d.secret_hash
      /\ h = poseidon_hash(h[2], h[3], h[4], h[5], h[6])
  BY <1>3, HashIs
<1>5. IsHash(h)
  BY <1>1, <1>4 DEF IsHash
<1>6. h # Zero
  BY <1>3, HashIsNotZero
<1>7. \A t : OfToken(t, h) = DepositOf(t, d)
  BY <1>4 DEF OfToken, DepositOf
<1> QED
  BY <1>2, <1>4, <1>5, <1>6, <1>7 DEF h

\* What handling a transfer or a withdraw changes: the entries kept, the
\* change, and what is sent.
Request(c, kept, change, sent) ==
  /\ wallet' = [wallet EXCEPT ![c] = kept \cup change]
  /\ ops' = ops + 1 /\ mined' = mined /\ escrows' = escrows /\ deposited' = deposited
  /\ claims \subseteq claims'
  /\ pool' = pool \cup sent

KeepsEntries(c, kept, sent) ==
  /\ \A e \in kept : EntryFits(c, e) /\ \E f \in wallet[c] : f.preimage = e.preimage
  /\ \A e \in wallet[c] : \E f \in kept : f.preimage = e.preimage
  /\ \A e \in kept : e.status = "Unspent" => Hash(e.preimage) \notin Spends(sent)
  /\ \A h \in Spends(sent) : \E e \in wallet[c] : Hash(e.preimage) = h

NewChange(c, change) ==
  \A e \in change : /\ e.status = "PendingCreation" /\ SaltOf(ops, e.preimage.salt)
                    /\ e.nullifier = nullifier_hash(e.preimage, nullifier_key(c))

LEMMA RequestWallet ==
  ASSUME WalletInv, LedgerInv, NEW c \in Clients, NEW kept, NEW change, NEW sent,
         Request(c, kept, change, sent), KeepsEntries(c, kept, sent), NewChange(c, change)
  PROVE  /\ wallet'[c] = kept \cup change
         /\ \A d \in Clients : d # c => wallet'[d] = wallet[d]
         /\ EntriesFit' /\ NotShared'
         /\ \A h : Known(h) => Known(h)'
<1>1. ops \in Nat /\ ops' = ops + 1 /\ mined' = mined /\ pool' = pool \cup sent
  BY DEF LedgerInv, Request
<1>2. /\ wallet'[c] = kept \cup change
      /\ \A d \in Clients : d # c => wallet'[d] = wallet[d]
  <2>1. wallet = [d \in Clients |-> wallet[d]]
    BY DEF WalletInv, WalletsHeld
  <2> QED
    BY <2>1 DEF Request
<1>3. \A h : Known(h) => Known(h)'
  <2>1. \A d \in Clients : \A e \in wallet[d] : \E f \in wallet'[d] : f.preimage = e.preimage
    BY <1>2 DEF KeepsEntries
  <2> QED
    BY <2>1, KnownStays
<1>4. Spends(pool' \cup mined) = Spends(pool \cup mined) \cup Spends(sent)
  <2>1. pool' \cup mined = (pool \cup mined) \cup sent
    BY <1>1
  <2>2. Spends((pool \cup mined) \cup sent) = Spends(pool \cup mined) \cup Spends(sent)
    BY OfUnion
  <2> QED
    BY <2>1, <2>2
<1>5. ASSUME NEW e \in kept PROVE EntryFits(c, e)'
  <2>1. EntryFits(c, e) /\ (e.status = "Unspent" => Hash(e.preimage) \notin Spends(sent))
    BY DEF KeepsEntries
  <2>2. e.status = "Unspent" => Hash(e.preimage) \notin Spends(pool' \cup mined)
    BY <1>4, <2>1 DEF EntryFits
  <2> QED
    BY <1>1, <2>1, <2>2, EntryStays
<1>6. ASSUME NEW e \in change PROVE EntryFits(c, e)' /\ ~ Past(e.preimage.salt)
  <2>1. /\ e.status = "PendingCreation" /\ SaltOf(ops, e.preimage.salt)
        /\ e.nullifier = nullifier_hash(e.preimage, nullifier_key(c))
    BY DEF NewChange
  <2>2. ~ Past(e.preimage.salt) /\ Past(e.preimage.salt)'
    BY <1>1, <2>1, NewSalts
  <2>3. Hash(e.preimage) \notin Commitments(mined)
    BY <2>2, SaltIs DEF LedgerInv, MinedTxs, OnChain
  <2> QED
    BY <1>1, <2>1, <2>2, <2>3 DEF EntryFits
<1>7. ASSUME NEW d \in Clients, d # c, NEW e \in wallet[d] PROVE EntryFits(d, e)'
  <2>1. EntryFits(d, e)
    BY DEF LedgerInv, EntriesFit
  <2>2. Hash(e.preimage) \notin Spends(sent)
    <3>1. \A f \in wallet[c] : Hash(e.preimage) # Hash(f.preimage)
      BY <1>7 DEF LedgerInv, NotShared
    <3> QED
      BY <3>1 DEF KeepsEntries
  <2>3. e.status = "Unspent" => Hash(e.preimage) \notin Spends(pool' \cup mined)
    BY <1>4, <2>1, <2>2 DEF EntryFits
  <2> QED
    BY <1>1, <2>1, <2>3, EntryStays
<1>8. EntriesFit'
  <2>1. ASSUME NEW d \in Clients, NEW e \in wallet'[d] PROVE EntryFits(d, e)'
    BY <1>2, <1>5, <1>6, <1>7
  <2> QED
    BY <2>1 DEF EntriesFit
<1>9. NotShared'
  <2>1. \A e \in wallet'[c] : ~ Past(e.preimage.salt) \/ \E f \in wallet[c] : f.preimage = e.preimage
    BY <1>2, <1>6 DEF KeepsEntries
  <2> QED
    BY <1>2, <2>1, StillNotShared DEF LedgerInv
<1> QED
  BY <1>2, <1>3, <1>8, <1>9

LEMMA ApartBoth ==
  ASSUME NEW tx, NEW other, Apart(tx, other)
  PROVE  Apart(other, tx)
<1>1. \A A, B : A \cap B = {} => B \cap A = {}
  OBVIOUS
<1> QED
  BY <1>1 DEF Apart

\* What is sent joins the pool; it is at most one transaction.
LEMMA RequestLedger ==
  ASSUME WalletInv, LedgerInv, NEW c \in Clients, NEW kept, NEW change, NEW sent,
         Request(c, kept, change, sent), KeepsEntries(c, kept, sent), NewChange(c, change),
         IsFiniteSet(sent), \A tx \in sent : InPool(tx)',
         \A tx, other \in sent : tx = other,
         \A tx \in sent, other \in pool : Apart(tx, other),
         \A tx \in sent : \A h \in Commitments({tx}) : SaltOf(ops, h[6])
  PROVE  LedgerInv'
<1>1. /\ ops \in Nat /\ ops' = ops + 1 /\ mined' = mined /\ pool' = pool \cup sent
      /\ escrows' = escrows /\ deposited' = deposited /\ claims \subseteq claims'
  BY DEF LedgerInv, Request
<1>2. EntriesFit' /\ NotShared' /\ \A h : Known(h) => Known(h)'
  BY RequestWallet
<1>3. MinedTxs' /\ \A tx \in pool : InPool(tx)'
  BY <1>1, <1>2, ChainStays DEF LedgerInv, PoolTxs
<1>4. PoolTxs'
  <2>1. IsFiniteSet(pool')
    BY <1>1, FS_Union DEF LedgerInv, PoolTxs
  <2>2. \A tx, other : Apart(tx, other) => Apart(other, tx)
    BY ApartBoth
  <2>3. \A tx, other \in pool' : tx # other => Apart(tx, other)
    BY <1>1, <2>2 DEF LedgerInv, PoolTxs
  <2>4. \A tx \in pool' : InPool(tx)'
    BY <1>1, <1>3
  <2> QED
    BY <2>1, <2>3, <2>4 DEF PoolTxs
<1>5. EscrowData'
  <2>1. ASSUME NEW d \in escrows
        PROVE  /\ IsDeposit(d) /\ Past(d.secret_hash)' /\ Known(to_commitment(d))'
               /\ to_commitment(d) \notin Commitments(pool' \cup mined)
    <3>1. /\ IsDeposit(d) /\ Past(d.secret_hash) /\ Known(to_commitment(d))
          /\ to_commitment(d) \notin Commitments(pool \cup mined)
      BY DEF LedgerInv, EscrowData
    <3>2. Past(d.secret_hash)'
      BY <1>1, <3>1, StillPast
    <3>3. to_commitment(d) \notin Commitments(sent)
      <4>1. to_commitment(d)[6] = d.secret_hash
        BY <3>1, CommitmentOfDeposit
      <4>2. \A h \in Commitments(sent) : \E tx \in sent : h \in Commitments({tx})
        BY OfMembers
      <4>3. \A h \in Commitments(sent) : ~ Past(h[6])
        BY <1>1, <4>2, NewSalts
      <4> QED
        BY <3>1, <4>1, <4>3
    <3>4. Commitments(pool' \cup mined) = Commitments(pool \cup mined) \cup Commitments(sent)
      <4>1. pool' \cup mined = (pool \cup mined) \cup sent
        BY <1>1
      <4>2. Commitments((pool \cup mined) \cup sent) = Commitments(pool \cup mined) \cup Commitments(sent)
        BY OfUnion
      <4> QED
        BY <4>1, <4>2
    <3> QED
      BY <1>2, <3>1, <3>2, <3>3, <3>4
  <2>2. IsFiniteSet(escrows')
    BY <1>1 DEF LedgerInv, EscrowData
  <2> QED
    BY <1>1, <2>1, <2>2 DEF EscrowData
<1>6. LedgerBalances'
  BY <1>1 DEF LedgerInv, LedgerBalances
<1> QED
  BY <1>1, <1>2, <1>3, <1>4, <1>5, <1>6 DEF LedgerInv

\* What a client sends is new to the pool and to the chain.
LEMMA SentIsNew ==
  ASSUME LedgerInv, NEW r \in Requests, r.kind \in {"transfer", "withdraw"},
         NEW spend, SlotsFit(r, spend), TokenChange(r, spend) \in Nat, FeeChange(r, spend) \in Nat,
         NEW tx, Sent(r, spend, tx),
         UnspentIn(wallet[r.client], spend)
  PROVE  /\ Operation(tx)
         /\ \A h \in Commitments({tx}) : SaltOf(ops, h[6]) /\ h \notin Commitments(mined)
         /\ \A h \in Spends({tx}) :
              /\ h \in Commitments(mined) /\ h \notin Spends(mined)
              /\ \E i \in Slots : h = Hash(spend[i]) /\ Owned(r.client, spend[i])
              /\ \E e \in wallet[r.client] : Hash(e.preimage) = h
         /\ \A other \in pool : Apart(tx, other)
<1>1. ops \in Nat /\ PoolTxs /\ MinedTxs /\ EntriesFit
  BY DEF LedgerInv
<1>2. Operation(tx) /\ \A h \in Commitments({tx}) : SaltOf(ops, h[6])
  BY <1>1, SentIsOperation
<1>3. \A h \in Commitments({tx}) : h \notin Commitments(pool \cup mined)
  BY <1>1, <1>2, NewSalts, TakenSalts
<1>4. r.client \in Clients
  BY LedgerAssumption
<1>5. /\ Commitments(pool \cup mined) = Commitments(pool) \cup Commitments(mined)
      /\ Spends(pool \cup mined) = Spends(pool) \cup Spends(mined)
  BY OfUnion
<1>6. ASSUME NEW h \in Spends({tx})
      PROVE  /\ h \in Commitments(mined) /\ h \notin Spends(mined) /\ h \notin Spends(pool)
             /\ \E i \in Slots : h = Hash(spend[i]) /\ Owned(r.client, spend[i])
             /\ \E e \in wallet[r.client] : Hash(e.preimage) = h
  <2>1. Spends({tx}) = {Hash(spend[i]) : i \in {i \in Slots : Filled(r, spend, i)}}
    BY <1>2, SentSpends DEF Operation
  <2>2. PICK i \in Slots : Filled(r, spend, i) /\ h = Hash(spend[i])
    BY <2>1
  <2>3. Owned(r.client, spend[i]) /\ spend[i] # DefaultPreimage
    BY <2>2, OwnedIsReal DEF Filled
  <2>4. PICK e \in wallet[r.client] : e.status = "Unspent" /\ e.preimage = spend[i]
    BY <2>3 DEF UnspentIn
  <2>5. EntryFits(r.client, e)
    BY <1>1, <1>4 DEF EntriesFit
  <2>6. h \in Commitments(mined) /\ h \notin Spends(pool \cup mined)
    BY <2>2, <2>4, <2>5 DEF EntryFits
  <2> QED
    BY <1>5, <2>2, <2>3, <2>4, <2>6
<1>7. ASSUME NEW other \in pool PROVE Apart(tx, other)
  <2>1. \A h \in Commitments({other}) : h \in Commitments(pool)
    BY OfMembers
  <2>2. \A h \in Spends({other}) : h \in Spends(pool)
    BY OfMembers
  <2>3. Commitments({tx}) \cap Commitments({other}) = {}
    BY <1>3, <1>5, <2>1
  <2>4. Spends({tx}) \cap Spends({other}) = {}
    BY <1>6, <2>2
  <2> QED
    BY <2>3, <2>4 DEF Apart
<1> QED
  BY <1>2, <1>3, <1>5, <1>6, <1>7

\* What find_usable_commitments found is on chain.
LEMMA FoundOnChain ==
  ASSUME EntriesFit, NEW c \in Clients, HeldBy(c, wallet[c]), NEW token, NEW target \in Nat,
         NEW value, FoundFrom(wallet[c], token, target, value), value # <<>>, NEW p \in Range(value)
  PROVE  Hash(p) \in Commitments(mined)
<1>1. TwoSlots(wallet[c], token, target, value)
  BY FoundFills
<1>2. Spendable(wallet[c], token, p)
  BY <1>1 DEF TwoSlots
<1>3. PICK e \in wallet[c] : e.status = "Unspent" /\ e.preimage = p
  BY <1>2 DEF Spendable
<1>4. EntryFits(c, e)
  BY DEF EntriesFit
<1> QED
  BY <1>3, <1>4 DEF EntryFits

\* The value and the fee, reserved one after the other.
LEMMA KeptIs ==
  ASSUME WalletInv, LedgerInv, NEW r \in Requests, r.kind \in {"transfer", "withdraw"},
         NEW value, value # <<>>, FoundFrom(wallet[r.client], r.token, r.value, value),
         NEW reserved, reserved = mark_commitments_pending_spend(wallet[r.client], Range(value))
  PROVE  /\ \A e \in reserved : /\ EntryFits(r.client, e) /\ (e.status = "Unspent" => e \in wallet[r.client])
                                /\ \E f \in wallet[r.client] : f.preimage = e.preimage
         /\ \A e \in wallet[r.client] : \E f \in reserved : f.preimage = e.preimage
         /\ HeldBy(r.client, reserved)
<1>1. r.client \in Clients /\ r.value \in Nat /\ EntriesFit
  BY LedgerAssumption DEF LedgerInv
<1>2. HeldBy(r.client, wallet[r.client])
  BY <1>1 DEF WalletInv, WalletsHeld
<1>3. \A p \in Range(value) : Hash(p) \in Commitments(mined)
  BY <1>1, <1>2, FoundOnChain
<1>4. \A e \in wallet[r.client] : EntryFits(r.client, e)
  BY <1>1 DEF EntriesFit
<1>5. \A e \in wallet[r.client] : e.preimage \in Range(value) => Hash(e.preimage) \in Commitments(mined)
  BY <1>3
<1>6. /\ \A e \in reserved : EntryFits(r.client, e) /\ (e.status = "Unspent" => e \in wallet[r.client])
      /\ \A e \in wallet[r.client] : \E f \in reserved : f.preimage = e.preimage
  BY <1>2, <1>4, <1>5, PendingFits
<1>7. HeldBy(r.client, reserved) /\ \A e \in reserved : \E f \in wallet[r.client] : f.preimage = e.preimage
  BY <1>2, MarkPendingIs
<1> QED
  BY <1>6, <1>7

\* The commitments chosen for a request, and the four slots they fill.
Chosen(r, value, reserved, fee, spend) ==
  /\ r.kind \in {"transfer", "withdraw"}
  /\ value # <<>> /\ FoundFrom(wallet[r.client], r.token, r.value, value)
  /\ reserved = mark_commitments_pending_spend(wallet[r.client], Range(value))
  /\ fee = FeeFound(r, reserved) /\ (r.fee = 0 \/ fee # <<>>)
  /\ spend = Padded(value) \o Padded(fee)

LEMMA ChosenFits ==
  ASSUME WalletInv, LedgerInv, NEW r \in Requests, NEW value, NEW reserved, NEW fee, NEW spend,
         Chosen(r, value, reserved, fee, spend)
  PROVE  /\ r.kind \in {"transfer", "withdraw"}
         /\ \A e \in reserved : /\ EntryFits(r.client, e)
                                /\ (e.status = "Unspent" => e \in wallet[r.client])
                                /\ \E f \in wallet[r.client] : f.preimage = e.preimage
         /\ \A e \in wallet[r.client] : \E f \in reserved : f.preimage = e.preimage
         /\ HeldBy(r.client, reserved)
         /\ SlotsFit(r, spend)
         /\ TokenChange(r, spend) \in Nat /\ FeeChange(r, spend) \in Nat
         /\ UnspentIn(wallet[r.client], spend)
         /\ \A p : p \in Range(spend) <=> \E i \in Slots : p = spend[i]
<1>1. /\ r.kind \in {"transfer", "withdraw"}
      /\ value # <<>> /\ FoundFrom(wallet[r.client], r.token, r.value, value)
      /\ reserved = mark_commitments_pending_spend(wallet[r.client], Range(value))
      /\ fee = FeeFound(r, reserved) /\ (r.fee = 0 \/ fee # <<>>)
  BY DEF Chosen
<1>2. InSlots(spend, value, fee) /\ \A p : p \in Range(spend) <=> \E i \in Slots : p = spend[i]
  <2>1. spend = Padded(value) \o Padded(fee)
    BY DEF Chosen
  <2>2. InSlots(Padded(value) \o Padded(fee), value, fee)
    BY PaddedAre
  <2> DEFINE C == FourOf(value, fee)
  <2>3. \A p : p \in Range(C) <=> \E i \in Slots : p = C[i]
    BY RangeOfSlots
  <2>4. InSlots(spend, value, fee)
    BY <2>1, <2>2, Zenon
  <2>5. \A p : p \in Range(spend) <=> \E i \in Slots : p = spend[i]
    <3>1. spend = C
      BY <2>1 DEF FourOf
    <3> HIDE DEF C
    <3> QED
      BY <2>3, <3>1
  <2> QED
    BY <2>4, <2>5
<1>3. HeldBy(r.client, wallet[r.client])
  BY LedgerAssumption DEF WalletInv, WalletsHeld
<1>4. /\ \A e \in reserved : /\ EntryFits(r.client, e)
                              /\ (e.status = "Unspent" => e \in wallet[r.client])
                              /\ \E f \in wallet[r.client] : f.preimage = e.preimage
      /\ \A e \in wallet[r.client] : \E f \in reserved : f.preimage = e.preimage
      /\ HeldBy(r.client, reserved)
  BY <1>1, KeptIs
<1>5. SlotsFit(r, spend) /\ TokenChange(r, spend) \in Nat /\ FeeChange(r, spend) \in Nat
  BY <1>1, <1>2, <1>3, SpendFits
<1>6. UnspentIn(wallet[r.client], spend)
  <2>1. UnspentKept(reserved, wallet[r.client])
    BY <1>4 DEF UnspentKept
  <2>2. InSlots(spend, value, fee)
    BY <1>2
  <2> QED
    BY <1>1, <1>3, <2>1, <2>2, SpendsUnspent
<1> QED
  BY <1>1, <1>2, <1>4, <1>5, <1>6

\* What becomes of the wallet once the operation is built.
LEMMA SpentIs ==
  ASSUME WalletInv, LedgerInv, NEW r \in Requests, NEW value, NEW reserved, NEW fee, NEW spend,
         Chosen(r, value, reserved, fee, spend),
         NEW kept, kept = mark_commitments_pending_spend(reserved, Range(spend))
  PROVE  /\ \A e \in kept : EntryFits(r.client, e) /\ \E f \in wallet[r.client] : f.preimage = e.preimage
         /\ \A e \in wallet[r.client] : \E f \in kept : f.preimage = e.preimage
         /\ \A e \in kept : Owned(r.client, e.preimage)
         /\ \A e \in kept : e.status = "Unspent" => \A i \in Slots : spend[i] # e.preimage
<1> DEFINE c == r.client
<1> HIDE DEF c
<1>1. c \in Clients /\ EntriesFit
  BY LedgerAssumption DEF LedgerInv, c
<1>3. /\ \A e \in reserved : /\ EntryFits(c, e) /\ (e.status = "Unspent" => e \in wallet[c])
                             /\ \E f \in wallet[c] : f.preimage = e.preimage
      /\ \A e \in wallet[c] : \E f \in reserved : f.preimage = e.preimage
      /\ HeldBy(c, reserved)
  BY ChosenFits DEF c
<1>5. UnspentIn(wallet[c], spend)
  BY ChosenFits DEF c
<1>6. \A p : p \in Range(spend) <=> \E i \in Slots : p = spend[i]
  BY ChosenFits
<1>7. ASSUME NEW e \in reserved, e.preimage \in Range(spend)
      PROVE  Hash(e.preimage) \in Commitments(mined)
  <2>1. e.preimage # DefaultPreimage
    BY <1>3, OwnedIsReal DEF HeldBy
  <2>2. PICK f \in wallet[c] : f.status = "Unspent" /\ f.preimage = e.preimage
    BY <1>5, <1>6, <1>7, <2>1 DEF UnspentIn
  <2>3. EntryFits(c, f)
    BY <1>1 DEF EntriesFit
  <2> QED
    BY <2>2, <2>3 DEF EntryFits
<1>8. \A e \in reserved : EntryFits(c, e)
  BY <1>3
<1>9. /\ \A e \in kept : EntryFits(c, e)
      /\ \A e \in reserved : \E f \in kept : f.preimage = e.preimage
  BY <1>3, <1>7, <1>8, PendingFits
<1>10. /\ HeldBy(c, kept) /\ \A e \in kept : \E f \in reserved : f.preimage = e.preimage
       /\ \A token, p : Spendable(kept, token, p) => p \notin Range(spend)
  BY <1>3, MarkPendingIs
<1>11. ASSUME NEW e \in kept, e.status = "Unspent" PROVE \A i \in Slots : spend[i] # e.preimage
  <2>1. Spendable(kept, e.preimage.nf_token_id, e.preimage)
    BY <1>11 DEF Spendable
  <2> QED
    BY <1>6, <1>10, <2>1
<1>12. \A e \in kept : Owned(c, e.preimage)
  BY <1>10 DEF HeldBy
<1>13. \A e \in kept : \E f \in wallet[c] : f.preimage = e.preimage
  BY <1>3, <1>10
<1>14. \A e \in wallet[c] : \E f \in kept : f.preimage = e.preimage
  BY <1>3, <1>9
<1> QED
  BY <1>9, <1>11, <1>12, <1>13, <1>14 DEF c

LEMMA SpendLedger ==
  ASSUME WalletInv, LedgerInv, NEW r \in Requests, NEW value, NEW reserved, NEW fee, NEW spend,
         Chosen(r, value, reserved, fee, spend),
         NEW new, new = new_commitments(r, spend),
         NEW tx, tx = PublicInputs(Inputs(r, spend, new)),
         NEW kept, kept = mark_commitments_pending_spend(reserved, Range(spend)),
         NEW change, change = ChangeEntries(r.client, new),
         NEW sent, sent = IF Proved(r, spend, new) THEN {tx} ELSE {},
         Spend(r, reserved, spend), UNCHANGED <<escrows, mined, blocks, deposited>>
  PROVE  LedgerInv'
<1> DEFINE c == r.client
<1>1. /\ wallet' = [wallet EXCEPT ![c] = kept \cup change]
      /\ ops' = ops + 1 /\ pool' = pool \cup sent
      /\ claims' = IF Proved(r, spend, new) /\ r.kind = "withdraw" THEN claims \cup {Claim(r, spend)}
                   ELSE claims
  BY DEF Spend, handle_client_operation, Done
<1> HIDE DEF c
<1>2. c \in Clients /\ r.value \in Nat /\ r.fee \in Nat /\ ops \in Nat
  BY LedgerAssumption DEF LedgerInv, c
<1>5. /\ SlotsFit(r, spend) /\ r.kind \in {"transfer", "withdraw"}
      /\ TokenChange(r, spend) \in Nat /\ FeeChange(r, spend) \in Nat
      /\ UnspentIn(wallet[c], spend)
  BY ChosenFits DEF c
<1>6. Sent(r, spend, tx)
  BY <1>5, SentTx
<1>7. /\ \A e \in kept : EntryFits(c, e) /\ \E f \in wallet[c] : f.preimage = e.preimage
      /\ \A e \in wallet[c] : \E f \in kept : f.preimage = e.preimage
      /\ \A e \in kept : Owned(c, e.preimage)
      /\ \A e \in kept : e.status = "Unspent" => \A i \in Slots : spend[i] # e.preimage
  BY SpentIs DEF c
<1>8. /\ \A e \in change : /\ e.status = "PendingCreation" /\ SaltOf(ops, e.preimage.salt)
                           /\ e.nullifier = nullifier_hash(e.preimage, nullifier_key(c))
      /\ \A i \in {2, 4} : tx.commitments[i] # Zero =>
           \E e \in change : Hash(e.preimage) = tx.commitments[i]
  BY <1>2, <1>5, <1>6, ChangeFits DEF c
<1>9. /\ sent = {} \/ sent = {tx}
      /\ sent # {} => Proved(r, spend, new)
  OBVIOUS
<1>10. /\ Operation(tx)
       /\ \A h \in Commitments({tx}) : SaltOf(ops, h[6]) /\ h \notin Commitments(mined)
       /\ \A h \in Spends({tx}) :
            /\ h \in Commitments(mined) /\ h \notin Spends(mined)
            /\ \E i \in Slots : h = Hash(spend[i]) /\ Owned(c, spend[i])
            /\ \E e \in wallet[c] : Hash(e.preimage) = h
       /\ \A other \in pool : Apart(tx, other)
  BY <1>5, <1>6, SentIsNew DEF c
<1>11. Request(c, kept, change, sent)
  BY <1>1 DEF Request
<1>12. NewChange(c, change)
  BY <1>8 DEF NewChange
<1>13. \A h \in Spends(sent) : sent = {tx} /\ h \in Spends({tx})
  <2>1. \A h \in Spends(sent) : \E t \in sent : h \in Spends({t})
    BY OfMembers
  <2> QED
    BY <1>9, <2>1
<1>14. KeepsEntries(c, kept, sent)
  <2>1. ASSUME NEW e \in kept, e.status = "Unspent", Hash(e.preimage) \in Spends(sent)
        PROVE  FALSE
    <3>1. PICK i \in Slots : Hash(e.preimage) = Hash(spend[i]) /\ Owned(c, spend[i])
      BY <1>10, <1>13, <2>1
    <3>2. Owned(c, e.preimage)
      BY <1>7
    <3>3. e.preimage = spend[i]
      BY <3>1, <3>2, OwnedByHash
    <3> QED
      BY <1>7, <2>1, <3>3
  <2>2. \A h \in Spends(sent) : \E e \in wallet[c] : Hash(e.preimage) = h
    BY <1>10, <1>13
  <2> QED
    BY <1>7, <2>1, <2>2 DEF KeepsEntries
<1>15. ASSUME sent = {tx} PROVE InPool(tx)'
  <2>1. Claimed(tx)'
    <3>1. IsWithdraw(tx) => r.kind = "withdraw" /\ WithdrawData(tx) = Claim(r, spend)
      BY <1>2, <1>5, <1>6, SentIsFormed
    <3>2. r.kind = "withdraw" => Claim(r, spend) \in claims'
      BY <1>1, <1>9, <1>15
    <3> QED
      BY <3>1, <3>2 DEF Claimed
  <2>2. \A h \in Commitments({tx}) : Past(h[6])'
    BY <1>1, <1>2, <1>10, NewSalts
  <2>3. ASSUME NEW i \in {2, 4}, tx.commitments[i] # Zero PROVE Known(tx.commitments[i])'
    <3>1. wallet'[c] = kept \cup change
      BY <1>2, <1>11, <1>12, <1>14, RequestWallet
    <3> QED
      BY <1>2, <1>8, <2>3, <3>1 DEF Known
  <2>4. Commitments({tx}) \cap Commitments(mined) = {}
    BY <1>10
  <2>5. Spends({tx}) \subseteq Commitments(mined) /\ Spends({tx}) \cap Spends(mined) = {}
    BY <1>10
  <2>6. mined' = mined
    OBVIOUS
  <2> QED
    BY <1>10, <2>1, <2>2, <2>3, <2>4, <2>5, <2>6 DEF InPool
<1>16. IsFiniteSet(sent)
  BY <1>9, FS_EmptySet, FS_Singleton
<1>17. /\ \A t \in sent : InPool(t)'
       /\ \A t, other \in sent : t = other
       /\ \A t \in sent, other \in pool : Apart(t, other)
       /\ \A t \in sent : \A h \in Commitments({t}) : SaltOf(ops, h[6])
  BY <1>9, <1>10, <1>15
<1> QED
  BY <1>2, <1>11, <1>12, <1>14, <1>16, <1>17, RequestLedger

LEMMA OperateLedger ==
  ASSUME WalletInv, LedgerInv, NEW r \in Requests, r.kind \in {"transfer", "withdraw"}, Operate(r)
  PROVE  LedgerInv'
<1> DEFINE c == r.client
           value == find_usable_commitments(wallet[c], r.token, r.value)
           reserved == mark_commitments_pending_spend(wallet[c], Range(value))
           fee == FeeFound(r, reserved)
<1>1. Reserve(r, value, reserved) /\ UNCHANGED <<escrows, mined, blocks, deposited>>
  BY DEF Operate
<1> HIDE DEF value, reserved, fee
<1>2. c \in Clients /\ r.value \in Nat /\ ops \in Nat
  BY LedgerAssumption DEF LedgerInv
<1>3. HeldBy(c, wallet[c]) /\ wallet = [d \in Clients |-> wallet[d]]
  BY <1>2 DEF WalletInv, WalletsHeld
<1>4. FoundFrom(wallet[c], r.token, r.value, value)
  BY <1>2, <1>3, WhatIsFound DEF value
<1>5. Spends({}) = {}
  <2>1. Nullifiers({}) = {}
    BY DEF Nullifiers
  <2> QED
    BY <2>1 DEF Spends
<1>6. IsFiniteSet({})
  BY FS_EmptySet
<1>7. NewChange(c, {})
  BY DEF NewChange
<1>8. ASSUME NEW kept, KeepsEntries(c, kept, {}), wallet' = [wallet EXCEPT ![c] = kept],
             pool' = pool, claims' = claims, ops' = ops + 1
      PROVE  LedgerInv'
  <2>1. kept \cup {} = kept /\ pool \cup {} = pool
    OBVIOUS
  <2>2. Request(c, kept, {}, {})
    BY <1>1, <1>8, <2>1 DEF Request
  <2> QED
    BY <1>2, <1>6, <1>7, <1>8, <2>2, RequestLedger
<1>9. CASE value = <<>>
  <2>1. UNCHANGED <<wallet, pool, claims>> /\ ops' = ops + 1
    BY <1>1, <1>9 DEF Reserve, Done
  <2>2. KeepsEntries(c, wallet[c], {})
    BY <1>2, <1>5 DEF KeepsEntries, LedgerInv, EntriesFit
  <2>3. wallet' = [wallet EXCEPT ![c] = wallet[c]]
    BY <1>3, <2>1
  <2> QED
    BY <1>8, <2>1, <2>2, <2>3
<1>10. CASE value # <<>>
  <2>1. PayFee(r, reserved, value, fee)
    BY <1>1, <1>10 DEF Reserve, fee, FeeFound
  <2>2. CASE r.fee # 0 /\ fee = <<>>
    <3>1. /\ wallet' = [wallet EXCEPT ![c] = reserved] /\ pool' = pool
          /\ claims' = claims /\ ops' = ops + 1
      BY <2>1, <2>2 DEF PayFee, Done
    <3>2. KeepsEntries(c, reserved, {})
      <4>1. /\ \A e \in reserved : /\ EntryFits(c, e)
                                   /\ \E f \in wallet[c] : f.preimage = e.preimage
            /\ \A e \in wallet[c] : \E f \in reserved : f.preimage = e.preimage
        <5>1. reserved = mark_commitments_pending_spend(wallet[c], Range(value))
          BY DEF reserved
        <5> QED
          BY <1>4, <1>10, <5>1, KeptIs
      <4> QED
        BY <1>5, <4>1 DEF KeepsEntries
    <3> QED
      BY <1>8, <3>1, <3>2
  <2>3. CASE r.fee = 0 \/ fee # <<>>
    <3> DEFINE spend == Padded(value) \o Padded(fee)
    <3>1. Spend(r, reserved, spend)
      BY <2>1, <2>3 DEF PayFee
    <3>2. Chosen(r, value, reserved, fee, spend)
      BY <1>4, <1>10, <2>3 DEF Chosen, reserved, fee
    <3> HIDE DEF spend
    <3> QED
      BY <1>1, <3>1, <3>2, SpendLedger
  <2> QED
    BY <2>2, <2>3
<1> QED
  BY <1>9, <1>10

-----------------------------------------------------------------------------
(* The transaction of up to four deposits *)

LEMMA SetToSeqIs ==
  ASSUME NEW S, IsFiniteSet(S), NEW list, list = SetToSeq(S)
  PROVE  /\ Cardinality(S) \in Nat /\ list \in Seq(S) /\ Len(list) = Cardinality(S)
         /\ \A x \in S : \E i \in 1 .. Cardinality(S) : list[i] = x
<1> DEFINE n == Cardinality(S)
<1>1. n \in Nat /\ ExistsBijection(1 .. n, S)
  BY FS_CardinalityType
<1>2. PICK g : g \in Bijection(1 .. n, S)
  BY <1>1 DEF ExistsBijection
<1>3. g \in [1 .. n -> S] /\ IsInjective(g)
  BY <1>2 DEF Bijection, Injection, IsInjective
<1>4. list = CHOOSE f \in [1 .. n -> S] : IsInjective(f)
  BY DEF SetToSeq
<1> HIDE DEF n
<1>5. list \in [1 .. n -> S] /\ IsInjective(list)
  BY <1>3, <1>4
<1>6. list \in Injection(1 .. n, S)
  BY <1>5 DEF Injection, IsInjective
<1>7. Cardinality(1 .. n) = Cardinality(S)
  BY <1>1, FS_Interval DEF n
<1>8. list \in Surjection(1 .. n, S)
  BY <1>6, <1>7, FS_Injection
<1>9. \A x \in S : \E i \in 1 .. n : list[i] = x
  BY <1>8 DEF Surjection
<1>10. list \in Seq(S) /\ Len(list) = n
  BY <1>1, <1>5
<1> QED
  BY <1>1, <1>9, <1>10 DEF n

LEMMA DepositTxIs ==
  ASSUME NEW list, Len(list) \in Nat, DOMAIN list = 1 .. Len(list),
         \A i \in DOMAIN list : IsDeposit(list[i]), NEW tx, tx = DepositTx(list)
  PROVE  /\ WellFormed(tx) /\ ~ IsWithdraw(tx) /\ tx.fee = 0
         /\ Nullifiers({tx}) = {} /\ Spends({tx}) = {}
         /\ \A h : h \in Commitments({tx}) <=>
                     \E i \in Slots : i <= Len(list) /\ h = to_commitment(list[i])
<1> DEFINE d == [i \in Slots |-> IF i <= Len(list) THEN list[i] ELSE NoDeposit]
<1>1. /\ tx.commitments = [i \in Slots |-> to_commitment(d[i])]
      /\ tx.nullifiers = [i \in Slots |-> Zero] /\ tx.fee = 0
  BY DEF DepositTx, build_deposit_circuit
<1>2. to_commitment(NoDeposit) = Zero
  BY DEF to_commitment, NoDeposit, IsPadding
<1>3. \A i \in Slots : d[i] = IF i <= Len(list) THEN list[i] ELSE NoDeposit
  OBVIOUS
<1> HIDE DEF d
<1>4. ASSUME NEW i \in Slots
      PROVE  /\ tx.commitments[i] = IF i <= Len(list) THEN to_commitment(list[i]) ELSE Zero
             /\ i <= Len(list) => tx.commitments[i] # Zero /\ IsHash(tx.commitments[i])
  <2>1. CASE i <= Len(list)
    <3>1. i \in DOMAIN list
      BY <2>1 DEF Slots
    <3>2. to_commitment(list[i]) # Zero /\ IsHash(to_commitment(list[i]))
      BY <3>1, CommitmentOfDeposit
    <3> QED
      BY <1>1, <1>3, <2>1, <3>2
  <2>2. CASE ~ (i <= Len(list))
    BY <1>1, <1>2, <1>3, <2>2
  <2> QED
    BY <2>1, <2>2
<1>5. \A i \in Slots : tx.nullifiers[i] = Zero
  BY <1>1
<1>6. ~ IsWithdraw(tx)
  BY <1>5 DEF IsWithdraw, Slots
<1>7. WellFormed(tx)
  <2>1. tx.commitments = [i \in Slots |-> tx.commitments[i]]
    BY <1>1
  <2>2. tx.nullifiers = [i \in Slots |-> tx.nullifiers[i]]
    BY <1>1
  <2> QED
    BY <1>1, <1>4, <1>5, <1>6, <2>1, <2>2 DEF WellFormed
<1>8. \A x \in {tx} : WellFormed(x)
  BY <1>7
<1>9. Nullifiers({tx}) = {}
  <2>1. \A m : m \in Nullifiers({tx}) <=> m # Zero /\ \E x \in {tx} : \E i \in Slots : m = x.nullifiers[i]
    BY <1>8, CommitmentsAre
  <2> QED
    BY <1>5, <2>1
<1>10. Spends({tx}) = {}
  BY <1>9 DEF Spends
<1>11. \A h : h \in Commitments({tx}) <=>
                \E i \in Slots : i <= Len(list) /\ h = to_commitment(list[i])
  <2>1. \A h : h \in Commitments({tx}) <=> h # Zero /\ \E x \in {tx} : \E i \in Slots : h = x.commitments[i]
    BY <1>8, CommitmentsAre
  <2>2. \A h : h \in Commitments({tx}) <=> h # Zero /\ \E i \in Slots : h = tx.commitments[i]
    BY <2>1
  <2> QED
    BY <1>4, <2>2
<1> QED
  BY <1>1, <1>6, <1>7, <1>9, <1>10, <1>11

LEMMA DepositBlock ==
  ASSUME NEW data, IsFiniteSet(data), Cardinality(data) <= 4, \A d \in data : IsDeposit(d),
         NEW tx, tx = DepositTx(SetToSeq(data))
  PROVE  /\ WellFormed(tx) /\ ~ IsWithdraw(tx) /\ tx.fee = 0
         /\ Nullifiers({tx}) = {} /\ Spends({tx}) = {}
         /\ Commitments({tx}) = {to_commitment(d) : d \in data}
<1> DEFINE list == SetToSeq(data)
<1>1. /\ Cardinality(data) \in Nat /\ list \in Seq(data) /\ Len(list) = Cardinality(data)
      /\ \A x \in data : \E i \in 1 .. Cardinality(data) : list[i] = x
  BY SetToSeqIs
<1>2. tx = DepositTx(list)
  OBVIOUS
<1> HIDE DEF list
<1>3. /\ Len(list) \in Nat /\ DOMAIN list = 1 .. Len(list)
      /\ \A i \in DOMAIN list : list[i] \in data
  BY <1>1
<1>4. \A i \in DOMAIN list : IsDeposit(list[i])
  BY <1>3
<1>5. /\ WellFormed(tx) /\ ~ IsWithdraw(tx) /\ tx.fee = 0
      /\ Nullifiers({tx}) = {} /\ Spends({tx}) = {}
      /\ \A h : h \in Commitments({tx}) <=>
                  \E i \in Slots : i <= Len(list) /\ h = to_commitment(list[i])
  BY <1>2, <1>3, <1>4, DepositTxIs
<1>6. \A i : i \in Slots /\ i <= Len(list) <=> i \in DOMAIN list
  BY <1>1, <1>3 DEF Slots
<1>7. ASSUME NEW h
      PROVE  h \in Commitments({tx}) <=> \E d \in data : h = to_commitment(d)
  <2>1. h \in Commitments({tx}) <=> \E i \in DOMAIN list : h = to_commitment(list[i])
    BY <1>5, <1>6
  <2> QED
    BY <1>1, <1>3, <2>1
<1> QED
  BY <1>5, <1>7

LEMMA CommitmentsOfDeposits ==
  ASSUME NEW a, NEW b, IsDeposit(a), IsDeposit(b), to_commitment(a) = to_commitment(b)
  PROVE  a = b
<1>1. poseidon_hash(a.nf_token_id, a.nf_slot_id, a.value, Neutral, a.secret_hash) =
      poseidon_hash(b.nf_token_id, b.nf_slot_id, b.value, Neutral, b.secret_hash)
  BY CommitmentOfDeposit
<1>2. /\ a.nf_token_id = b.nf_token_id /\ a.nf_slot_id = b.nf_slot_id
      /\ a.value = b.value /\ a.secret_hash = b.secret_hash
  BY <1>1, HashesDiffer
<1> QED
  BY <1>2 DEF IsDeposit

\* What leaves the escrow comes into circulation.
LEMMA EscrowedIsMinted ==
  ASSUME NEW t, NEW data, IsFiniteSet(data), \A d \in data : IsDeposit(d),
         NEW C, C = {to_commitment(d) : d \in data}
  PROVE  /\ IsFiniteSet(C) /\ \A h \in C : IsHash(h) /\ h[5] # contract_nf_address
         /\ Amount(t, C) = Escrowed(t, data)
<1> DEFINE e == [d \in data |-> to_commitment(d)]
           g == [d \in data |-> DepositOf(t, d)]
           f == [h \in C |-> OfToken(t, h)]
<1>1. C = {e[d] : d \in data}
  OBVIOUS
<1>2. \A a, b \in data : e[a] = e[b] => a = b
  BY CommitmentsOfDeposits
<1>3. ASSUME NEW d \in data PROVE g[d] = f[e[d]] /\ g[d] \in Int
  <2>1. e[d] \in C /\ e[d] = to_commitment(d)
    OBVIOUS
  <2>2. OfToken(t, e[d]) = DepositOf(t, d)
    BY <2>1, CommitmentOfDeposit
  <2>3. DepositOf(t, d) \in Int
    BY DEF DepositOf, IsDeposit
  <2> QED
    BY <2>1, <2>2, <2>3
<1>4. \A h \in C : IsHash(h) /\ h[5] # contract_nf_address
  <2>1. contract_nf_address # Neutral
    BY KeyIsNotTheContracts
  <2> QED
    BY <2>1, CommitmentOfDeposit
<1>5. /\ \A h \in C : f[h] = OfToken(t, h)
      /\ \A d \in data : g[d] = DepositOf(t, d)
  OBVIOUS
<1> HIDE DEF e, f, g
<1>6. /\ IsFiniteSet({e[d] : d \in data})
      /\ SumFunctionOnSet(f, {e[d] : d \in data}) = SumFunctionOnSet(g, data)
  BY <1>2, <1>3, SumReindex
<1>7. IsFiniteSet(C) /\ SumFunctionOnSet(f, C) = SumFunctionOnSet(g, data)
  BY <1>1, <1>6
<1>8. SumFunctionOnSet(f, C) = Amount(t, C)
  BY <1>4, <1>5, <1>7, AmountIs
<1>9. SumFunctionOnSet(g, data) = Escrowed(t, data)
  BY <1>5, EscrowedIs
<1> QED
  BY <1>4, <1>7, <1>8, <1>9

-----------------------------------------------------------------------------
(* A block: what it creates is new to the chain, what it spends is on      *)
(* chain, and it moves between the two sides of the ledger.                *)

OnlyDeposits(data) == IF data = {} THEN {} ELSE {DepositTx(SetToSeq(data))}

Taken(txs, data) ==
  /\ txs \in SUBSET pool /\ data \in SUBSET escrows /\ Cardinality(data) <= 4

LEMMA TakenIs ==
  ASSUME LedgerInv, NEW txs, NEW data, Taken(txs, data)
  PROVE  /\ IsFiniteSet(txs) /\ \A tx \in txs : InPool(tx)
         /\ \A tx, other \in pool : tx # other => Apart(tx, other)
         /\ IsFiniteSet(data) /\ Cardinality(data) <= 4
         /\ \A d \in data : IsDeposit(d) /\ to_commitment(d) \notin Commitments(pool \cup mined)
         /\ IsFiniteSet(mined) /\ \A tx \in mined : WellFormed(tx)
         /\ Spends(mined) \subseteq Commitments(mined)
<1>1. txs \in SUBSET pool /\ data \in SUBSET escrows /\ Cardinality(data) <= 4
  BY DEF Taken
<1>2. IsFiniteSet(txs) /\ IsFiniteSet(data)
  BY <1>1, FS_Subset DEF LedgerInv, PoolTxs, EscrowData
<1>3. \A tx \in txs : InPool(tx)
  BY <1>1 DEF LedgerInv, PoolTxs
<1>4. \A d \in data : IsDeposit(d) /\ to_commitment(d) \notin Commitments(pool \cup mined)
  BY <1>1 DEF LedgerInv, EscrowData
<1> QED
  BY <1>1, <1>2, <1>3, <1>4 DEF LedgerInv, PoolTxs, MinedTxs

\* The transaction of the deposits, if there are any.
LEMMA OnlyDepositsAre ==
  ASSUME NEW data, IsFiniteSet(data), Cardinality(data) <= 4, \A d \in data : IsDeposit(d),
         NEW extra, extra = OnlyDeposits(data)
  PROVE  /\ IsFiniteSet(extra)
         /\ \A tx \in extra : WellFormed(tx) /\ ~ IsWithdraw(tx) /\ tx.fee = 0 /\ ~ HasSecrets(tx)
         /\ Commitments(extra) = {to_commitment(d) : d \in data}
         /\ Nullifiers(extra) = {} /\ Spends(extra) = {}
<1>1. CASE data = {}
  <2>1. extra = {}
    BY <1>1 DEF OnlyDeposits
  <2>2. Nullifiers(extra) = {} /\ Commitments(extra) = {}
    BY <2>1 DEF Nullifiers, Commitments
  <2>3. Spends(extra) = {}
    BY <2>2 DEF Spends
  <2>4. {to_commitment(d) : d \in data} = {}
    BY <1>1
  <2> QED
    BY <2>1, <2>2, <2>3, <2>4, FS_EmptySet
<1>2. CASE data # {}
  <2> DEFINE tx == DepositTx(SetToSeq(data))
  <2>1. /\ WellFormed(tx) /\ ~ IsWithdraw(tx) /\ tx.fee = 0
        /\ Nullifiers({tx}) = {} /\ Spends({tx}) = {}
        /\ Commitments({tx}) = {to_commitment(d) : d \in data}
    <3> HIDE DEF tx
    <3> QED
      BY DepositBlock DEF tx
  <2>2. ~ HasSecrets(tx)
    BY DepositsHaveNoSecrets
  <2>3. extra = {tx}
    BY <1>2 DEF OnlyDeposits
  <2> HIDE DEF tx
  <2> QED
    BY <2>1, <2>2, <2>3, FS_Singleton
<1> QED
  BY <1>1, <1>2

LEMMA BlockIs ==
  ASSUME LedgerInv, NEW txs, NEW data, Taken(txs, data), NEW all, all = txs \cup OnlyDeposits(data)
  PROVE  /\ IsFiniteSet(all) /\ \A tx \in all : WellFormed(tx) /\ Claimed(tx)
         /\ Commitments(all) = Commitments(txs) \cup {to_commitment(d) : d \in data}
         /\ Spends(all) = Spends(txs) /\ Nullifiers(all) = Nullifiers(txs)
         /\ Commitments(all) \cap Commitments(mined) = {}
         /\ Spends(all) \subseteq Commitments(mined)
         /\ \A tx \in all : tx \in txs \/ ~ HasSecrets(tx)
<1> DEFINE extra == OnlyDeposits(data)
           new == {to_commitment(d) : d \in data}
<1>1. /\ IsFiniteSet(txs) /\ \A tx \in txs : InPool(tx)
      /\ IsFiniteSet(data) /\ Cardinality(data) <= 4
      /\ \A d \in data : IsDeposit(d) /\ to_commitment(d) \notin Commitments(pool \cup mined)
  BY TakenIs
<1>2. /\ IsFiniteSet(extra)
      /\ \A tx \in extra : WellFormed(tx) /\ ~ IsWithdraw(tx) /\ ~ HasSecrets(tx)
      /\ Commitments(extra) = new
      /\ Nullifiers(extra) = {} /\ Spends(extra) = {}
  <2> HIDE DEF extra
  <2> QED
    BY <1>1, OnlyDepositsAre DEF extra
<1>3. all = txs \cup extra
  OBVIOUS
<1>4. \A h \in new : h \notin Commitments(mined)
  <2>1. Commitments(pool \cup mined) = Commitments(pool) \cup Commitments(mined)
    BY OfUnion
  <2> QED
    BY <1>1, <2>1
<1> HIDE DEF extra, new
<1>5. /\ Commitments(txs \cup extra) = Commitments(txs) \cup Commitments(extra)
      /\ Spends(txs \cup extra) = Spends(txs) \cup Spends(extra)
      /\ Nullifiers(txs \cup extra) = Nullifiers(txs) \cup Nullifiers(extra)
  BY OfUnion
<1>6. /\ Commitments(all) = Commitments(txs) \cup new
      /\ Spends(all) = Spends(txs) /\ Nullifiers(all) = Nullifiers(txs)
  BY <1>2, <1>3, <1>5
<1>7. \A h \in Commitments(txs) : h \notin Commitments(mined)
  <2>1. \A h \in Commitments(txs) : \E tx \in txs : h \in Commitments({tx})
    BY OfMembers
  <2>2. \A tx \in txs : Commitments({tx}) \cap Commitments(mined) = {}
    BY <1>1 DEF InPool
  <2> QED
    BY <2>1, <2>2
<1>8. Spends(txs) \subseteq Commitments(mined)
  <2>1. \A tx \in txs : Spends({tx}) \subseteq Commitments(mined)
    BY <1>1 DEF InPool
  <2> QED
    BY <2>1, SpendsWithin
<1>9. IsFiniteSet(all)
  BY <1>1, <1>2, <1>3, FS_Union
<1>10. \A tx \in all : WellFormed(tx) /\ Claimed(tx) /\ (tx \in txs \/ ~ HasSecrets(tx))
  <2>1. \A tx \in txs : WellFormed(tx) /\ Claimed(tx)
    BY <1>1 DEF InPool, Operation
  <2>2. \A tx \in extra : WellFormed(tx) /\ Claimed(tx)
    BY <1>2 DEF Claimed
  <2> QED
    BY <1>2, <1>3, <2>1, <2>2
<1> QED
  BY <1>4, <1>6, <1>7, <1>8, <1>9, <1>10 DEF new

LEMMA BlockBalances ==
  ASSUME LedgerInv, NEW txs, NEW data, Taken(txs, data), NEW t \in Tokens
  PROVE  Ledger(t, mined \cup (txs \cup OnlyDeposits(data))) = Ledger(t, mined) + Escrowed(t, data)
<1> DEFINE M == mined \cup txs
<1>1. /\ IsFiniteSet(txs) /\ \A tx \in txs : InPool(tx)
      /\ \A tx, other \in pool : tx # other => Apart(tx, other)
      /\ IsFiniteSet(data) /\ Cardinality(data) <= 4
      /\ \A d \in data : IsDeposit(d) /\ to_commitment(d) \notin Commitments(pool \cup mined)
      /\ IsFiniteSet(mined) /\ \A tx \in mined : WellFormed(tx)
      /\ Spends(mined) \subseteq Commitments(mined)
  BY TakenIs
<1>1a. ASSUME NEW one \in pool, NEW two \in pool, one # two
       PROVE  Apart(one, two)
  <2>1. \A x, y \in pool : x # y => Apart(x, y)
    BY <1>1
  <2> QED
    BY <1>1a, <2>1, Zenon
<1>2. txs \subseteq pool
  BY DEF Taken
<1>3. ASSUME NEW tx \in txs PROVE tx \notin mined
  <2>1. WellFormed(tx) /\ tx.nullifiers[1] # Zero /\ Spends({tx}) \cap Spends(mined) = {}
    BY <1>1 DEF InPool, Operation
  <2>2. \A x \in {tx} : WellFormed(x)
    BY <2>1
  <2>3. tx.nullifiers[1] \in Nullifiers({tx})
    <3>1. \A m : m \in Nullifiers({tx}) <=> m # Zero /\ \E x \in {tx} : \E i \in Slots : m = x.nullifiers[i]
      BY <2>2, CommitmentsAre
    <3> QED
      BY <2>1, <3>1 DEF Slots
  <2>4. tx.nullifiers[1][3] \in Spends({tx})
    BY <2>3 DEF Spends
  <2>5. tx \in mined => tx.nullifiers[1][3] \in Spends(mined)
    BY <2>4, OfMembers
  <2> QED
    BY <2>1, <2>4, <2>5
<1>4. Ledger(t, M) = Ledger(t, mined)
  <2>1. \A tx \in txs : /\ Operation(tx) /\ tx \notin mined
                       /\ Commitments({tx}) \cap Commitments(mined) = {}
                       /\ Spends({tx}) \subseteq Commitments(mined)
                       /\ Spends({tx}) \cap Spends(mined) = {}
    BY <1>1, <1>3 DEF InPool
  <2>2. \A tx, other \in txs : tx # other =>
          /\ Commitments({tx}) \cap Commitments({other}) = {}
          /\ Spends({tx}) \cap Spends({other}) = {}
    <3> SUFFICES ASSUME NEW tx \in txs, NEW other \in txs, tx # other
                 PROVE  /\ Commitments({tx}) \cap Commitments({other}) = {}
                        /\ Spends({tx}) \cap Spends({other}) = {}
      BY Zenon
    <3>1. tx \in pool /\ other \in pool
      BY <1>2
    <3>2. Apart(tx, other)
      BY <1>1a, <3>1
    <3> QED
      BY <3>2 DEF Apart
  <2> QED
    BY <1>1, <2>1, <2>2, AddOperations
<1>5. mined \cup (txs \cup OnlyDeposits(data)) = M \cup OnlyDeposits(data)
  OBVIOUS
<1> DEFINE after == mined \cup (txs \cup OnlyDeposits(data))
<1> SUFFICES Ledger(t, after) = Ledger(t, mined) + Escrowed(t, data)
  OBVIOUS
<1>5a. after = M \cup OnlyDeposits(data)
  BY <1>5
<1> HIDE DEF after
<1>6. CASE data = {}
  <2>1. OnlyDeposits(data) = {} /\ M \cup {} = M
    BY <1>6 DEF OnlyDeposits
  <2>2. Escrowed(t, data) = 0
    BY <1>6, SumEmpty DEF Escrowed
  <2>3. Ledger(t, mined) \in Nat
    BY <1>1, LedgerTypes
  <2> HIDE DEF M
  <2>4. Ledger(t, after) = Ledger(t, mined)
    BY <1>4, <1>5a, <2>1
  <2> QED
    BY <2>2, <2>3, <2>4
<1>7. CASE data # {}
  <2> DEFINE tx == DepositTx(SetToSeq(data))
             new == {to_commitment(d) : d \in data}
  <2>1. OnlyDeposits(data) = {tx}
    BY <1>7 DEF OnlyDeposits
  <2>2. /\ WellFormed(tx) /\ ~ IsWithdraw(tx) /\ tx.fee = 0
        /\ Spends({tx}) = {} /\ Commitments({tx}) = new
    <3> HIDE DEF tx
    <3> QED
      BY <1>1, DepositBlock DEF tx
  <2> HIDE DEF tx
  <2>3. /\ IsFiniteSet(M) /\ \A x \in M : WellFormed(x)
    <3>1. \A x \in txs : WellFormed(x)
      BY <1>1 DEF InPool, Operation
    <3> QED
      BY <1>1, <3>1, FS_Union
  <2>4. Spends(M) \subseteq Commitments(mined)
    <3>1. Spends(M) = Spends(mined) \cup Spends(txs)
      BY OfUnion
    <3>2. \A x \in txs : Spends({x}) \subseteq Commitments(mined)
      BY <1>1 DEF InPool
    <3>3. Spends(txs) \subseteq Commitments(mined)
      BY <3>2, SpendsWithin
    <3> QED
      BY <1>1, <3>1, <3>3
  <2>5. \A h \in new : h \notin Commitments(M) /\ h \notin Commitments(mined)
    <3>1. /\ Commitments(M) = Commitments(mined) \cup Commitments(txs)
          /\ Commitments(pool \cup mined) = Commitments(pool) \cup Commitments(mined)
      BY OfUnion
    <3>2. Commitments(txs) \subseteq Commitments(pool)
      BY <1>2, OfMembers
    <3> QED
      BY <1>1, <3>1, <3>2
  <2>6. tx \notin M
    <3>1. PICK d : d \in data
      BY <1>7
    <3>2. to_commitment(d) \in Commitments({tx})
      BY <2>2, <3>1
    <3>3. tx \in M => to_commitment(d) \in Commitments(M)
      BY <3>2, OfMembers
    <3> QED
      BY <2>5, <3>1, <3>3
  <2> HIDE DEF M
  <2>7. NewTo(M, tx)
    BY <2>2, <2>4, <2>5, <2>6 DEF NewTo
  <2>8. Ledger(t, M \cup {tx}) =
          Ledger(t, M) + (Amount(t, Kept({tx})) + WithdrawnBy(t, tx) + FeeOf(t, tx)
                            - Amount(t, Spends({tx})))
    BY <2>3, <2>7, AddTx
  <2>9. /\ IsFiniteSet(new) /\ \A h \in new : IsHash(h) /\ h[5] # contract_nf_address
        /\ Amount(t, new) = Escrowed(t, data)
    BY <1>1, EscrowedIsMinted
  <2>10. Kept({tx}) = new
    BY <2>2, <2>9 DEF Kept
  <2>11. WithdrawnBy(t, tx) = 0 /\ FeeOf(t, tx) = 0
    BY <2>2 DEF WithdrawnBy, FeeOf
  <2>12. Amount(t, Spends({tx})) = 0
    BY <2>2, SumEmpty DEF Amount, SumFunction
  <2>13. Ledger(t, M) \in Nat /\ Escrowed(t, data) \in Nat
    BY <1>1, <2>3, LedgerTypes, EscrowedIs
  <2> HIDE DEF new
  <2>14. Ledger(t, after) = Ledger(t, M \cup {tx})
    BY <1>5a, <2>1
  <2>15. Amount(t, Kept({tx})) = Escrowed(t, data)
    BY <2>9, <2>10
  <2> QED
    BY <1>4, <2>8, <2>11, <2>12, <2>13, <2>14, <2>15
<1> QED
  BY <1>6, <1>7

-----------------------------------------------------------------------------
(* What a block does to the chain, the pool and the wallets                *)

Mines(txs, data, all) ==
  /\ Taken(txs, data) /\ all = txs \cup OnlyDeposits(data)
  /\ wallet' = [c \in Clients |-> Marked(wallet[c], all) \cup Received(c, all)]
  /\ mined' = mined \cup all /\ pool' = pool \ txs /\ escrows' = escrows \ data
  /\ ops' = ops /\ claims' = claims /\ deposited' = deposited

LEMMA PoolSpends ==
  ASSUME LedgerInv
  PROVE  Spends(pool \cup mined) \subseteq Commitments(mined)
<1>1. \A tx \in pool : Spends({tx}) \subseteq Commitments(mined)
  BY DEF LedgerInv, PoolTxs, InPool
<1>2. Spends(pool) \subseteq Commitments(mined)
  BY <1>1, SpendsWithin
<1>3. Spends(pool \cup mined) = Spends(pool) \cup Spends(mined)
  BY OfUnion
<1> QED
  BY <1>2, <1>3 DEF LedgerInv, MinedTxs

LEMMA BlockAdds ==
  ASSUME LedgerInv, NEW txs, NEW data, NEW all, Mines(txs, data, all)
  PROVE  /\ Commitments(mined') = Commitments(mined) \cup Commitments(all)
         /\ Nullifiers(mined') = Nullifiers(mined) \cup Nullifiers(all)
         /\ Spends(mined') = Spends(mined) \cup Spends(all)
         /\ Spends(pool' \cup mined') = Spends(pool \cup mined)
         /\ Commitments(pool' \cup mined')
              = Commitments(pool \cup mined) \cup {to_commitment(d) : d \in data}
<1> DEFINE new == {to_commitment(d) : d \in data}
           rest == pool \ txs
<1>1. /\ Taken(txs, data) /\ all = txs \cup OnlyDeposits(data)
      /\ mined' = mined \cup all /\ pool' = rest /\ pool = rest \cup txs
  BY DEF Mines, Taken
<1>2. /\ Commitments(all) = Commitments(txs) \cup new
      /\ Spends(all) = Spends(txs)
  BY <1>1, BlockIs
<1> HIDE DEF new, rest
<1>3. /\ Commitments(mined \cup all) = Commitments(mined) \cup Commitments(all)
      /\ Nullifiers(mined \cup all) = Nullifiers(mined) \cup Nullifiers(all)
      /\ Spends(mined \cup all) = Spends(mined) \cup Spends(all)
  BY OfUnion
<1>4. Spends(pool' \cup mined') = Spends(pool \cup mined)
  <2>1. /\ Spends(rest \cup (mined \cup all)) = Spends(rest) \cup Spends(mined \cup all)
        /\ Spends(pool \cup mined) = Spends(pool) \cup Spends(mined)
        /\ Spends(rest \cup txs) = Spends(rest) \cup Spends(txs)
    BY OfUnion
  <2>2. pool' \cup mined' = rest \cup (mined \cup all)
    BY <1>1
  <2>3. Spends(pool) = Spends(rest) \cup Spends(txs)
    BY <1>1, <2>1
  <2>4. Spends(pool' \cup mined') = Spends(rest) \cup (Spends(mined) \cup Spends(txs))
    BY <1>2, <1>3, <2>1, <2>2
  <2> QED
    BY <2>1, <2>3, <2>4
<1>5. Commitments(pool' \cup mined') = Commitments(pool \cup mined) \cup new
  <2>1. /\ Commitments(rest \cup (mined \cup all)) = Commitments(rest) \cup Commitments(mined \cup all)
        /\ Commitments(pool \cup mined) = Commitments(pool) \cup Commitments(mined)
        /\ Commitments(rest \cup txs) = Commitments(rest) \cup Commitments(txs)
    BY OfUnion
  <2>2. pool' \cup mined' = rest \cup (mined \cup all)
    BY <1>1
  <2>3. Commitments(pool) = Commitments(rest) \cup Commitments(txs)
    BY <1>1, <2>1
  <2>4. Commitments(pool' \cup mined')
          = Commitments(rest) \cup (Commitments(mined) \cup (Commitments(txs) \cup new))
    BY <1>2, <1>3, <2>1, <2>2
  <2> QED
    BY <2>1, <2>3, <2>4
<1> QED
  BY <1>1, <1>3, <1>4, <1>5 DEF new

\* An entry once the block has marked it.
LEMMA MarkedFits ==
  ASSUME WalletInv, LedgerInv, NEW txs, NEW data, NEW all, Mines(txs, data, all),
         NEW c \in Clients
  PROVE  /\ \A e \in Marked(wallet[c], all) :
              EntryFits(c, e)' /\ \E f \in wallet[c] : f.preimage = e.preimage
         /\ \A f \in wallet[c] : \E e \in Marked(wallet[c], all) : e.preimage = f.preimage
<1> DEFINE status(e) == IF e.nullifier \in Nullifiers(all) THEN "Spent"
                        ELSE IF Hash(e.preimage) \in Commitments(all) THEN "Unspent" ELSE e.status
           g == [e \in wallet[c] |-> [e EXCEPT !.status = status(e)]]
<1>1. Marked(wallet[c], all) = {g[e] : e \in wallet[c]}
  BY DEF Marked
<1>2. /\ ops \in Nat /\ ops' = ops /\ HeldBy(c, wallet[c]) /\ EntriesFit
      /\ Taken(txs, data) /\ all = txs \cup OnlyDeposits(data)
  BY DEF LedgerInv, Mines, WalletInv, WalletsHeld
<1>3. /\ Commitments(mined') = Commitments(mined) \cup Commitments(all)
      /\ Nullifiers(mined') = Nullifiers(mined) \cup Nullifiers(all)
      /\ Spends(pool' \cup mined') = Spends(pool \cup mined)
  BY BlockAdds
<1>4. /\ Commitments(all) \cap Commitments(mined) = {}
      /\ Spends(all) \subseteq Commitments(mined)
      /\ Spends(pool \cup mined) \subseteq Commitments(mined)
  BY <1>2, BlockIs, PoolSpends
<1>5. ASSUME NEW e \in wallet[c]
      PROVE  g[e].preimage = e.preimage /\ \A m : m = g[e] => EntryFits(c, m)'
  <2>1. e = [k \in EntryFields |-> e[k]] /\ EntryFits(c, e)
    BY <1>2 DEF HeldBy, EntriesFit
  <2>2. g[e] = [e EXCEPT !.status = status(e)]
    OBVIOUS
  <2> DEFINE h == Hash(e.preimage)
             s == status(e)
  <2> HIDE DEF g, status
  <2>3. g[e].preimage = e.preimage /\ g[e].nullifier = e.nullifier /\ g[e].status = s
    BY <2>1, <2>2 DEF EntryFields
  <2>4. Past(e.preimage.salt)'
    BY <1>2, <2>1, StillPast DEF EntryFits
  <2>5. /\ e.nullifier = nullifier_hash(e.preimage, nullifier_key(c))
        /\ e.status \in {"PendingCreation", "Unspent", "PendingSpend", "Spent"}
        /\ e.status = "PendingCreation" <=> h \notin Commitments(mined)
        /\ e.status = "Unspent" => h \notin Spends(pool \cup mined)
        /\ e.status = "Spent" => e.nullifier \in Nullifiers(mined)
    BY <2>1 DEF EntryFits
  <2>6. e.nullifier \in Nullifiers(all) => h \in Commitments(mined)
    <3>1. e.nullifier[3] = h
      BY <2>5 DEF nullifier_hash, NullifierOf
    <3>2. e.nullifier \in Nullifiers(all) => e.nullifier[3] \in Spends(all)
      BY DEF Spends
    <3> QED
      BY <1>4, <3>1, <3>2
  <2> HIDE DEF h
  <2>7. /\ s \in {"PendingCreation", "Unspent", "PendingSpend", "Spent"}
        /\ s = "PendingCreation" <=> h \notin Commitments(mined')
        /\ s = "Unspent" => h \notin Spends(pool' \cup mined')
        /\ s = "Spent" => e.nullifier \in Nullifiers(mined')
    <3>1. CASE e.nullifier \in Nullifiers(all)
      BY <1>3, <2>6, <3>1 DEF status
    <3>2. CASE e.nullifier \notin Nullifiers(all) /\ h \in Commitments(all)
      <4>1. s = "Unspent"
        BY <3>2 DEF status, h
      <4> HIDE DEF s
      <4> QED
        BY <1>3, <1>4, <3>2, <4>1
    <3>3. CASE e.nullifier \notin Nullifiers(all) /\ h \notin Commitments(all)
      <4>1. s = e.status
        BY <3>3 DEF status, h
      <4> HIDE DEF s
      <4> QED
        BY <1>3, <2>5, <3>3, <4>1
    <3> QED
      BY <3>1, <3>2, <3>3
  <2> HIDE DEF s
  <2>8. ASSUME NEW m, m = g[e] PROVE EntryFits(c, m)'
    BY <2>3, <2>4, <2>5, <2>7, <2>8 DEF EntryFits, h
  <2> QED
    BY <2>3, <2>8
<1> HIDE DEF g
<1> QED
  BY <1>1, <1>5

\* What a client finds in the block by decrypting it is new, and its own.
LEMMA ReceivedFits ==
  ASSUME LedgerInv, NEW txs, NEW data, NEW all, Mines(txs, data, all), NEW c \in Clients,
         NEW e \in Received(c, all)
  PROVE  EntryFits(c, e)' /\ e.preimage.public_key = zkp_public_key(c)
<1>1. PICK tx \in all : /\ HasSecrets(tx) /\ Hash(test_preimage(c, tx)) = tx.commitments[1]
                        /\ e = Entry(c, test_preimage(c, tx), "Unspent")
  BY DEF Received
<1>2. /\ ops \in Nat /\ ops' = ops /\ Taken(txs, data) /\ all = txs \cup OnlyDeposits(data)
  BY DEF LedgerInv, Mines
<1>3. tx \in txs
  BY <1>1, <1>2, BlockIs
<1>4. InPool(tx)
  BY <1>2, <1>3, TakenIs
<1> DEFINE p == test_preimage(c, tx)
           h == Hash(p)
<1>5. p.public_key = zkp_public_key(c)
  <2>1. PICK t1, s1, v1, x1 : p = Preimage(v1, t1, s1, zkp_public_key(c), x1)
    BY DEF test_preimage
  <2> HIDE DEF p
  <2> QED
    BY <2>1, PreimageIs
<1>6. /\ e.preimage = p /\ e.status = "Unspent"
      /\ e.nullifier = nullifier_hash(p, nullifier_key(c))
  BY <1>1 DEF Entry
<1> HIDE DEF p
<1>7. h \in Commitments({tx}) /\ h \in Commitments(all)
  <2>1. \A x \in {tx} : WellFormed(x)
    BY <1>4 DEF InPool, Operation
  <2>2. h # Zero
    BY HashIsNotZero DEF Hash
  <2>3. h = tx.commitments[1]
    BY <1>1 DEF p
  <2>4. h \in Commitments({tx})
    <3>1. \A m : m \in Commitments({tx}) <=> m # Zero /\ \E x \in {tx} : \E i \in Slots : m = x.commitments[i]
      BY <2>1, CommitmentsAre
    <3> HIDE DEF h
    <3> QED
      BY <2>2, <2>3, <3>1 DEF Slots
  <2> HIDE DEF h
  <2> QED
    BY <1>1, <2>4, OfMembers
<1>8. Past(p.salt)'
  <2>1. Past(h[6])
    BY <1>4, <1>7 DEF InPool
  <2>2. h[6] = p.salt
    BY SaltIs
  <2>3. Past(p.salt)
    BY <2>1, <2>2
  <2> QED
    BY <1>2, <2>3, StillPast
<1> HIDE DEF h
<1>9. h \in Commitments(mined') /\ h \notin Spends(pool' \cup mined')
  <2>1. /\ Commitments(mined') = Commitments(mined) \cup Commitments(all)
        /\ Spends(pool' \cup mined') = Spends(pool \cup mined)
    BY BlockAdds
  <2>2. Spends(pool \cup mined) \subseteq Commitments(mined)
    BY PoolSpends
  <2>3. Commitments(all) \cap Commitments(mined) = {}
    BY <1>2, BlockIs
  <2> QED
    BY <1>7, <2>1, <2>2, <2>3
<1> QED
  BY <1>5, <1>6, <1>8, <1>9 DEF EntryFits, h

\* Everything the block adds is known to someone.
LEMMA BlockKnown ==
  ASSUME WalletInv, LedgerInv, NEW txs, NEW data, NEW all, Mines(txs, data, all)
  PROVE  /\ \A h : Known(h) => Known(h)'
         /\ \A h \in Commitments(all) : OnChain(h)'
<1>1. /\ ops \in Nat /\ ops' = ops /\ Taken(txs, data) /\ all = txs \cup OnlyDeposits(data)
      /\ wallet' = [c \in Clients |-> Marked(wallet[c], all) \cup Received(c, all)]
  BY DEF LedgerInv, Mines
<1>2. ASSUME NEW h, Known(h) PROVE Known(h)'
  <2>1. ASSUME NEW c \in Clients, NEW e \in wallet[c] PROVE \E f \in wallet'[c] : f.preimage = e.preimage
    BY <1>1, MarkedFits
  <2> QED
    BY <1>2, <2>1, KnownStays
<1>3. ASSUME NEW d \in data PROVE OnChain(to_commitment(d))'
  <2>1. d \in escrows /\ IsDeposit(d)
    BY <1>1, TakenIs DEF Taken
  <2>2. Past(d.secret_hash) /\ Known(to_commitment(d))
    BY <2>1 DEF LedgerInv, EscrowData
  <2>3. to_commitment(d)[6] = d.secret_hash
    BY <2>1, CommitmentOfDeposit
  <2>4. Past(to_commitment(d)[6])'
    BY <1>1, <2>2, <2>3, StillPast
  <2> QED
    BY <1>2, <2>2, <2>4 DEF OnChain
<1>4. ASSUME NEW h \in Commitments(txs) PROVE OnChain(h)'
  <2>1. PICK tx \in txs : h \in Commitments({tx})
    BY OfMembers
  <2>2. InPool(tx)
    BY <1>1, TakenIs
  <2>3. Operation(tx) /\ WellFormed(tx)
    BY <2>2 DEF InPool, Operation
  <2>4. PICK i \in Slots : h = tx.commitments[i] /\ h # Zero
    <3>1. \A x \in {tx} : WellFormed(x)
      BY <2>3
    <3>2. \A m : m \in Commitments({tx}) <=> m # Zero /\ \E x \in {tx} : \E i \in Slots : m = x.commitments[i]
      BY <3>1, CommitmentsAre
    <3> QED
      BY <2>1, <3>2
  <2>5. Past(h[6])'
    <3>1. Past(h[6])
      BY <2>1, <2>2 DEF InPool
    <3> QED
      BY <1>1, <3>1, StillPast
  <2>6. CASE i \in {2, 4}
    <3>1. Known(h)
      BY <2>2, <2>4, <2>6 DEF InPool
    <3> QED
      BY <1>2, <2>5, <3>1 DEF OnChain
  <2>7. CASE i = 3
    <3>1. h[5] = contract_nf_address
      BY <2>3, <2>4, <2>7 DEF Operation
    <3> QED
      BY <2>5, <3>1 DEF OnChain
  <2>8. CASE i = 1
    <3>1. PICK c \in Clients : Hash(test_preimage(c, tx)) = h
      BY <2>3, <2>4, <2>8 DEF Operation
    <3>2. HasSecrets(tx)
      <4>1. tx.nullifiers[1] # Zero /\ tx.commitments[1] # Zero
        BY <2>3, <2>4, <2>8 DEF Operation
      <4> QED
        BY <4>1 DEF HasSecrets, Slots
    <3>3. Entry(c, test_preimage(c, tx), "Unspent") \in Received(c, all)
      BY <1>1, <2>4, <2>8, <3>1, <3>2 DEF Received
    <3>4. Entry(c, test_preimage(c, tx), "Unspent").preimage = test_preimage(c, tx)
      BY EntryIs
    <3>5. \E e \in wallet'[c] : Hash(e.preimage) = h
      BY <1>1, <3>1, <3>3, <3>4
    <3> QED
      BY <2>5, <3>5 DEF OnChain, Known
  <2> QED
    BY <2>6, <2>7, <2>8 DEF Slots
<1>5. Commitments(all) = Commitments(txs) \cup {to_commitment(d) : d \in data}
  BY <1>1, BlockIs
<1> QED
  BY <1>2, <1>3, <1>4, <1>5

LEMMA BlockNotShared ==
  ASSUME WalletInv, LedgerInv, NEW txs, NEW data, NEW all, Mines(txs, data, all)
  PROVE  NotShared'
<1>1. \A c \in Clients : wallet'[c] = Marked(wallet[c], all) \cup Received(c, all)
  BY DEF Mines
<1>2. ASSUME NEW c \in Clients, NEW e \in wallet'[c]
      PROVE  \/ \E f \in wallet[c] : f.preimage = e.preimage
             \/ e.preimage.public_key = zkp_public_key(c)
  <2>1. CASE e \in Marked(wallet[c], all)
    BY <2>1, MarkedFits
  <2>2. CASE e \in Received(c, all)
    BY <2>2, ReceivedFits
  <2> QED
    BY <1>1, <2>1, <2>2
<1>3. ASSUME NEW c \in Clients, NEW e \in wallet'[c]
      PROVE  e.preimage.public_key \in {Neutral, zkp_public_key(c)}
  <2>1. CASE \E f \in wallet[c] : f.preimage = e.preimage
    <3>1. PICK f \in wallet[c] : f.preimage = e.preimage
      BY <2>1
    <3>2. Owned(c, f.preimage)
      BY DEF WalletInv, WalletsHeld, HeldBy
    <3> QED
      BY <3>1, <3>2 DEF Owned
  <2> QED
    BY <1>2, <1>3, <2>1
<1>4. ASSUME NEW p, NEW q, Hash(p) = Hash(q) PROVE p.public_key = q.public_key
  BY <1>4, HashesDiffer DEF Hash
<1>5. ASSUME NEW c \in Clients, NEW d \in Clients, c # d, NEW e \in wallet'[c], NEW f \in wallet'[d],
             e.preimage.public_key = zkp_public_key(c)
      PROVE  Hash(e.preimage) # Hash(f.preimage)
  <2>1. f.preimage.public_key \in {Neutral, zkp_public_key(d)}
    BY <1>3
  <2>2. zkp_public_key(c) # Neutral /\ zkp_public_key(c) # zkp_public_key(d)
    BY <1>5, KeyIsAPoint, KeysDiffer
  <2> QED
    BY <1>4, <1>5, <2>1, <2>2
<1>6. ASSUME NEW c \in Clients, NEW d \in Clients, c # d, NEW e \in wallet'[c], NEW f \in wallet'[d]
      PROVE  Hash(e.preimage) # Hash(f.preimage)
  <2>1. CASE e.preimage.public_key = zkp_public_key(c)
    BY <1>5, <1>6, <2>1
  <2>2. CASE f.preimage.public_key = zkp_public_key(d)
    <3>1. Hash(f.preimage) # Hash(e.preimage)
      BY <1>5, <1>6, <2>2
    <3> QED
      BY <3>1
  <2>3. CASE /\ \E g \in wallet[c] : g.preimage = e.preimage
             /\ \E g \in wallet[d] : g.preimage = f.preimage
    BY <1>6, <2>3 DEF LedgerInv, NotShared
  <2> QED
    BY <1>2, <1>6, <2>1, <2>2, <2>3
<1> QED
  BY <1>6 DEF NotShared

LEMMA BlockChain ==
  ASSUME WalletInv, LedgerInv, NEW txs, NEW data, NEW all, Mines(txs, data, all)
  PROVE  MinedTxs' /\ PoolTxs'
<1>1. /\ ops \in Nat /\ ops' = ops /\ Taken(txs, data) /\ all = txs \cup OnlyDeposits(data)
      /\ mined' = mined \cup all /\ pool' = pool \ txs /\ claims' = claims
  BY DEF LedgerInv, Mines
<1>2. MinedTxs /\ PoolTxs
  BY DEF LedgerInv
<1>3. \A tx : Claimed(tx) => Claimed(tx)'
  BY <1>1 DEF Claimed
<1>4. \A h : Known(h) => Known(h)'
  BY BlockKnown
<1>5. /\ Commitments(mined') = Commitments(mined) \cup Commitments(all)
      /\ Spends(mined') = Spends(mined) \cup Spends(all)
  BY BlockAdds
<1>6. /\ IsFiniteSet(all) /\ \A tx \in all : WellFormed(tx) /\ Claimed(tx)
      /\ Commitments(all) = Commitments(txs) \cup {to_commitment(d) : d \in data}
      /\ Spends(all) = Spends(txs)
      /\ Spends(all) \subseteq Commitments(mined)
  BY <1>1, BlockIs
<1>7. MinedTxs'
  <2>1. IsFiniteSet(mined')
    BY <1>1, <1>2, <1>6, FS_Union DEF MinedTxs
  <2>2. \A tx \in mined' : WellFormed(tx) /\ Claimed(tx)'
    BY <1>1, <1>2, <1>3, <1>6 DEF MinedTxs
  <2>3. Spends(mined') \subseteq Commitments(mined')
    BY <1>2, <1>5, <1>6 DEF MinedTxs
  <2>4. \A h \in Commitments(mined) : OnChain(h)'
    <3> SUFFICES ASSUME NEW h \in Commitments(mined) PROVE OnChain(h)'
      OBVIOUS
    <3>1. Past(h[6]) /\ (h[5] # contract_nf_address => Known(h))
      BY <1>2 DEF MinedTxs, OnChain
    <3>2. Past(h[6])'
      BY <1>1, <3>1, StillPast
    <3> QED
      BY <1>4, <3>1, <3>2 DEF OnChain
  <2>5. \A h \in Commitments(all) : OnChain(h)'
    BY BlockKnown
  <2>6. \A h \in Commitments(mined') : OnChain(h)'
    BY <1>5, <2>4, <2>5
  <2> QED
    BY <2>1, <2>2, <2>3, <2>6 DEF MinedTxs
<1>8. ASSUME NEW tx \in pool' PROVE InPool(tx)'
  <2>1. tx \in pool /\ tx \notin txs /\ txs \subseteq pool
    BY <1>1, <1>8 DEF Taken
  <2>2. InPool(tx)
    BY <1>2, <2>1 DEF PoolTxs
  <2>3. ASSUME NEW h \in Commitments({tx}) PROVE Past(h[6])'
    <3>1. Past(h[6])
      BY <2>2 DEF InPool
    <3> QED
      BY <1>1, <3>1, StillPast
  <2>4. ASSUME NEW i \in {2, 4}, tx.commitments[i] # Zero PROVE Known(tx.commitments[i])'
    BY <1>4, <2>2, <2>4 DEF InPool
  <2>5. ASSUME NEW other \in txs PROVE Apart(tx, other)
    <3>1. tx \in pool /\ other \in pool /\ tx # other
      BY <2>1
    <3>2. \A x, y \in pool : x # y => Apart(x, y)
      BY <1>2 DEF PoolTxs
    <3> QED
      BY <3>1, <3>2, Zenon
  <2>6. Commitments({tx}) \cap Commitments(txs) = {} /\ Spends({tx}) \cap Spends(txs) = {}
    <3>1. ASSUME NEW other \in txs
          PROVE  /\ Commitments({tx}) \cap Commitments({other}) = {}
                 /\ Spends({tx}) \cap Spends({other}) = {}
      BY <2>5 DEF Apart
    <3>2. \A other \in txs : Commitments({tx}) \cap Commitments({other}) = {}
      BY <3>1
    <3>3. \A other \in txs : Spends({tx}) \cap Spends({other}) = {}
      BY <3>1
    <3>4. Commitments({tx}) \cap Commitments(txs) = {}
      BY <3>2, CommitmentsApart
    <3>5. Spends({tx}) \cap Spends(txs) = {}
      BY <3>3, SpendsApart
    <3> QED
      BY <3>4, <3>5
  <2>7. \A d \in data : to_commitment(d) \notin Commitments({tx})
    <3>1. \A d \in data : to_commitment(d) \notin Commitments(pool \cup mined)
      BY <1>1, TakenIs
    <3>2. Commitments({tx}) \subseteq Commitments(pool \cup mined)
      <4>1. tx \in pool \cup mined
        BY <2>1
      <4> QED
        BY <4>1, OfMembers
    <3> QED
      BY <3>1, <3>2
  <2>8. Commitments({tx}) \cap Commitments(mined') = {}
    <3>1. Commitments({tx}) \cap Commitments(mined) = {}
      BY <2>2 DEF InPool
    <3> QED
      BY <1>5, <1>6, <2>6, <2>7, <3>1
  <2>9. Spends({tx}) \cap Spends(mined') = {}
    <3>1. Spends({tx}) \cap Spends(mined) = {}
      BY <2>2 DEF InPool
    <3> QED
      BY <1>5, <1>6, <2>6, <3>1
  <2>10. Spends({tx}) \subseteq Commitments(mined')
    BY <1>5, <2>2 DEF InPool
  <2>11. Operation(tx) /\ Claimed(tx)'
    BY <1>3, <2>2 DEF InPool
  <2> QED
    BY <2>3, <2>4, <2>8, <2>9, <2>10, <2>11 DEF InPool
<1>9. PoolTxs'
  <2>1. pool' \subseteq pool /\ IsFiniteSet(pool)
    BY <1>1, <1>2 DEF PoolTxs
  <2>2. IsFiniteSet(pool')
    BY <2>1, FS_Subset
  <2>3. \A x, y \in pool' : x # y => Apart(x, y)
    <3>1. \A x, y \in pool : x # y => Apart(x, y)
      BY <1>2 DEF PoolTxs
    <3> QED
      BY <2>1, <3>1
  <2>4. \A tx \in pool' : InPool(tx)'
    BY <1>8
  <2> QED
    BY <2>2, <2>3, <2>4 DEF PoolTxs
<1> QED
  BY <1>7, <1>9

LEMMA BlockEscrow ==
  ASSUME WalletInv, LedgerInv, NEW txs, NEW data, NEW all, Mines(txs, data, all)
  PROVE  EscrowData' /\ LedgerBalances'
<1>1. /\ ops \in Nat /\ ops' = ops /\ Taken(txs, data) /\ all = txs \cup OnlyDeposits(data)
      /\ mined' = mined \cup all /\ escrows' = escrows \ data /\ deposited' = deposited
      /\ escrows = escrows' \cup data /\ escrows' \cap data = {}
      /\ escrows' \subseteq escrows
  BY DEF LedgerInv, Mines, Taken
<1>2. EscrowData /\ LedgerBalances
  BY DEF LedgerInv
<1>3. \A d \in escrows : IsDeposit(d)
  BY <1>2 DEF EscrowData
<1>4. IsFiniteSet(escrows') /\ IsFiniteSet(data)
  BY <1>1, <1>2, FS_Subset DEF EscrowData
<1>5. ASSUME NEW d \in escrows'
      PROVE  /\ Past(d.secret_hash)' /\ Known(to_commitment(d))'
             /\ to_commitment(d) \notin Commitments(pool' \cup mined')
  <2>1. d \in escrows /\ d \notin data
    BY <1>1
  <2>2. /\ Past(d.secret_hash) /\ Known(to_commitment(d))
        /\ to_commitment(d) \notin Commitments(pool \cup mined)
    BY <1>2, <2>1 DEF EscrowData
  <2>3. Past(d.secret_hash)'
    BY <1>1, <2>2, StillPast
  <2>4. Known(to_commitment(d))'
    BY <2>2, BlockKnown
  <2>5. Commitments(pool' \cup mined')
          = Commitments(pool \cup mined) \cup {to_commitment(x) : x \in data}
    BY BlockAdds
  <2>6. ASSUME NEW x \in data PROVE to_commitment(d) # to_commitment(x)
    <3>1. IsDeposit(d) /\ IsDeposit(x) /\ d # x
      BY <1>1, <1>3, <2>1
    <3> QED
      BY <3>1, CommitmentsOfDeposits
  <2> QED
    BY <2>2, <2>3, <2>4, <2>5, <2>6
<1>6. EscrowData'
  BY <1>1, <1>3, <1>4, <1>5 DEF EscrowData
<1>7. ASSUME NEW t \in Tokens
      PROVE  Ledger(t, mined') + Escrowed(t, escrows') = deposited[t]
  <2>1. Ledger(t, mined') = Ledger(t, mined) + Escrowed(t, data)
    BY <1>1, BlockBalances
  <2>2. \A d \in escrows' \cup data : IsDeposit(d)
    BY <1>1, <1>3
  <2>3. Escrowed(t, escrows' \cup data) = Escrowed(t, escrows') + Escrowed(t, data)
    BY <1>1, <1>4, <2>2, EscrowedUnion
  <2>4. Escrowed(t, escrows) = Escrowed(t, escrows') + Escrowed(t, data)
    BY <1>1, <2>3
  <2>5. Ledger(t, mined) + Escrowed(t, escrows) = deposited[t]
    BY <1>2 DEF LedgerBalances
  <2>6. Escrowed(t, escrows') \in Nat /\ Escrowed(t, data) \in Nat
    BY <1>4, <2>2, EscrowedIs
  <2>7. Ledger(t, mined) \in Nat
    BY LedgerTypes DEF LedgerInv, MinedTxs
  <2> QED
    BY <2>1, <2>4, <2>5, <2>6, <2>7
<1>8. DOMAIN deposited = Tokens
  BY <1>2 DEF LedgerBalances
<1>9. LedgerBalances'
  BY <1>1, <1>7, <1>8 DEF LedgerBalances
<1> QED
  BY <1>6, <1>9

LEMMA ProposeLedger ==
  ASSUME WalletInv, LedgerInv, NEW txs \in SUBSET pool, NEW data \in SUBSET escrows,
         ProposeBlock(txs, data)
  PROVE  LedgerInv'
<1>1. Taken(txs, data)
  BY DEF ProposeBlock, Taken
<1>2. PICK all : Mines(txs, data, all)
  BY <1>1 DEF ProposeBlock, process_propose_block_event, Mines, OnlyDeposits
<1>3. ops \in Nat /\ ops' = ops
  BY <1>2 DEF LedgerInv, Mines
<1>4. MinedTxs' /\ PoolTxs' /\ EscrowData' /\ NotShared' /\ LedgerBalances'
  BY <1>2, BlockChain, BlockEscrow, BlockNotShared
<1>5. EntriesFit'
  <2>1. ASSUME NEW c \in Clients, NEW e \in wallet'[c] PROVE EntryFits(c, e)'
    <3>1. wallet'[c] = Marked(wallet[c], all) \cup Received(c, all)
      BY <1>2 DEF Mines
    <3>2. CASE e \in Marked(wallet[c], all)
      BY <1>2, <3>2, MarkedFits
    <3>3. CASE e \in Received(c, all)
      BY <1>2, <3>3, ReceivedFits
    <3> QED
      BY <3>1, <3>2, <3>3
  <2> QED
    BY <2>1 DEF EntriesFit
<1> QED
  BY <1>3, <1>4, <1>5 DEF LedgerInv

-----------------------------------------------------------------------------
(* The first deposits: every one is in one of the first blocks             *)

EarlyData(e) == [i \in DOMAIN e |-> DepositData(EarlyPreimages(e)[i])]

LEMMA EarlyIs ==
  ASSUME NEW e \in Endowments, NEW i \in DOMAIN e,
         NEW p, p = EarlyPreimages(e)[i], NEW d, d = EarlyData(e)[i]
  PROVE  /\ IsDeposit(d)
         /\ d.nf_token_id = e[i].token /\ d.value = e[i].value
         /\ d.secret_hash = p.salt /\ p.salt = SecretHash(DepositSecret(<<"early", i>>))
<1> DEFINE secret == DepositSecret(<<"early", i>>)
<1>1. e[i].token \in Tokens /\ e[i].value \in Nat
  BY EndowmentIs
<1>2. p = DepositPreimage(e[i].value, e[i].token, SlotOf[e[i].token], secret)
  BY DEF EarlyPreimages
<1> HIDE DEF secret
<1>3. /\ p.value = e[i].value /\ p.nf_token_id = e[i].token /\ p.nf_slot_id = SlotOf[e[i].token]
      /\ p.public_key = Neutral /\ p.salt = SecretHash(secret)
  BY <1>2, DepositPreimageIs
<1>4. d = DepositData(p)
  BY DEF EarlyData
<1>5. /\ d.nf_token_id = e[i].token /\ d.nf_slot_id = SlotOf[e[i].token]
      /\ d.value = e[i].value /\ d.secret_hash = p.salt /\ IsDeposit(d)
  BY <1>1, <1>3, <1>4 DEF DepositData, IsDeposit
<1> QED
  BY <1>3, <1>5 DEF secret

LEMMA EarlyHash ==
  ASSUME NEW e \in Endowments, NEW i \in DOMAIN e
  PROVE  to_commitment(EarlyData(e)[i]) = Hash(EarlyPreimages(e)[i])
<1> DEFINE p == EarlyPreimages(e)[i]
           d == EarlyData(e)[i]
           secret == DepositSecret(<<"early", i>>)
<1>1. d = DepositData(p)
  BY DEF EarlyData
<1>2. p = DepositPreimage(e[i].value, e[i].token, SlotOf[e[i].token], secret)
  BY DEF EarlyPreimages
<1>3. IsDeposit(d)
  BY EarlyIs
<1> HIDE DEF p, d, secret
<1>4. p.public_key = Neutral
  BY <1>2, DepositPreimageIs
<1>5. /\ d.nf_token_id = p.nf_token_id /\ d.nf_slot_id = p.nf_slot_id
      /\ d.value = p.value /\ d.secret_hash = p.salt
  BY <1>1 DEF DepositData
<1>6. to_commitment(d) = poseidon_hash(d.nf_token_id, d.nf_slot_id, d.value, Neutral, d.secret_hash)
  BY <1>3, CommitmentOfDeposit
<1>7. to_commitment(d) = Hash(p)
  BY <1>4, <1>5, <1>6 DEF Hash
<1> QED
  BY <1>7 DEF p, d

\* No two of them share a secret.
LEMMA EarlyDiffer ==
  ASSUME NEW e \in Endowments, NEW i \in DOMAIN e, NEW j \in DOMAIN e,
         EarlyData(e)[i] = EarlyData(e)[j]
  PROVE  i = j
<1> DEFINE s(k) == SecretHash(DepositSecret(<<"early", k>>))
<1>1. EarlyData(e)[i].secret_hash = s(i) /\ EarlyData(e)[j].secret_hash = s(j)
  BY EarlyIs
<1>2. s(i)[2][2] = <<"early", i>> /\ s(j)[2][2] = <<"early", j>>
  BY SecretHashIs
<1> HIDE DEF s
<1>3. <<"early", i>> = <<"early", j>>
  BY <1>1, <1>2
<1> QED
  BY <1>3

\* The transaction that starts at a deposit takes it and the next three.
LEMMA EarlyTxIs ==
  ASSUME NEW e \in Endowments, NEW i \in DOMAIN e,
         NEW tx, tx = DepositTx(SubSeq(EarlyData(e), i, Len(EarlyData(e))))
  PROVE  /\ WellFormed(tx) /\ ~ IsWithdraw(tx) /\ tx.fee = 0
         /\ Nullifiers({tx}) = {} /\ Spends({tx}) = {}
         /\ \A h : h \in Commitments({tx}) <=>
              \E j \in DOMAIN e : i <= j /\ j <= i + 3 /\ h = to_commitment(EarlyData(e)[j])
<1> DEFINE data == EarlyData(e)
           list == SubSeq(data, i, Len(data))
           n == Len(e)
<1>1. n \in Nat /\ DOMAIN e = 1 .. n /\ i \in 1 .. n
  BY EndowmentIs
<1>2. DOMAIN data = 1 .. n /\ Len(data) = n
  <2>1. data = [k \in 1 .. n |-> DepositData(EarlyPreimages(e)[k])]
    BY <1>1 DEF EarlyData
  <2> HIDE DEF data, n
  <2> QED
    BY <1>1, <2>1
<1>3. \A k \in 1 .. n : IsDeposit(data[k])
  BY <1>1, EarlyIs
<1> HIDE DEF data, n
<1>4. /\ Len(list) = n - i + 1 /\ DOMAIN list = 1 .. n - i + 1
      /\ \A k \in 1 .. n - i + 1 : list[k] = data[i + k - 1]
  <2> DEFINE S == {data[k] : k \in 1 .. n}
  <2>1. \A k \in i .. n : data[k] \in S
    BY <1>1
  <2> HIDE DEF S
  <2>2. /\ SubSeq(data, i, n) \in Seq(S)
        /\ Len(SubSeq(data, i, n)) = IF i <= n THEN n - i + 1 ELSE 0
        /\ \A k \in 1 .. n - i + 1 : SubSeq(data, i, n)[k] = data[i + k - 1]
    BY <1>1, <2>1, SubSeqProperties
  <2>3. list = SubSeq(data, i, n)
    BY <1>2
  <2> HIDE DEF list
  <2>4. DOMAIN list = 1 .. Len(list)
    BY <2>2, <2>3
  <2> QED
    BY <1>1, <2>2, <2>3, <2>4
<1>5. tx = DepositTx(list)
  BY DEF data
<1> HIDE DEF list
<1>6. Len(list) \in Nat /\ \A k \in DOMAIN list : IsDeposit(list[k])
  <2>1. ASSUME NEW k \in 1 .. n - i + 1 PROVE IsDeposit(list[k])
    <3>1. i + k - 1 \in 1 .. n
      BY <1>1
    <3> QED
      BY <1>3, <1>4, <3>1
  <2> QED
    BY <1>1, <1>4, <2>1
<1>7. /\ WellFormed(tx) /\ ~ IsWithdraw(tx) /\ tx.fee = 0
      /\ Nullifiers({tx}) = {} /\ Spends({tx}) = {}
      /\ \A h : h \in Commitments({tx}) <=>
                  \E k \in Slots : k <= Len(list) /\ h = to_commitment(list[k])
  BY <1>4, <1>5, <1>6, DepositTxIs
<1>8. ASSUME NEW h, NEW k \in Slots, k <= Len(list), h = to_commitment(list[k])
      PROVE  \E j \in DOMAIN e : i <= j /\ j <= i + 3 /\ h = to_commitment(data[j])
  <2>1. k \in 1 .. n - i + 1 /\ k \in 1 .. 4
    BY <1>1, <1>4, <1>8 DEF Slots
  <2>2. list[k] = data[i + k - 1]
    BY <1>4, <2>1
  <2>3. i \in Nat /\ k \in Nat /\ k >= 1 /\ k <= 4 /\ k <= n - i + 1
    BY <1>1, <2>1
  <2>4. i + k - 1 \in 1 .. n /\ i <= i + k - 1 /\ i + k - 1 <= i + 3
    BY <1>1, <2>3
  <2> QED
    BY <1>1, <1>8, <2>2, <2>4
<1>9. ASSUME NEW h, NEW j \in DOMAIN e, i <= j, j <= i + 3, h = to_commitment(data[j])
      PROVE  \E k \in Slots : k <= Len(list) /\ h = to_commitment(list[k])
  <2> DEFINE k == j - i + 1
  <2>0. /\ i \in Nat /\ j \in Nat /\ n \in Nat
        /\ 1 <= i /\ i <= j /\ j <= n /\ j <= i + 3
    <3>1. j \in 1 .. n
      BY <1>1
    <3> QED
      BY <1>1, <1>9, <3>1
  <2>1. k \in 1 .. n - i + 1 /\ k \in 1 .. 4 /\ k <= n - i + 1 /\ i + k - 1 = j
    <3>1. PICK m \in Nat : j = i + m
      <4>1. j - i \in Nat /\ j = i + (j - i)
        BY <2>0
      <4> QED
        BY <4>1
    <3>2. k = m + 1
      BY <2>0, <3>1
    <3> HIDE DEF k
    <3>3. k \in 1 .. 4 /\ i + k - 1 = j
      BY <2>0, <3>1, <3>2
    <3>4. k \in 1 .. n - i + 1 /\ k <= n - i + 1
      BY <2>0, <3>1, <3>2
    <3> QED
      BY <3>3, <3>4
  <2> HIDE DEF k
  <2>2. list[k] = data[j] /\ k <= Len(list) /\ k \in Slots
    BY <1>4, <2>1 DEF Slots
  <2> QED
    BY <1>9, <2>2
<1>10. ASSUME NEW h
       PROVE  h \in Commitments({tx}) <=>
                \E j \in DOMAIN e : i <= j /\ j <= i + 3 /\ h = to_commitment(data[j])
  BY <1>7, <1>8, <1>9
<1> QED
  BY <1>7, <1>10 DEF data

\* Four by four, every deposit has its chunk.
LEMMA ChunkOf ==
  ASSUME NEW j \in Nat, j >= 1
  PROVE  \E i \in 1 .. j : i % 4 = 1 /\ j <= i + 3
<1>1. (j - 1) % 4 \in 0 .. 3 /\ j - 1 \in Nat
  OBVIOUS
<1>2. PICK q \in Nat, r \in 0 .. 3 : j - 1 = 4 * q + r
  <2> DEFINE T == {n \in Nat : \E q \in Nat, r \in 0 .. 3 : n = 4 * q + r}
  <2>1. 0 \in T
    <3>1. 0 = 4 * 0 + 0 /\ 0 \in 0 .. 3
      OBVIOUS
    <3> QED
      BY <3>1
  <2>2. ASSUME NEW n \in Nat, n \in T PROVE n + 1 \in T
    <3>1. PICK q \in Nat, r \in 0 .. 3 : n = 4 * q + r
      BY <2>2
    <3>2. CASE r < 3
      <4>1. n + 1 = 4 * q + (r + 1) /\ r + 1 \in 0 .. 3
        BY <3>1, <3>2
      <4> QED
        BY <4>1
    <3>3. CASE r = 3
      <4>1. n + 1 = 4 * (q + 1) + 0 /\ q + 1 \in Nat /\ 0 \in 0 .. 3 /\ n + 1 \in Nat
        BY <3>1, <3>3
      <4>2. \E p \in Nat, s \in 0 .. 3 : n + 1 = 4 * p + s
        BY <4>1, Zenon
      <4> QED
        BY <4>1, <4>2
    <3> QED
      BY <3>2, <3>3
  <2> HIDE DEF T
  <2>3. Nat \subseteq T
    BY <2>1, <2>2, Induction
  <2> QED
    BY <1>1, <2>3 DEF T
<1>3. 4 * q + 1 \in 1 .. j /\ j <= (4 * q + 1) + 3
  BY <1>2
<1>4. (4 * q + 1) % 4 = 1
  BY <1>2
<1> QED
  BY <1>3, <1>4

LEMMA EarlyChain ==
  ASSUME NEW e \in Endowments, NEW M, M = EarlyTxs(e),
         NEW D, D = {EarlyData(e)[i] : i \in DOMAIN e}
  PROVE  /\ IsFiniteSet(M) /\ \A tx \in M : WellFormed(tx) /\ ~ IsWithdraw(tx) /\ tx.fee = 0
         /\ Nullifiers(M) = {} /\ Spends(M) = {}
         /\ Commitments(M) = {to_commitment(d) : d \in D}
<1> DEFINE data == EarlyData(e)
           I == {i \in DOMAIN e : i % 4 = 1}
           f == [i \in DOMAIN e |-> DepositTx(SubSeq(data, i, Len(data)))]
<1>1. M = {f[i] : i \in I}
  BY DEF EarlyTxs, EarlyData
<1>2. IsFiniteSet(DOMAIN e) /\ Len(e) \in Nat /\ DOMAIN e = 1 .. Len(e)
  BY EndowmentIs
<1>3. IsFiniteSet(M)
  <2>1. IsFiniteSet(I)
    BY <1>2, FS_Subset
  <2> HIDE DEF I, f
  <2> QED
    BY <1>1, <2>1, ImageIsFinite
<1>4. ASSUME NEW i \in DOMAIN e
      PROVE  /\ WellFormed(f[i]) /\ ~ IsWithdraw(f[i]) /\ f[i].fee = 0
             /\ Nullifiers({f[i]}) = {} /\ Spends({f[i]}) = {}
             /\ \A h : h \in Commitments({f[i]}) <=>
                  \E j \in DOMAIN e : i <= j /\ j <= i + 3 /\ h = to_commitment(data[j])
  <2>1. f[i] = DepositTx(SubSeq(EarlyData(e), i, Len(EarlyData(e))))
    OBVIOUS
  <2> HIDE DEF f
  <2> QED
    BY <2>1, EarlyTxIs
<1> HIDE DEF f, data
<1>5. \A tx \in M : WellFormed(tx) /\ ~ IsWithdraw(tx) /\ tx.fee = 0
  BY <1>1, <1>4
<1>6. Nullifiers(M) = {}
  <2>1. \A tx \in M : Nullifiers({tx}) = {}
    BY <1>1, <1>4
  <2>2. \A n : n \in Nullifiers(M) <=> \E tx \in M : n \in Nullifiers({tx})
    BY OfMembers
  <2> QED
    BY <2>1, <2>2
<1>7. Spends(M) = {}
  BY <1>6 DEF Spends
<1>8. ASSUME NEW h \in Commitments(M) PROVE h \in {to_commitment(d) : d \in D}
  <2>1. PICK i \in I : h \in Commitments({f[i]})
    <3>1. PICK tx \in M : h \in Commitments({tx})
      BY <1>8, OfMembers
    <3> QED
      BY <1>1, <3>1
  <2>2. PICK j \in DOMAIN e : h = to_commitment(data[j])
    BY <1>4, <2>1
  <2> QED
    BY <2>2 DEF data
<1>9. ASSUME NEW d \in D PROVE to_commitment(d) \in Commitments(M)
  <2>1. PICK j \in DOMAIN e : d = data[j]
    BY DEF data
  <2>2. PICK i \in 1 .. j : i % 4 = 1 /\ j <= i + 3
    <3>1. j \in Nat /\ j >= 1
      BY <1>2
    <3> QED
      BY <3>1, ChunkOf
  <2>3. i \in DOMAIN e /\ i <= j
    BY <1>2, <2>2
  <2>4. f[i] \in M
    BY <1>1, <2>2, <2>3
  <2>5. to_commitment(d) \in Commitments({f[i]})
    BY <1>4, <2>1, <2>2, <2>3
  <2> QED
    BY <2>4, <2>5, OfMembers
<1> QED
  BY <1>3, <1>5, <1>6, <1>7, <1>8, <1>9

\* What the first deposits come to is what can be spent.
LEMMA EarlyBalances ==
  ASSUME NEW e \in Endowments, NEW M, M = EarlyTxs(e), NEW t
  PROVE  Ledger(t, M) = EarlyAmount(e, t)
<1> DEFINE D == {EarlyData(e)[i] : i \in DOMAIN e}
           data == EarlyData(e)
           C == {to_commitment(d) : d \in D}
           g == [i \in DOMAIN e |-> IF e[i].token = t THEN e[i].value ELSE 0]
           f == [d \in D |-> DepositOf(t, d)]
<1>1. IsFiniteSet(DOMAIN e) /\ \A i \in DOMAIN e : e[i].value \in Nat
  BY EndowmentIs
<1>2. /\ IsFiniteSet(M) /\ \A tx \in M : WellFormed(tx) /\ ~ IsWithdraw(tx) /\ tx.fee = 0
      /\ Spends(M) = {} /\ Commitments(M) = C
  BY EarlyChain
<1>3. \A d \in D : IsDeposit(d)
  BY EarlyIs
<1>4. \A i, j \in DOMAIN e : data[i] = data[j] => i = j
  BY EarlyDiffer
<1>5. ASSUME NEW i \in DOMAIN e PROVE g[i] = f[data[i]] /\ g[i] \in Int
  <2>1. data[i].nf_token_id = e[i].token /\ data[i].value = e[i].value
    BY EarlyIs
  <2>2. data[i] \in D
    OBVIOUS
  <2>3. f[data[i]] = DepositOf(t, data[i])
    BY <2>2
  <2>4. g[i] = IF e[i].token = t THEN e[i].value ELSE 0
    OBVIOUS
  <2> HIDE DEF f, g, data
  <2> QED
    BY <1>1, <2>1, <2>3, <2>4 DEF DepositOf
<1>6. (\A d \in D : f[d] = DepositOf(t, d)) /\ D = {data[i] : i \in DOMAIN e}
  OBVIOUS
<1>7. EarlyAmount(e, t) = SumFunctionOnSet(g, DOMAIN e)
  BY DEF EarlyAmount, SumFunction
<1> HIDE DEF data, f, g, D
<1>8. IsFiniteSet(D) /\ SumFunctionOnSet(f, D) = SumFunctionOnSet(g, DOMAIN e)
  <2> DEFINE S == DOMAIN e
  <2>0. /\ IsFiniteSet(S) /\ \A i, j \in S : data[i] = data[j] => i = j
        /\ \A i \in S : g[i] = f[data[i]] /\ g[i] \in Int
    BY <1>1, <1>4, <1>5
  <2> HIDE DEF S
  <2>1. /\ IsFiniteSet({data[i] : i \in S})
        /\ SumFunctionOnSet(f, {data[i] : i \in S}) = SumFunctionOnSet(g, S)
    <3>1. IsFiniteSet(S)
      BY <2>0
    <3>2. \A i, j \in S : data[i] = data[j] => i = j
      BY <2>0
    <3>3. \A i \in S : g[i] = f[data[i]] /\ g[i] \in Int
      BY <2>0
    <3> QED
      BY ONLY <3>1, <3>2, <3>3, SumReindex
  <2> QED
    BY <1>6, <2>1 DEF S
<1>9. SumFunctionOnSet(f, D) = Escrowed(t, D)
  BY <1>3, <1>6, <1>8, EscrowedIs
<1>10. (\A h \in C : h[5] # contract_nf_address) /\ Amount(t, C) = Escrowed(t, D)
  BY <1>3, <1>8, EscrowedIsMinted
<1> HIDE DEF C
<1>11. LiveIn(M) = C
  BY <1>2, <1>10 DEF LiveIn, Kept
<1>12. WithdrawnFrom(t, M) = 0 /\ FeesFrom(t, M) = 0
  <2> DEFINE w == [tx \in M |-> WithdrawnBy(t, tx)]
             p == [tx \in M |-> FeeOf(t, tx)]
  <2>1. \A tx \in M : w[tx] = 0 /\ p[tx] = 0
    BY <1>2 DEF WithdrawnBy, FeeOf
  <2> HIDE DEF w, p
  <2>2. SumFunctionOnSet(w, M) = 0 /\ SumFunctionOnSet(p, M) = 0
    BY <1>2, <2>1, SumZero
  <2> QED
    BY <2>2 DEF WithdrawnFrom, FeesFrom, w, p
<1>13. Escrowed(t, D) \in Nat
  BY <1>3, <1>8, EscrowedIs
<1> QED
  BY <1>7, <1>8, <1>9, <1>10, <1>11, <1>12, <1>13 DEF Ledger

LEMMA InitLedger ==
  ASSUME Init
  PROVE  LedgerInv
<1>1. PICK e \in Endowments :
        /\ wallet = [c \in Clients |-> IF c = FirstClient
                      THEN {Entry(c, EarlyPreimages(e)[i], "Unspent") : i \in DOMAIN e} ELSE {}]
        /\ escrows = {} /\ pool = {} /\ mined = EarlyTxs(e) /\ ops = 0
        /\ deposited = [t \in Tokens |-> EarlyAmount(e, t)]
  BY DEF Init
<1> DEFINE data == EarlyData(e)
           p == EarlyPreimages(e)
<1>2. /\ FirstClient \in Clients
      /\ wallet[FirstClient] = {Entry(FirstClient, p[i], "Unspent") : i \in DOMAIN e}
      /\ \A c \in Clients : c # FirstClient => wallet[c] = {}
  BY <1>1, LedgerAssumption
<1>3. /\ IsFiniteSet(mined) /\ \A tx \in mined : WellFormed(tx) /\ ~ IsWithdraw(tx)
      /\ Spends(mined) = {}
      /\ Commitments(mined) = {to_commitment(d) : d \in {data[i] : i \in DOMAIN e}}
  BY <1>1, EarlyChain
<1>4. ASSUME NEW i \in DOMAIN e
      PROVE  to_commitment(data[i]) = Hash(p[i]) /\ Past(p[i].salt)
  <2>1. to_commitment(data[i]) = Hash(p[i])
    BY EarlyHash
  <2>2. p[i].salt = SecretHash(DepositSecret(<<"early", i>>))
    BY EarlyIs
  <2>3. \A n \in Nat : ~ SaltOf(n, p[i].salt)
    BY <2>2, EarlySaltIs
  <2> QED
    BY <2>1, <2>3 DEF Past
<1> HIDE DEF data, p
<1>5. \A h : h \in Commitments(mined) <=> \E i \in DOMAIN e : h = Hash(p[i])
  BY <1>3, <1>4
<1>6. PoolTxs
  BY <1>1, FS_EmptySet DEF PoolTxs
<1>7. MinedTxs
  <2>1. ASSUME NEW h \in Commitments(mined) PROVE OnChain(h)
    <3>1. PICK i \in DOMAIN e : h = Hash(p[i])
      BY <1>5
    <3>2. Past(h[6])
      BY <1>4, <3>1, SaltIs
    <3>3. Entry(FirstClient, p[i], "Unspent").preimage = p[i]
      BY EntryIs
    <3>4. Known(h)
      BY <1>2, <3>1, <3>3 DEF Known
    <3> QED
      BY <3>2, <3>4 DEF OnChain
  <2> QED
    BY <1>3, <2>1 DEF MinedTxs, Claimed
<1>8. EscrowData
  BY <1>1, FS_EmptySet DEF EscrowData
<1>9. EntriesFit
  <2> SUFFICES ASSUME NEW c \in Clients, NEW x \in wallet[c] PROVE EntryFits(c, x)
    BY DEF EntriesFit
  <2>1. c = FirstClient
    BY <1>2
  <2>2. PICK i \in DOMAIN e : x = Entry(c, p[i], "Unspent")
    BY <1>2, <2>1
  <2>3. /\ x.preimage = p[i] /\ x.status = "Unspent"
        /\ x.nullifier = nullifier_hash(p[i], nullifier_key(c))
    BY <2>2 DEF Entry
  <2>4. Hash(p[i]) \in Commitments(mined)
    BY <1>5
  <2>5. Spends(pool \cup mined) = {}
    <3>1. pool \cup mined = mined
      BY <1>1
    <3> QED
      BY <1>3, <3>1
  <2> QED
    BY <1>4, <2>3, <2>4, <2>5 DEF EntryFits
<1>10. NotShared
  BY <1>2 DEF NotShared
<1>11. LedgerBalances
  <2> SUFFICES ASSUME NEW t \in Tokens
               PROVE  Ledger(t, mined) + Escrowed(t, escrows) = deposited[t]
    BY <1>1 DEF LedgerBalances
  <2>1. Ledger(t, mined) = EarlyAmount(e, t)
    BY <1>1, EarlyBalances
  <2>2. Escrowed(t, escrows) = 0
    BY <1>1, SumEmpty DEF Escrowed
  <2>3. Ledger(t, mined) \in Nat
    BY <1>3, LedgerTypes
  <2>4. deposited[t] = EarlyAmount(e, t)
    BY <1>1
  <2> QED
    BY <2>1, <2>2, <2>3, <2>4
<1> QED
  BY <1>1, <1>6, <1>7, <1>8, <1>9, <1>10, <1>11 DEF LedgerInv

LEMMA NextLedger ==
  ASSUME WalletInv, LedgerInv, [Next]_vars
  PROVE  LedgerInv'
<1>1. ASSUME NEW r \in Deposits, handle_deposit(r) PROVE LedgerInv'
  BY <1>1, DepositLedger
<1>2. ASSUME NEW r \in Requests, handle_transfer(r) \/ handle_withdraw(r) PROVE LedgerInv'
  <2>1. r.kind \in {"transfer", "withdraw"} /\ Operate(r)
    BY <1>2 DEF handle_transfer, handle_withdraw
  <2> QED
    BY <2>1, OperateLedger
<1>3. ASSUME NEW txs \in SUBSET pool, NEW data \in SUBSET escrows, ProposeBlock(txs, data)
      PROVE  LedgerInv'
  BY <1>3, ProposeLedger
<1>4. ASSUME UNCHANGED vars PROVE LedgerInv'
  <2>1. /\ wallet' = wallet /\ escrows' = escrows /\ pool' = pool /\ mined' = mined
        /\ deposited' = deposited /\ claims' = claims /\ ops' = ops
    BY <1>4 DEF vars
  <2>2. \A x : Past(x) => Past(x)'
    BY <2>1, StillPast DEF LedgerInv
  <2>3. \A h : Known(h) => Known(h)'
    BY <2>1 DEF Known
  <2>4. MinedTxs' /\ \A tx : InPool(tx) => InPool(tx)'
    BY <2>1, <2>3, ChainStays DEF LedgerInv
  <2>5. PoolTxs'
    BY <2>1, <2>4 DEF LedgerInv, PoolTxs, Apart
  <2>6. EscrowData'
    BY <2>1, <2>2, <2>3 DEF LedgerInv, EscrowData
  <2>7. EntriesFit'
    BY <2>1, <2>2 DEF LedgerInv, EntriesFit, EntryFits
  <2>8. NotShared' /\ LedgerBalances'
    BY <2>1 DEF LedgerInv, NotShared, LedgerBalances
  <2> QED
    BY <2>1, <2>4, <2>5, <2>6, <2>7, <2>8 DEF LedgerInv
<1> QED
  BY <1>1, <1>2, <1>3, <1>4 DEF Next

-----------------------------------------------------------------------------
(* The invariant gives every token its owner                               *)

LEMMA OneHolder ==
  ASSUME LedgerInv, NEW h \in Live
  PROVE  Cardinality(Holders(h)) = 1
<1>1. /\ h \in Commitments(mined) /\ h[5] # contract_nf_address
      /\ \A c \in Clients : NullifierOf(nullifier_key(c), h) \notin Nullifiers(mined)
  BY DEF Live, IsLive
<1>2. MinedTxs /\ EntriesFit /\ NotShared
  BY DEF LedgerInv
<1>3. Known(h)
  BY <1>1, <1>2 DEF MinedTxs, OnChain
<1>3a. PICK c \in Clients : \E e \in wallet[c] : Hash(e.preimage) = h
  BY <1>3 DEF Known
<1>4. PICK e \in wallet[c] : Hash(e.preimage) = h
  BY <1>3a
<1>5. e.status \in {"Unspent", "PendingSpend"}
  <2>1. EntryFits(c, e)
    BY <1>2, <1>4 DEF EntriesFit
  <2>2. e.nullifier = NullifierOf(nullifier_key(c), h)
    BY <1>4, <2>1 DEF EntryFits, nullifier_hash
  <2> QED
    BY <1>1, <1>4, <2>1, <2>2 DEF EntryFits
<1>6. Holders(h) = {c}
  <2>1. c \in Holders(h)
    BY <1>4, <1>5 DEF Holders
  <2>2. ASSUME NEW d \in Holders(h) PROVE d = c
    <3>1. d \in Clients /\ \E f \in wallet[d] : Hash(f.preimage) = h
      BY DEF Holders
    <3> QED
      BY <1>2, <1>4, <3>1 DEF NotShared
  <2> QED
    BY <2>1, <2>2
<1> QED
  BY <1>6, FS_Singleton

LEMMA LedgerGivesOwners ==
  ASSUME LedgerInv
  PROVE  EveryTokenHasAnOwner
<1>1. IsFiniteSet(mined) /\ \A tx \in mined : WellFormed(tx) /\ Claimed(tx)
  BY DEF LedgerInv, MinedTxs
<1>2. ASSUME NEW t \in Tokens
      PROVE  LiveAmount(t) + WithdrawnAmount(t) + FeesPaid(t) + InEscrow(t) = deposited[t]
  <2>1. LiveAmount(t) + WithdrawnAmount(t) + FeesPaid(t) = Ledger(t, mined)
    BY <1>1, LedgerIs
  <2>2. InEscrow(t) = Escrowed(t, escrows)
    BY DEF InEscrow, Escrowed, SumFunction, DepositOf
  <2>3. Ledger(t, mined) + Escrowed(t, escrows) = deposited[t]
    BY DEF LedgerInv, LedgerBalances
  <2> QED
    BY <2>1, <2>2, <2>3
<1>3. ASSUME NEW tx \in Withdraws PROVE WithdrawData(tx) \in claims
  <2>1. tx \in mined /\ IsWithdraw(tx)
    BY DEF Withdraws, IsWithdraw
  <2> QED
    BY <1>1, <2>1 DEF Claimed
<1> QED
  BY <1>2, <1>3, OneHolder DEF EveryTokenHasAnOwner

\* Nothing is lost between the wallets and the chain, whatever deposits,
\* transfers and withdraws the clients make and whichever of them a proposer
\* puts in each block: every commitment on chain that can still be spent is
\* held by exactly one client, with the preimage that opens it, the
\* recipient of a transfer finding it by decrypting the transaction; what is
\* held, withdrawn, paid as fees and in escrow adds up to what was deposited;
\* and every withdraw on chain is one its client was told how to claim.
THEOREM OwnersCorrect == Spec => []EveryTokenHasAnOwner
<1>1. Init => WalletInv /\ LedgerInv
  BY InitWallets, InitLedger
<1>2. WalletInv /\ LedgerInv /\ [Next]_vars => WalletInv' /\ LedgerInv'
  BY NextWallets, NextLedger
<1>3. LedgerInv => EveryTokenHasAnOwner
  BY LedgerGivesOwners
<1> QED
  BY <1>1, <1>2, <1>3, PTL DEF Spec

=============================================================================
