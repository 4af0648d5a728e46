--------------------------- MODULE NightfallProofs ---------------------------
(***************************************************************************)
(* Proofs about Nightfall for any tokens, amounts, fees, payments and      *)
(* block sizes: what the contract holds is what it owes but for deposits   *)
(* behind padding and fees that were not paid, and exactly what it owes    *)
(* when it is used as this repository uses it.                             *)
(***************************************************************************)
EXTENDS Nightfall, SumTheorems

-----------------------------------------------------------------------------
(* The keys *)

LEMMA ImageFinite ==
  ASSUME NEW S, IsFiniteSet(S), NEW f
  PROVE  IsFiniteSet({f[x] : x \in S})
<1> DEFINE T == {f[x] : x \in S}
           g == [x \in S |-> f[x]]
<1>1. g \in Surjection(S, T)
  BY DEF Surjection
<1> HIDE DEF T, g
<1>2. IsFiniteSet(T)
  BY <1>1, FS_Surjection
<1> QED
  BY <1>2 DEF T

\* What a deposit key is.
LEMMA DepositKeyFields ==
  ASSUME NEW k \in DepositKey
  PROVE  /\ k.token \in AnyToken /\ k.value \in ValuesOf(k.token) /\ k.secret \in Secrets
         /\ k = [token |-> k.token, value |-> k.value, secret |-> k.secret]
  BY DEF DepositKey

LEMMA WithdrawKeyFields ==
  ASSUME NEW k \in WithdrawKey
  PROVE  /\ k.token \in AnyToken /\ k.value \in ValuesOf(k.token) /\ k.salt \in Nullifiers
         /\ k = [token |-> k.token, value |-> k.value, salt |-> k.salt]
  BY DEF WithdrawKey

\* Every value a token is moved with, and the weight of a commitment, is a
\* natural number.
LEMMA WeightNat ==
  ASSUME NEW k \in DepositKey \cup WithdrawKey
  PROVE  Weight[k] = Units(k) /\ Units(k) \in Nat
<1>1. k.token \in AnyToken /\ k.value \in ValuesOf(k.token)
  BY DepositKeyFields, WithdrawKeyFields
<1>2. DepositFees \subseteq Nat
  BY DEF DepositFees
<1> QED
  BY <1>1, <1>2, NightfallAssumption DEF Weight, Units, ValuesOf

LEMMA DepositFeesFinite == IsFiniteSet(DepositFees)
<1> DEFINE P == Fees \X Payments
           g == [x \in P |-> DepositFeeOf(x[1], x[2])]
<1>1. IsFiniteSet(P)
  BY NightfallAssumption, FS_Product
<1>2. DepositFees \subseteq {g[x] : x \in P}
  <2>1. ASSUME NEW fee \in Fees, NEW paid \in Payments
        PROVE  DepositFeeOf(fee, paid) \in {g[x] : x \in P}
    <3>1. <<fee, paid>> \in P /\ g[<<fee, paid>>] = DepositFeeOf(fee, paid)
      OBVIOUS
    <3> QED
      BY <3>1
  <2> QED
    BY <2>1 DEF DepositFees
<1>3. IsFiniteSet({g[x] : x \in P})
  <2> HIDE DEF P, g
  <2> QED
    BY <1>1, ImageFinite
<1> HIDE DEF P, g
<1> QED
  BY <1>2, <1>3, FS_Subset

LEMMA KeysFinite == IsFiniteSet(DepositKey) /\ IsFiniteSet(WithdrawKey)
<1> DEFINE V == Amounts \cup DepositFees \cup {0}
<1>1. IsFiniteSet(AnyToken) /\ IsFiniteSet(V)
  BY NightfallAssumption, DepositFeesFinite, FS_Union, FS_Singleton DEF AnyToken
<1>2. \A t \in AnyToken : ValuesOf(t) \subseteq V
  BY DEF ValuesOf
<1> HIDE DEF V
<1>3. IsFiniteSet(AnyToken \X V)
  BY <1>1, FS_Product
<1>4. IsFiniteSet(DepositKey)
  <2> DEFINE P == (AnyToken \X V) \X Secrets
             f == [x \in P |-> [token |-> x[1][1], value |-> x[1][2], secret |-> x[2]]]
  <2>1. IsFiniteSet(P)
    BY <1>3, FS_Product, NightfallAssumption
  <2>2. IsFiniteSet({f[x] : x \in P})
    <3> HIDE DEF P, f
    <3> QED
      BY <2>1, ImageFinite
  <2>3. ASSUME NEW k \in DepositKey PROVE k \in {f[x] : x \in P}
    <3> DEFINE x == <<<<k.token, k.value>>, k.secret>>
    <3>1. x \in P /\ f[x] = k
      BY <1>2, DepositKeyFields
    <3> QED
      BY <3>1
  <2> HIDE DEF P, f
  <2> QED
    BY <2>2, <2>3, FS_Subset
<1>5. IsFiniteSet(WithdrawKey)
  <2> DEFINE P == (AnyToken \X V) \X Nullifiers
             f == [x \in P |-> [token |-> x[1][1], value |-> x[1][2], salt |-> x[2]]]
  <2>1. IsFiniteSet(P)
    BY <1>3, FS_Product, NightfallAssumption
  <2>2. IsFiniteSet({f[x] : x \in P})
    <3> HIDE DEF P, f
    <3> QED
      BY <2>1, ImageFinite
  <2>3. ASSUME NEW k \in WithdrawKey PROVE k \in {f[x] : x \in P}
    <3> DEFINE x == <<<<k.token, k.value>>, k.salt>>
    <3>1. x \in P /\ f[x] = k
      BY <1>2, WithdrawKeyFields
    <3> QED
      BY <3>1
  <2> HIDE DEF P, f
  <2> QED
    BY <2>2, <2>3, FS_Subset
<1> QED
  BY <1>4, <1>5

-----------------------------------------------------------------------------
(* The books, as functions of the deposit bindings B, of the set I of      *)
(* inserted deposits and of the set W of withdraws not yet paid.           *)

Bindings == [DepositKey -> [fee : Nat, escrowed : {0, 1}, redeemed : {0, 1}]]

Waiting(B, t) == {k \in DepositKey : k.token = t /\ B[k].escrowed = 1 /\ B[k].redeemed = 0}
Unredeemed(B) == {k \in DepositKey : B[k].redeemed = 0}
FeeOf(B) == [k \in DepositKey |-> B[k].fee]
Unpaid(W, t) == {k \in W : k.token = t}
Gap(B, I, t) == {k \in I : k.token = t /\ B[k].redeemed = 0}

WaitingSum(B, t) == SumFunctionOnSet(Weight, Waiting(B, t))
FeesOwed(B) == SumFunctionOnSet(FeeOf(B), Unredeemed(B))
UnpaidSum(W, t) == SumFunctionOnSet(Weight, Unpaid(W, t))
GapSum(B, I, t) == SumFunctionOnSet(Weight, Gap(B, I, t))

\* A key nothing was deposited under has no fee and is not redeemed.
Tidy(B) == \A k \in DepositKey : B[k].escrowed = 0 => B[k].fee = 0 /\ B[k].redeemed = 0

LEMMA BooksInt ==
  ASSUME NEW B \in Bindings, NEW W \in SUBSET WithdrawKey,
         NEW I \in SUBSET DepositKey, NEW t
  PROVE  /\ IsFiniteSet(Waiting(B, t)) /\ WaitingSum(B, t) \in Nat
         /\ IsFiniteSet(Unredeemed(B)) /\ FeesOwed(B) \in Int
         /\ IsFiniteSet(Unpaid(W, t)) /\ UnpaidSum(W, t) \in Nat
         /\ IsFiniteSet(Gap(B, I, t)) /\ GapSum(B, I, t) \in Nat
<1>1. /\ Waiting(B, t) \in SUBSET DepositKey /\ Unredeemed(B) \in SUBSET DepositKey
      /\ Unpaid(W, t) \in SUBSET WithdrawKey /\ Gap(B, I, t) \in SUBSET DepositKey
  BY DEF Waiting, Unredeemed, Unpaid, Gap
<1>2. /\ IsFiniteSet(Waiting(B, t)) /\ IsFiniteSet(Unredeemed(B))
      /\ IsFiniteSet(Unpaid(W, t)) /\ IsFiniteSet(Gap(B, I, t))
  BY <1>1, KeysFinite, FS_Subset
<1>3. /\ \A k \in Waiting(B, t) : Weight[k] \in Nat
      /\ \A k \in Unpaid(W, t) : Weight[k] \in Nat
      /\ \A k \in Gap(B, I, t) : Weight[k] \in Nat
  BY <1>1, WeightNat
<1>4. \A k \in Unredeemed(B) : FeeOf(B)[k] \in Int
  BY <1>1 DEF FeeOf, Bindings
<1>5. WaitingSum(B, t) \in Nat /\ UnpaidSum(W, t) \in Nat /\ GapSum(B, I, t) \in Nat
  BY <1>2, <1>3, SumNat DEF WaitingSum, UnpaidSum, GapSum
<1>6. FeesOwed(B) \in Int
  BY <1>2, <1>4, SumPick DEF FeesOwed
<1> QED
  BY <1>2, <1>5, <1>6

\* Binding a free key adds its units and its fee to the books, and opens and
\* closes no gap.
LEMMA BindBooks ==
  ASSUME NEW B \in Bindings, Tidy(B), NEW k \in DepositKey, B[k].escrowed = 0,
         NEW fee \in Nat
  PROVE  LET C == Bind(B, k, fee)
         IN /\ C \in Bindings /\ Tidy(C)
            /\ FeesOwed(C) = FeesOwed(B) + fee
            /\ \A t : WaitingSum(C, t) =
                        WaitingSum(B, t) + (IF t = k.token THEN Units(k) ELSE 0)
            /\ \A I \in SUBSET DepositKey : \A t : GapSum(C, I, t) = GapSum(B, I, t)
            /\ \A x \in DepositKey : C[x].redeemed = B[x].redeemed
<1> DEFINE C == Bind(B, k, fee)
<1>1. /\ C \in Bindings
      /\ C[k].fee = fee /\ C[k].escrowed = 1 /\ C[k].redeemed = 0
      /\ \A x \in DepositKey \ {k} : C[x] = B[x]
  BY DEF Bind, Bindings
<1>2. B[k].fee = 0 /\ B[k].redeemed = 0
  BY DEF Tidy
<1> HIDE DEF C
<1>3. Tidy(C)
  BY <1>1 DEF Tidy
<1>4. FeesOwed(C) = FeesOwed(B) + fee
  <2>1. Unredeemed(C) = Unredeemed(B) /\ k \in Unredeemed(B)
    BY <1>1, <1>2 DEF Unredeemed
  <2>2. IsFiniteSet(Unredeemed(B)) /\ FeesOwed(B) \in Int
    BY BooksInt
  <2>3. /\ FeeOf(C)[k] = fee /\ FeeOf(C)[k] \in Int /\ FeeOf(B)[k] = 0
        /\ \A x \in Unredeemed(B) : FeeOf(B)[x] \in Int
        /\ \A x \in Unredeemed(B) \ {k} : FeeOf(C)[x] = FeeOf(B)[x]
    BY <1>1, <1>2 DEF FeeOf, Unredeemed, Bindings
  <2>4. SumFunctionOnSet(FeeOf(C), Unredeemed(B)) =
          SumFunctionOnSet(FeeOf(B), Unredeemed(B)) - FeeOf(B)[k] + FeeOf(C)[k]
    BY ONLY <2>1, <2>2, <2>3, SumUpdate
  <2> QED
    BY <2>1, <2>2, <2>3, <2>4 DEF FeesOwed
<1>5. ASSUME NEW t
      PROVE  WaitingSum(C, t) = WaitingSum(B, t) + (IF t = k.token THEN Units(k) ELSE 0)
  <2>1. IsFiniteSet(Waiting(B, t)) /\ WaitingSum(B, t) \in Nat
    BY BooksInt
  <2>2. CASE t = k.token
    <3>1. Waiting(C, t) = Waiting(B, t) \cup {k} /\ k \notin Waiting(B, t)
      BY <1>1, <1>2, <2>2 DEF Waiting
    <3>2. Weight[k] = Units(k) /\ Units(k) \in Int /\ \A x \in Waiting(B, t) : Weight[x] \in Int
      BY WeightNat DEF Waiting
    <3>3. SumFunctionOnSet(Weight, Waiting(B, t) \cup {k}) =
            SumFunctionOnSet(Weight, Waiting(B, t)) + Weight[k]
      BY <2>1, <3>1, <3>2, SumAdd
    <3> QED
      BY <2>2, <3>1, <3>2, <3>3 DEF WaitingSum
  <2>3. CASE t # k.token
    <3>1. Waiting(C, t) = Waiting(B, t)
      BY <1>1, <2>3 DEF Waiting
    <3> QED
      BY <2>1, <2>3, <3>1 DEF WaitingSum
  <2> QED
    BY <2>2, <2>3
<1>6. ASSUME NEW I \in SUBSET DepositKey, NEW t
      PROVE  GapSum(C, I, t) = GapSum(B, I, t)
  <2>1. Gap(C, I, t) = Gap(B, I, t)
    BY <1>1, <1>2 DEF Gap
  <2> QED
    BY <2>1 DEF GapSum
<1>7. \A x \in DepositKey : C[x].redeemed = B[x].redeemed
  BY <1>1, <1>2
<1> QED
  BY <1>1, <1>3, <1>4, <1>5, <1>6, <1>7 DEF C

-----------------------------------------------------------------------------
(* Blocks *)

\* What the entries of a block are, by their kind.
LEMMA EntryFields ==
  ASSUME NEW blk \in Blocks
  PROVE  /\ IsFiniteSet(DOMAIN blk)
         /\ \A i \in Of(blk, "deposit") : blk[i].key \in DepositKey
         /\ \A i \in Of(blk, "withdraw") : blk[i].key \in WithdrawKey
         /\ \A i \in Of(blk, "transfer") \cup Of(blk, "withdraw") :
              blk[i].fee \in Nat /\ Nullifier(blk[i]) \in Nullifiers
<1>1. PICK n \in 1 .. MaxTxs : blk \in [1 .. n -> Entry]
  BY DEF Blocks
<1>2. DOMAIN blk = 1 .. n /\ \A i \in 1 .. n : blk[i] \in Entry
  BY <1>1
<1>3. IsFiniteSet(1 .. n)
  BY FS_Interval, NightfallAssumption
<1>4. \A i \in Of(blk, "deposit") : blk[i].key \in DepositKey
  BY <1>2 DEF Of, Entry, DepositEntry, TransferEntry, WithdrawEntry
<1>5. \A i \in Of(blk, "withdraw") : blk[i].key \in WithdrawKey /\ blk[i].fee \in Nat
  BY <1>2, NightfallAssumption DEF Of, Entry, DepositEntry, TransferEntry, WithdrawEntry
<1>6. \A i \in Of(blk, "transfer") : blk[i].nullifier \in Nullifiers /\ blk[i].fee \in Nat
  BY <1>2, NightfallAssumption DEF Of, Entry, DepositEntry, TransferEntry, WithdrawEntry
<1>7. \A i \in Of(blk, "withdraw") : Nullifier(blk[i]) \in Nullifiers
  BY <1>5, WithdrawKeyFields DEF Of, Nullifier
<1>8. \A i \in Of(blk, "transfer") : Nullifier(blk[i]) \in Nullifiers
  BY <1>6 DEF Of, Nullifier
<1> QED
  BY <1>2, <1>3, <1>4, <1>5, <1>6, <1>7, <1>8

\* When every entry of I has its own key, the units the entries move are the
\* units of their keys.
LEMMA UnitsOfKeys ==
  ASSUME NEW blk \in Blocks, NEW I \in SUBSET DOMAIN blk, NEW t,
         \A i \in I : blk[i].key \in DepositKey \cup WithdrawKey,
         \A i, j \in I : blk[i].key = blk[j].key => i = j
  PROVE  LET K == {k \in {blk[i].key : i \in I} : k.token = t}
         IN /\ IsFiniteSet(K)
            /\ SumFunctionOnSet(Weight, K) = UnitsOf(blk, I, t)
            /\ UnitsOf(blk, I, t) \in Nat
<1> DEFINE J == {i \in I : blk[i].key.token = t}
           e == [i \in I |-> blk[i].key]
           g == [i \in I |-> Units(blk[i].key)]
           K == {k \in {blk[i].key : i \in I} : k.token = t}
<1>1. IsFiniteSet(J)
  BY EntryFields, FS_Subset
<1>2. K = {e[i] : i \in J}
  OBVIOUS
<1>3. \A i, j \in J : e[i] = e[j] => i = j
  OBVIOUS
<1>4. \A i \in J : g[i] = Weight[e[i]] /\ g[i] \in Nat
  BY WeightNat
<1>5. UnitsOf(blk, I, t) = SumFunctionOnSet(g, J)
  BY DEF UnitsOf
<1> HIDE DEF e, g, J, K
<1>6. IsFiniteSet({e[i] : i \in J}) /\ SumFunctionOnSet(Weight, {e[i] : i \in J}) = SumFunctionOnSet(g, J)
  BY <1>1, <1>3, <1>4, SumReindex
<1>7. SumFunctionOnSet(g, J) \in Nat
  BY <1>1, <1>4, SumNat
<1> QED
  BY <1>2, <1>5, <1>6, <1>7 DEF K

\* Redeeming a block's checked deposits takes their units and fees off the books.
LEMMA RedeemBooks ==
  ASSUME NEW blk \in Blocks, feeBinding \in Bindings, Tidy(feeBinding),
         DepositsRedeemable(blk)
  PROVE  LET C == RedeemedBy(blk)
         IN /\ C \in Bindings /\ Tidy(C)
            /\ FeesOwed(C) = FeesOwed(feeBinding) - BoundFees(blk)
            /\ BoundFees(blk) \in Int
            /\ \A t : /\ UnitsOf(blk, Checked(blk), t) \in Nat
                      /\ WaitingSum(C, t) = WaitingSum(feeBinding, t)
                                            - UnitsOf(blk, Checked(blk), t)
<1> DEFINE C == RedeemedBy(blk)
           D == Checked(blk)
           K == {blk[i].key : i \in D}
<1>1. /\ D \in SUBSET DOMAIN blk /\ IsFiniteSet(DOMAIN blk)
      /\ \A i \in D : blk[i].key \in DepositKey
      /\ \A i, j \in D : blk[i].key = blk[j].key => i = j
      /\ \A i \in D : Redeemable(blk[i].key)
  BY EntryFields DEF Checked, Of, DepositsRedeemable
<1>2. /\ K \subseteq DepositKey
      /\ \A k \in K : feeBinding[k].escrowed = 1 /\ feeBinding[k].redeemed = 0
  BY <1>1 DEF Redeemable
<1>3. C = [k \in DepositKey |-> IF k \in K THEN [feeBinding[k] EXCEPT !.redeemed = 1]
                                           ELSE feeBinding[k]]
  BY DEF RedeemedBy
<1> HIDE DEF K
<1>4. /\ C \in Bindings
      /\ \A k \in DepositKey : C[k].fee = feeBinding[k].fee /\ C[k].escrowed = feeBinding[k].escrowed
      /\ \A k \in K : C[k].redeemed = 1
      /\ \A k \in DepositKey \ K : C[k].redeemed = feeBinding[k].redeemed
  <2> HIDE DEF C, D
  <2> QED
    BY <1>2, <1>3 DEF Bindings
<1> HIDE DEF C
<1>5. Tidy(C)
  BY <1>2, <1>4 DEF Tidy
<1>6. FeesOwed(C) = FeesOwed(feeBinding) - BoundFees(blk) /\ BoundFees(blk) \in Int
  <2> DEFINE e == [i \in D |-> blk[i].key]
             g == [i \in D |-> feeBinding[blk[i].key].fee]
             F == FeeOf(feeBinding)
             U == Unredeemed(feeBinding)
  <2>1. K = {e[i] : i \in D} /\ \A i, j \in D : e[i] = e[j] => i = j
    BY <1>1 DEF K
  <2>2. \A i \in D : g[i] = F[e[i]] /\ g[i] \in Int
    BY <1>1 DEF FeeOf, Bindings
  <2>3. IsFiniteSet(D)
    BY <1>1, FS_Subset
  <2>4. BoundFees(blk) = SumFunctionOnSet(g, D)
    BY DEF BoundFees
  <2>5. /\ U = Unredeemed(C) \cup K /\ Unredeemed(C) \cap K = {}
        /\ IsFiniteSet(U) /\ IsFiniteSet(Unredeemed(C))
    <3>1. U = Unredeemed(C) \cup K /\ Unredeemed(C) \cap K = {}
      BY <1>2, <1>4 DEF Unredeemed
    <3>2. IsFiniteSet(U) /\ IsFiniteSet(Unredeemed(C))
      BY <1>4, BooksInt
    <3> QED
      BY <3>1, <3>2
  <2>6. /\ \A k \in U : F[k] \in Int
        /\ \A k \in Unredeemed(C) : FeeOf(C)[k] = F[k]
    BY <1>4 DEF FeeOf, Unredeemed, Bindings
  <2> HIDE DEF e, g, F, U, D
  <2>7. IsFiniteSet(K) /\ SumFunctionOnSet(F, K) = SumFunctionOnSet(g, D)
    BY <2>1, <2>2, <2>3, SumReindex
  <2>8. SumFunctionOnSet(F, U) = SumFunctionOnSet(F, Unredeemed(C)) + SumFunctionOnSet(F, K)
    BY <2>5, <2>6, <2>7, SumUnion
  <2>9. SumFunctionOnSet(FeeOf(C), Unredeemed(C)) = SumFunctionOnSet(F, Unredeemed(C))
    BY <2>5, <2>6, SumSame
  <2>10. SumFunctionOnSet(F, Unredeemed(C)) \in Int /\ SumFunctionOnSet(g, D) \in Int
    BY <2>2, <2>3, <2>5, <2>6, SumPick
  <2>11. /\ FeesOwed(C) = SumFunctionOnSet(F, Unredeemed(C))
         /\ FeesOwed(feeBinding) = SumFunctionOnSet(F, U)
    BY <2>9 DEF FeesOwed, F, U
  <2> QED
    BY <2>4, <2>7, <2>8, <2>10, <2>11
<1>7. ASSUME NEW t
      PROVE  /\ UnitsOf(blk, D, t) \in Nat
             /\ WaitingSum(C, t) = WaitingSum(feeBinding, t) - UnitsOf(blk, D, t)
  <2> DEFINE Kt == {k \in K : k.token = t}
             U == Waiting(feeBinding, t)
  <2>1. /\ IsFiniteSet(Kt) /\ SumFunctionOnSet(Weight, Kt) = UnitsOf(blk, D, t)
        /\ UnitsOf(blk, D, t) \in Nat
    <3> HIDE DEF D
    <3> QED
      BY <1>1, UnitsOfKeys DEF K
  <2>2. U = Waiting(C, t) \cup Kt /\ Waiting(C, t) \cap Kt = {}
    <3> HIDE DEF C, K
    <3> QED
      BY <1>2, <1>4, SMTT(30) DEF Waiting
  <2>3. IsFiniteSet(Waiting(C, t)) /\ WaitingSum(C, t) \in Nat
    BY <1>4, BooksInt
  <2>4. \A k \in Waiting(C, t) \cup Kt : Weight[k] \in Int
    BY <1>2, WeightNat DEF Waiting
  <2> HIDE DEF Kt, U, D
  <2>5. SumFunctionOnSet(Weight, Waiting(C, t) \cup Kt) =
          SumFunctionOnSet(Weight, Waiting(C, t)) + SumFunctionOnSet(Weight, Kt)
    BY <2>1, <2>2, <2>3, <2>4, SumUnion
  <2>6. WaitingSum(feeBinding, t) = WaitingSum(C, t) + UnitsOf(blk, D, t)
    BY <2>1, <2>2, <2>5 DEF WaitingSum, U
  <2> QED
    BY <2>1, <2>3, <2>6
<1> QED
  BY <1>4, <1>5, <1>6, <1>7 DEF C

\* Every redeemed deposit's commitment is in the tree.
RedeemedIn(B, I) == \A k \in DepositKey : B[k].redeemed = 1 => k \in I

\* Inserting a block's deposits opens a gap of the new ones, and redeeming the
\* checked ones closes it by their units.
LEMMA GapBooks ==
  ASSUME NEW blk \in Blocks, feeBinding \in Bindings, inserted \in SUBSET DepositKey,
         RedeemedIn(feeBinding, inserted), DepositsRedeemable(blk)
  PROVE  LET C == RedeemedBy(blk)
             J == inserted \cup Deposited(blk)
         IN /\ J \in SUBSET DepositKey /\ RedeemedIn(C, J)
            /\ \A t : /\ Added(blk, t) \in Nat /\ UnitsOf(blk, Checked(blk), t) \in Nat
                      /\ GapSum(C, J, t) + UnitsOf(blk, Checked(blk), t) =
                           GapSum(feeBinding, inserted, t) + Added(blk, t)
<1> DEFINE C == RedeemedBy(blk)
           J == inserted \cup Deposited(blk)
           D == Checked(blk)
           K == {blk[i].key : i \in D}
<1>1. /\ D \in SUBSET DOMAIN blk
      /\ \A i \in D : blk[i].key \in DepositKey
      /\ \A i, j \in D : blk[i].key = blk[j].key => i = j
      /\ K \subseteq Deposited(blk) /\ Deposited(blk) \subseteq DepositKey
      /\ \A k \in K : feeBinding[k].redeemed = 0
  BY EntryFields DEF Checked, Of, Deposited, DepositsRedeemable, Redeemable
<1>2. C = [k \in DepositKey |-> IF k \in K THEN [feeBinding[k] EXCEPT !.redeemed = 1]
                                           ELSE feeBinding[k]]
  BY DEF RedeemedBy
<1> HIDE DEF K
<1>3. /\ C \in Bindings
      /\ \A k \in K : C[k].redeemed = 1
      /\ \A k \in DepositKey \ K : C[k].redeemed = feeBinding[k].redeemed
  <2> HIDE DEF C, D
  <2> QED
    BY <1>1, <1>2 DEF Bindings
<1> HIDE DEF C
<1>4. J \in SUBSET DepositKey /\ RedeemedIn(C, J)
  BY <1>1, <1>3 DEF RedeemedIn
<1>5. \A k \in DepositKey : feeBinding[k].redeemed = 0 \/ k \in inserted
  BY DEF RedeemedIn, Bindings
<1>6. ASSUME NEW t
      PROVE  /\ Added(blk, t) \in Nat /\ UnitsOf(blk, D, t) \in Nat
             /\ GapSum(C, J, t) + UnitsOf(blk, D, t) =
                  GapSum(feeBinding, inserted, t) + Added(blk, t)
  <2> DEFINE Kt == {k \in K : k.token = t}
             N == {k \in Deposited(blk) \ inserted : k.token = t}
             U == Gap(feeBinding, inserted, t)
             V == Gap(C, J, t)
  <2>1. /\ IsFiniteSet(Kt) /\ SumFunctionOnSet(Weight, Kt) = UnitsOf(blk, D, t)
        /\ UnitsOf(blk, D, t) \in Nat
    <3>1. /\ D \in SUBSET DOMAIN blk
          /\ \A i \in D : blk[i].key \in DepositKey \cup WithdrawKey
          /\ \A i, j \in D : blk[i].key = blk[j].key => i = j
      BY <1>1
    <3> HIDE DEF D
    <3> QED
      BY ONLY <3>1, blk \in Blocks, UnitsOfKeys DEF K
  <2>2. U \cup N = V \cup Kt
    <3>1. ASSUME NEW k \in U \cup N PROVE k \in V \cup Kt
      <4>1. k \in J /\ k \in DepositKey /\ k.token = t /\ feeBinding[k].redeemed = 0
        BY <1>1, <1>5 DEF Gap
      <4>2. k \in K => k \in Kt
        BY <4>1
      <4>3. k \notin K => C[k].redeemed = 0
        BY <1>3, <4>1
      <4>4. C[k].redeemed = 0 => k \in V
        BY <4>1 DEF Gap
      <4> QED
        BY <4>2, <4>3, <4>4
    <3>2. ASSUME NEW k \in V \cup Kt PROVE k \in U \cup N
      <4>1. k \in J /\ k \in DepositKey /\ k.token = t
        BY <1>1, <1>4 DEF Gap
      <4>2. feeBinding[k].redeemed = 0
        BY <1>1, <1>3, <4>1 DEF Gap
      <4> QED
        BY <4>1, <4>2 DEF Gap
    <3> HIDE DEF U, V, N, Kt
    <3> QED
      BY <3>1, <3>2
  <2>3. U \cap N = {} /\ V \cap Kt = {}
    BY <1>3 DEF Gap
  <2>4. /\ IsFiniteSet(U) /\ GapSum(feeBinding, inserted, t) \in Nat
        /\ IsFiniteSet(V) /\ GapSum(C, J, t) \in Nat
    <3> HIDE DEF J
    <3> QED
      BY <1>3, <1>4, BooksInt
  <2>5. N \in SUBSET DepositKey /\ U \in SUBSET DepositKey
        /\ V \in SUBSET DepositKey /\ Kt \in SUBSET DepositKey
    BY <1>1, <1>4 DEF Gap
  <2>6. \A k \in U \cup N \cup V \cup Kt : Weight[k] \in Nat
    <3> HIDE DEF U, V, N, Kt
    <3> QED
      BY <2>5, WeightNat
  <2>7. IsFiniteSet(N) /\ Added(blk, t) = SumFunctionOnSet(Weight, N)
    <3>1. IsFiniteSet(N)
      <4> HIDE DEF N
      <4> QED
        BY <2>5, KeysFinite, FS_Subset
    <3> QED
      BY <3>1 DEF Added
  <2>8. /\ GapSum(feeBinding, inserted, t) = SumFunctionOnSet(Weight, U)
        /\ GapSum(C, J, t) = SumFunctionOnSet(Weight, V)
    BY DEF GapSum
  <2> HIDE DEF Kt, N, U, V, D, J
  <2>9. SumFunctionOnSet(Weight, U \cup N) =
          SumFunctionOnSet(Weight, U) + SumFunctionOnSet(Weight, N)
    BY <2>3, <2>4, <2>6, <2>7, SumUnion
  <2>10. SumFunctionOnSet(Weight, V \cup Kt) =
           SumFunctionOnSet(Weight, V) + SumFunctionOnSet(Weight, Kt)
    BY <2>1, <2>3, <2>4, <2>6, SumUnion
  <2>11. SumFunctionOnSet(Weight, N) \in Nat
    BY <2>6, <2>7, SumNat
  <2> QED
    BY <2>1, <2>2, <2>7, <2>8, <2>9, <2>10, <2>11
<1> QED
  BY <1>4, <1>6 DEF C

\* Including a block's withdraws adds their units to what is to be paid.
LEMMA IncludeBooks ==
  ASSUME NEW blk \in Blocks, withdrawalIncluded \in SUBSET WithdrawKey,
         WithdrawsFresh(blk), NEW t
  PROVE  LET W == withdrawalIncluded \cup {blk[i].key : i \in Of(blk, "withdraw")}
         IN /\ W \in SUBSET WithdrawKey
            /\ UnitsOf(blk, Of(blk, "withdraw"), t) \in Nat
            /\ UnpaidSum(W, t) = UnpaidSum(withdrawalIncluded, t)
                                 + UnitsOf(blk, Of(blk, "withdraw"), t)
<1> DEFINE I == Of(blk, "withdraw")
           K == {blk[i].key : i \in I}
           W == withdrawalIncluded \cup K
           Kt == {k \in K : k.token = t}
           U == Unpaid(withdrawalIncluded, t)
<1>1. /\ I \in SUBSET DOMAIN blk
      /\ \A i \in I : blk[i].key \in WithdrawKey
      /\ \A i, j \in I : blk[i].key = blk[j].key => i = j
      /\ \A i \in I : blk[i].key \notin withdrawalIncluded
  BY EntryFields DEF Of, WithdrawsFresh
<1> HIDE DEF I
<1>2. /\ IsFiniteSet(Kt) /\ SumFunctionOnSet(Weight, Kt) = UnitsOf(blk, I, t)
      /\ UnitsOf(blk, I, t) \in Nat
  BY <1>1, UnitsOfKeys
<1>3. K \subseteq WithdrawKey /\ K \cap withdrawalIncluded = {}
  BY <1>1
<1> HIDE DEF K
<1>4. W \in SUBSET WithdrawKey /\ Unpaid(W, t) = U \cup Kt /\ U \cap Kt = {}
  BY <1>3 DEF Unpaid
<1>5. /\ IsFiniteSet(U) /\ UnpaidSum(withdrawalIncluded, t) \in Int
      /\ \A k \in U \cup Kt : Weight[k] \in Int
  <2>1. \A k \in U \cup Kt : k \in WithdrawKey
    BY <1>3 DEF Unpaid
  <2>2. U \in SUBSET WithdrawKey
    BY DEF Unpaid
  <2>3. IsFiniteSet(U)
    BY <2>2, KeysFinite, FS_Subset
  <2>4. \A k \in U \cup Kt : Weight[k] \in Int
    BY <2>1, WeightNat
  <2>5. SumFunctionOnSet(Weight, U) \in Int
    <3> HIDE DEF U, Kt
    <3> QED
      BY <2>3, <2>4, SumPick
  <2> QED
    BY <2>3, <2>4, <2>5 DEF UnpaidSum
<1> HIDE DEF Kt, U, W
<1>6. SumFunctionOnSet(Weight, U \cup Kt) =
        SumFunctionOnSet(Weight, U) + SumFunctionOnSet(Weight, Kt)
  BY <1>2, <1>4, <1>5, SumUnion
<1>7. UnpaidSum(W, t) = UnpaidSum(withdrawalIncluded, t) + UnitsOf(blk, I, t)
  BY <1>2, <1>4, <1>6 DEF UnpaidSum, U
<1> QED
  BY <1>2, <1>4, <1>7 DEF W, K, I

\* Paying a withdraw takes its units off.
LEMMA PayBooks ==
  ASSUME NEW W \in SUBSET WithdrawKey, NEW k \in W, NEW t
  PROVE  UnpaidSum(W, t) = UnpaidSum(W \ {k}, t) + (IF t = k.token THEN Units(k) ELSE 0)
<1>0. W \ {k} \in SUBSET WithdrawKey /\ Unpaid(W, t) \in SUBSET WithdrawKey
  BY DEF Unpaid
<1>1. /\ IsFiniteSet(Unpaid(W, t))
      /\ \A x \in Unpaid(W, t) : Weight[x] \in Int
      /\ Weight[k] = Units(k)
  <2>1. IsFiniteSet(Unpaid(W, t))
    BY <1>0, KeysFinite, FS_Subset
  <2>2. \A x \in Unpaid(W, t) \cup {k} : Weight[x] = Units(x) /\ Units(x) \in Int
    BY <1>0, WeightNat
  <2> QED
    BY <2>1, <2>2
<1>2. CASE t = k.token
  <2>1. k \in Unpaid(W, t) /\ Unpaid(W \ {k}, t) = Unpaid(W, t) \ {k}
    BY <1>2 DEF Unpaid
  <2>2. /\ SumFunctionOnSet(Weight, Unpaid(W, t) \ {k}) \in Int
        /\ SumFunctionOnSet(Weight, Unpaid(W, t)) =
             Weight[k] + SumFunctionOnSet(Weight, Unpaid(W, t) \ {k})
    BY <1>1, <2>1, SumRemove
  <2>3. Weight[k] \in Int
    BY <1>1, <2>1
  <2>4. /\ UnpaidSum(W \ {k}, t) \in Int
        /\ UnpaidSum(W, t) = Weight[k] + UnpaidSum(W \ {k}, t)
    BY ONLY <2>1, <2>2 DEF UnpaidSum
  <2>5. UnpaidSum(W, t) = UnpaidSum(W \ {k}, t) + Units(k)
    BY ONLY <1>1, <2>3, <2>4
  <2> QED
    BY <1>2, <2>5
<1>3. CASE t # k.token
  <2>1. Unpaid(W \ {k}, t) = Unpaid(W, t)
    BY <1>3 DEF Unpaid
  <2>2. UnpaidSum(W, t) \in Int
    BY <1>1, SumPick DEF UnpaidSum
  <2> QED
    BY <1>3, <2>1, <2>2 DEF UnpaidSum
<1> QED
  BY <1>2, <1>3

LEMMA FeeSumNat ==
  ASSUME NEW blk \in Blocks
  PROVE  FeeSum(blk) \in Nat
<1> DEFINE C == Of(blk, "transfer") \cup Of(blk, "withdraw")
           g == [i \in C |-> blk[i].fee]
<1>1. C \in SUBSET DOMAIN blk /\ \A i \in C : g[i] \in Nat
  BY EntryFields DEF Of
<1>2. IsFiniteSet(C)
  BY <1>1, EntryFields, FS_Subset
<1>3. FeeSum(blk) = SumFunctionOnSet(g, C)
  BY DEF FeeSum
<1> HIDE DEF C, g
<1> QED
  BY <1>1, <1>2, <1>3, SumNat

-----------------------------------------------------------------------------
(* The invariant.  The balance counts on the rest: a free key has neither *)
(* a fee nor a redemption, and a redeemed deposit is in the tree.          *)

Balanced ==
  /\ \A t \in Token : held[t] + GapSum(feeBinding, inserted, t) =
                         WaitingSum(feeBinding, t) + l2[t] + UnpaidSum(withdrawalIncluded, t)
  /\ eth + GapSum(feeBinding, inserted, FeeToken) =
       l2[FeeToken] + WaitingSum(feeBinding, FeeToken)
       + UnpaidSum(withdrawalIncluded, FeeToken) + FeesOwed(feeBinding) + surplus

LedgerInv ==
  /\ TypeOK
  /\ Tidy(feeBinding)
  /\ RedeemedIn(feeBinding, inserted)
  /\ Balanced

LEMMA BalancedMeans == Balanced <=> TokensBacked /\ EtherBacked
<1>1. /\ \A t : AwaitingBlock(t) = WaitingSum(feeBinding, t)
      /\ \A t : AwaitingPayment(t) = UnpaidSum(withdrawalIncluded, t)
      /\ \A t : Unbacked(t) = GapSum(feeBinding, inserted, t)
  BY DEF AwaitingBlock, AwaitingPayment, Unbacked, WaitingSum, Waiting, UnpaidSum, Unpaid,
         GapSum, Gap
<1>2. TokensBacked <=>
        \A t \in Token : held[t] + GapSum(feeBinding, inserted, t) =
          WaitingSum(feeBinding, t) + l2[t] + UnpaidSum(withdrawalIncluded, t)
  BY <1>1 DEF TokensBacked
<1>3. EtherBacked <=>
        eth + GapSum(feeBinding, inserted, FeeToken) =
          l2[FeeToken] + WaitingSum(feeBinding, FeeToken)
          + UnpaidSum(withdrawalIncluded, FeeToken) + FeesOwed(feeBinding) + surplus
  BY <1>1 DEF EtherBacked, FeesOwed, FeeOf, Unredeemed
<1> QED
  BY <1>2, <1>3 DEF Balanced

LEMMA InitLedger == Init => LedgerInv
<1> SUFFICES ASSUME Init PROVE LedgerInv
  OBVIOUS
<1>1. TypeOK /\ Tidy(feeBinding) /\ RedeemedIn(feeBinding, inserted)
  BY DEF Init, TypeOK, NotEscrowed, Tidy, RedeemedIn
<1>2. \A t : /\ Waiting(feeBinding, t) = {} /\ Unpaid(withdrawalIncluded, t) = {}
            /\ Gap(feeBinding, inserted, t) = {}
  BY DEF Init, NotEscrowed, Waiting, Unpaid, Gap
<1>3. \A t : /\ WaitingSum(feeBinding, t) = 0 /\ UnpaidSum(withdrawalIncluded, t) = 0
            /\ GapSum(feeBinding, inserted, t) = 0
  BY <1>2, SumEmpty DEF WaitingSum, UnpaidSum, GapSum
<1>4. FeesOwed(feeBinding) = 0
  <2>1. IsFiniteSet(Unredeemed(feeBinding))
    BY KeysFinite, FS_Subset DEF Unredeemed
  <2>2. \A k \in Unredeemed(feeBinding) : FeeOf(feeBinding)[k] = 0
    BY DEF Init, NotEscrowed, FeeOf, Unredeemed
  <2> QED
    BY <2>1, <2>2, SumZero DEF FeesOwed
<1>5. Balanced
  BY <1>3, <1>4 DEF Init, Balanced, AnyToken
<1> QED
  BY <1>1, <1>5 DEF LedgerInv

LEMMA EscrowStep ==
  ASSUME LedgerInv, NEW k \in DepositKey, NEW fee \in Fees, NEW paid \in Payments,
         escrow_funds(k, fee, paid)
  PROVE  LedgerInv'
<1> DEFINE B == Bind(feeBinding, k, fee)
           d == DepositFeeOf(fee, paid)
           feeKey == [token |-> FeeToken, value |-> d, secret |-> k.secret]
           C == Bind(B, feeKey, fee)
<1>1. fee \in Nat /\ paid \in Nat /\ FeeToken \notin Token /\ FeeToken \in AnyToken
  BY NightfallAssumption DEF AnyToken
<1>2. /\ feeBinding \in Bindings /\ withdrawalIncluded \in SUBSET WithdrawKey
      /\ held \in [Token -> Nat] /\ l2 \in [AnyToken -> Nat] /\ eth \in Nat
      /\ inserted \in SUBSET DepositKey /\ surplus \in Int
      /\ Tidy(feeBinding) /\ Balanced /\ RedeemedIn(feeBinding, inserted)
  BY DEF LedgerInv, TypeOK, Bindings
<1>3. /\ k.token \in Token /\ feeBinding[k].escrowed = 0
      /\ held' = [held EXCEPT ![k.token] = @ + Units(k)]
      /\ known' = known \cup {k.token}
      /\ eth' = eth + paid
      /\ UNCHANGED <<withdrawalIncluded, layer2_block_number, l2, inserted, nullified>>
  BY DEF escrow_funds, Free
<1>4. k \in DepositKey \cup WithdrawKey /\ Units(k) \in Nat
  BY WeightNat
<1>5. /\ B \in Bindings /\ Tidy(B) /\ FeesOwed(B) = FeesOwed(feeBinding) + fee
      /\ \A t : WaitingSum(B, t) =
                  WaitingSum(feeBinding, t) + (IF t = k.token THEN Units(k) ELSE 0)
      /\ \A t : GapSum(B, inserted, t) = GapSum(feeBinding, inserted, t)
      /\ \A x \in DepositKey : B[x].redeemed = feeBinding[x].redeemed
  BY <1>1, <1>2, <1>3, BindBooks
<1>6. /\ \A t : WaitingSum(feeBinding, t) \in Int
      /\ \A t : UnpaidSum(withdrawalIncluded, t) \in Int
      /\ \A t : GapSum(feeBinding, inserted, t) \in Int
      /\ FeesOwed(feeBinding) \in Int
  BY <1>2, BooksInt
<1>7. /\ \A t \in Token : /\ held[t] + GapSum(feeBinding, inserted, t) =
                               WaitingSum(feeBinding, t) + l2[t]
                               + UnpaidSum(withdrawalIncluded, t)
                          /\ l2[t] \in Int /\ held[t] \in Int
      /\ eth + GapSum(feeBinding, inserted, FeeToken) =
           l2[FeeToken] + WaitingSum(feeBinding, FeeToken)
           + UnpaidSum(withdrawalIncluded, FeeToken) + FeesOwed(feeBinding) + surplus
      /\ l2[FeeToken] \in Int
  BY <1>1, <1>2 DEF Balanced, AnyToken
<1>8. /\ held' \in [Token -> Nat] /\ eth' \in Nat
      /\ \A t \in Token : held'[t] = held[t] + (IF t = k.token THEN Units(k) ELSE 0)
  BY <1>1, <1>2, <1>3, <1>4
<1>9. \/ paid <= 2 * fee /\ feeBinding' = B /\ surplus' = surplus + paid - fee
      \/ paid > 2 * fee /\ feeBinding[feeKey].escrowed = 0 /\ feeBinding' = C
         /\ surplus' = surplus
  BY DEF escrow_funds, Free
<1>10. CASE feeBinding' = B /\ surplus' = surplus + paid - fee
  <2> HIDE DEF B
  <2>1. Balanced'
    <3>1. ASSUME NEW t \in Token
          PROVE  held'[t] + GapSum(B, inserted, t) =
                   WaitingSum(B, t) + l2[t] + UnpaidSum(withdrawalIncluded, t)
      <4> DEFINE u == IF t = k.token THEN Units(k) ELSE 0
      <4>1. /\ u \in Int /\ held'[t] = held[t] + u
            /\ WaitingSum(B, t) = WaitingSum(feeBinding, t) + u
            /\ GapSum(B, inserted, t) = GapSum(feeBinding, inserted, t)
        BY <1>4, <1>5, <1>8
      <4>2. /\ WaitingSum(feeBinding, t) \in Int /\ GapSum(feeBinding, inserted, t) \in Int
            /\ UnpaidSum(withdrawalIncluded, t) \in Int /\ l2[t] \in Int /\ held[t] \in Int
            /\ held[t] + GapSum(feeBinding, inserted, t) =
                 WaitingSum(feeBinding, t) + l2[t] + UnpaidSum(withdrawalIncluded, t)
        BY <1>6, <1>7
      <4> QED
        BY ONLY <4>1, <4>2
    <3>2. eth' + GapSum(B, inserted, FeeToken) =
            l2[FeeToken] + WaitingSum(B, FeeToken)
            + UnpaidSum(withdrawalIncluded, FeeToken) + FeesOwed(B) + (surplus + paid - fee)
      <4>1. WaitingSum(B, FeeToken) = WaitingSum(feeBinding, FeeToken) + 0
        BY <1>1, <1>3, <1>5
      <4> QED
        BY <1>1, <1>2, <1>3, <1>5, <1>6, <1>7, <4>1
    <3> QED
      BY <1>3, <1>10, <3>1, <3>2 DEF Balanced
  <2>2. TypeOK'
    BY <1>1, <1>2, <1>3, <1>5, <1>8, <1>10 DEF TypeOK, LedgerInv, Bindings
  <2>3. RedeemedIn(B, inserted)
    BY <1>2, <1>5 DEF RedeemedIn
  <2> QED
    BY <1>3, <1>5, <1>10, <2>1, <2>2, <2>3 DEF LedgerInv
<1>11. CASE /\ paid > 2 * fee /\ feeBinding[feeKey].escrowed = 0 /\ feeBinding' = C
            /\ surplus' = surplus
  <2>1. d \in Nat /\ d # 0 /\ paid = 2 * fee + d
    BY <1>1, <1>11 DEF DepositFeeOf
  <2>2. feeKey \in DepositKey /\ feeKey # k /\ Units(feeKey) = d /\ feeKey.token = FeeToken
    <3>1. d \in ValuesOf(FeeToken) /\ ~ IsNFT(FeeToken)
      BY <2>1 DEF ValuesOf, IsNFT, DepositFees
    <3>2. k.secret \in Secrets
      BY DepositKeyFields
    <3> QED
      BY <1>1, <1>3, <3>1, <3>2 DEF DepositKey, Units
  <2>3. B[feeKey].escrowed = 0
    BY <1>2, <1>11, <2>2 DEF Bind, Bindings
  <2> HIDE DEF B, feeKey, d
  <2>4. /\ C \in Bindings /\ Tidy(C) /\ FeesOwed(C) = FeesOwed(B) + fee
        /\ \A t : WaitingSum(C, t) = WaitingSum(B, t) + (IF t = feeKey.token THEN Units(feeKey) ELSE 0)
        /\ \A t : GapSum(C, inserted, t) = GapSum(B, inserted, t)
        /\ \A x \in DepositKey : C[x].redeemed = B[x].redeemed
    BY <1>1, <1>2, <1>5, <2>2, <2>3, BindBooks
  <2> HIDE DEF C
  <2>5. Balanced'
    <3>1. ASSUME NEW t \in Token
          PROVE  held'[t] + GapSum(C, inserted, t) =
                   WaitingSum(C, t) + l2[t] + UnpaidSum(withdrawalIncluded, t)
      <4> DEFINE u == IF t = k.token THEN Units(k) ELSE 0
      <4>1. /\ u \in Int /\ held'[t] = held[t] + u
            /\ WaitingSum(B, t) = WaitingSum(feeBinding, t) + u
            /\ WaitingSum(C, t) = WaitingSum(B, t) + 0
            /\ GapSum(C, inserted, t) = GapSum(feeBinding, inserted, t)
        BY <1>1, <1>4, <1>5, <1>8, <2>2, <2>4
      <4>2. /\ WaitingSum(feeBinding, t) \in Int /\ GapSum(feeBinding, inserted, t) \in Int
            /\ UnpaidSum(withdrawalIncluded, t) \in Int /\ l2[t] \in Int /\ held[t] \in Int
            /\ held[t] + GapSum(feeBinding, inserted, t) =
                 WaitingSum(feeBinding, t) + l2[t] + UnpaidSum(withdrawalIncluded, t)
        BY <1>6, <1>7
      <4> HIDE DEF u
      <4>3. WaitingSum(C, t) = WaitingSum(feeBinding, t) + u
        BY ONLY <4>1, <4>2
      <4> QED
        BY ONLY <4>1, <4>2, <4>3
    <3>2. eth' + GapSum(C, inserted, FeeToken) =
            l2[FeeToken] + WaitingSum(C, FeeToken)
            + UnpaidSum(withdrawalIncluded, FeeToken) + FeesOwed(C) + surplus
      <4>1. WaitingSum(B, FeeToken) = WaitingSum(feeBinding, FeeToken) + 0
        BY <1>1, <1>3, <1>5
      <4>2. WaitingSum(C, FeeToken) = WaitingSum(B, FeeToken) + d
        BY <2>2, <2>4
      <4>3. FeesOwed(C) = FeesOwed(feeBinding) + fee + fee
        BY <1>1, <1>5, <1>6, <2>4
      <4>4. GapSum(C, inserted, FeeToken) = GapSum(feeBinding, inserted, FeeToken)
        BY <1>5, <2>4
      <4>5. /\ WaitingSum(feeBinding, FeeToken) \in Int
            /\ GapSum(feeBinding, inserted, FeeToken) \in Int
            /\ UnpaidSum(withdrawalIncluded, FeeToken) \in Int
            /\ FeesOwed(feeBinding) \in Int
        BY <1>6
      <4>6. eth \in Int /\ eth' = eth + (2 * fee + d) /\ fee \in Int /\ surplus \in Int
        BY <1>1, <1>2, <1>3, <2>1
      <4> QED
        BY ONLY <1>7, <2>1, <4>1, <4>2, <4>3, <4>4, <4>5, <4>6
    <3> QED
      BY <1>3, <1>11, <3>1, <3>2 DEF Balanced
  <2>6. TypeOK'
    BY <1>2, <1>3, <1>8, <1>11, <2>4 DEF TypeOK, LedgerInv, Bindings
  <2>7. RedeemedIn(C, inserted)
    BY <1>2, <1>5, <2>4 DEF RedeemedIn
  <2> QED
    BY <1>3, <1>11, <2>4, <2>5, <2>6, <2>7 DEF LedgerInv
<1> QED
  BY <1>9, <1>10, <1>11

LEMMA ProposeStep ==
  ASSUME LedgerInv, NEW blk \in Blocks, propose_block(blk)
  PROVE  LedgerInv'
<1> DEFINE C == RedeemedBy(blk)
           W == withdrawalIncluded \cup {blk[i].key : i \in Of(blk, "withdraw")}
           J == inserted \cup Deposited(blk)
           In(t) == UnitsOf(blk, Checked(blk), t)
           Out(t) == UnitsOf(blk, Of(blk, "withdraw"), t)
           New(t) == Added(blk, t)
<1>1. /\ feeBinding \in Bindings /\ withdrawalIncluded \in SUBSET WithdrawKey
      /\ held \in [Token -> Nat] /\ l2 \in [AnyToken -> Nat] /\ eth \in Nat
      /\ inserted \in SUBSET DepositKey /\ surplus \in Int
      /\ Tidy(feeBinding) /\ Balanced /\ RedeemedIn(feeBinding, inserted)
  BY DEF LedgerInv, TypeOK, Bindings
<1>2. /\ DepositsRedeemable(blk) /\ WithdrawsFresh(blk)
      /\ \A t \in AnyToken : Spent(blk, t) <= l2[t]
      /\ eth >= TotalFee(blk)
      /\ feeBinding' = C /\ withdrawalIncluded' = W /\ inserted' = J
      /\ l2' = [t \in AnyToken |-> l2[t] - Spent(blk, t) + New(t)]
      /\ eth' = eth - TotalFee(blk)
      /\ held' = held /\ known' = known /\ surplus' = surplus
  BY DEF propose_block, verify_rollup_proof, Covered
<1>3. /\ C \in Bindings /\ Tidy(C) /\ BoundFees(blk) \in Int
      /\ FeesOwed(C) = FeesOwed(feeBinding) - BoundFees(blk)
      /\ \A t : In(t) \in Nat /\ WaitingSum(C, t) = WaitingSum(feeBinding, t) - In(t)
  BY <1>1, <1>2, RedeemBooks
<1>4. \A t : /\ W \in SUBSET WithdrawKey /\ Out(t) \in Nat
             /\ UnpaidSum(W, t) = UnpaidSum(withdrawalIncluded, t) + Out(t)
  BY <1>1, <1>2, IncludeBooks
<1>5. /\ J \in SUBSET DepositKey /\ RedeemedIn(C, J)
      /\ \A t : /\ New(t) \in Nat
                /\ GapSum(C, J, t) + In(t) = GapSum(feeBinding, inserted, t) + New(t)
  BY <1>1, <1>2, GapBooks
<1>6. FeeSum(blk) \in Nat
  BY FeeSumNat
<1>7. /\ \A t : WaitingSum(feeBinding, t) \in Int
      /\ \A t : UnpaidSum(withdrawalIncluded, t) \in Int
      /\ \A t : GapSum(feeBinding, inserted, t) \in Int
      /\ FeesOwed(feeBinding) \in Int
  BY <1>1, BooksInt
<1>8. /\ \A t \in Token : Spent(blk, t) = Out(t) + 0
      /\ Spent(blk, FeeToken) = Out(FeeToken) + FeeSum(blk)
      /\ TotalFee(blk) = FeeSum(blk) + BoundFees(blk)
  BY NightfallAssumption DEF Spent, TotalFee
<1> HIDE DEF C, W, J, In, Out, New
<1>9. \A t : GapSum(C, J, t) \in Int
  BY <1>3, <1>5, <1>1, BooksInt
<1>10. Balanced'
  <2>1. ASSUME NEW t \in Token
        PROVE  held'[t] + GapSum(C, J, t) = WaitingSum(C, t) + l2'[t] + UnpaidSum(W, t)
    <3>1. /\ held[t] + GapSum(feeBinding, inserted, t) =
               WaitingSum(feeBinding, t) + l2[t] + UnpaidSum(withdrawalIncluded, t)
          /\ l2[t] \in Int /\ held[t] \in Int /\ l2'[t] = l2[t] - Out(t) + New(t)
      <4>1. t \in AnyToken
        BY DEF AnyToken
      <4>2. Spent(blk, t) = Out(t)
        BY <1>4, <1>8
      <4> QED
        BY <1>1, <1>2, <4>1, <4>2 DEF Balanced
    <3>2. /\ WaitingSum(C, t) = WaitingSum(feeBinding, t) - In(t)
          /\ UnpaidSum(W, t) = UnpaidSum(withdrawalIncluded, t) + Out(t)
          /\ GapSum(C, J, t) + In(t) = GapSum(feeBinding, inserted, t) + New(t)
          /\ In(t) \in Int /\ Out(t) \in Int /\ New(t) \in Int
      BY <1>3, <1>4, <1>5
    <3>3. /\ WaitingSum(feeBinding, t) \in Int /\ GapSum(feeBinding, inserted, t) \in Int
          /\ UnpaidSum(withdrawalIncluded, t) \in Int /\ GapSum(C, J, t) \in Int
          /\ held' = held
      BY <1>2, <1>7, <1>9
    <3> QED
      BY ONLY <3>1, <3>2, <3>3
  <2>2. eth' + GapSum(C, J, FeeToken) =
          l2'[FeeToken] + WaitingSum(C, FeeToken) + UnpaidSum(W, FeeToken) + FeesOwed(C) + surplus
    <3>1. /\ eth + GapSum(feeBinding, inserted, FeeToken) =
               l2[FeeToken] + WaitingSum(feeBinding, FeeToken)
               + UnpaidSum(withdrawalIncluded, FeeToken) + FeesOwed(feeBinding) + surplus
          /\ l2[FeeToken] \in Int
          /\ l2'[FeeToken] = l2[FeeToken] - (Out(FeeToken) + FeeSum(blk)) + New(FeeToken)
      BY <1>1, <1>2, <1>8 DEF Balanced, AnyToken
    <3>2. eth' = eth - (FeeSum(blk) + BoundFees(blk))
      BY <1>2, <1>8
    <3>3. /\ WaitingSum(C, FeeToken) = WaitingSum(feeBinding, FeeToken) - In(FeeToken)
          /\ UnpaidSum(W, FeeToken) = UnpaidSum(withdrawalIncluded, FeeToken) + Out(FeeToken)
          /\ GapSum(C, J, FeeToken) + In(FeeToken) =
               GapSum(feeBinding, inserted, FeeToken) + New(FeeToken)
          /\ In(FeeToken) \in Int /\ Out(FeeToken) \in Int /\ New(FeeToken) \in Int
      BY <1>3, <1>4, <1>5
    <3> QED
      BY <1>1, <1>3, <1>6, <1>7, <1>9, <3>1, <3>2, <3>3
  <2> QED
    BY <1>2, <2>1, <2>2 DEF Balanced
<1>11. TypeOK'
  <2>1. eth' \in Nat
    BY <1>1, <1>2, <1>3, <1>6, <1>8
  <2>2. l2' \in [AnyToken -> Nat]
    <3>1. ASSUME NEW t \in AnyToken PROVE l2[t] - Spent(blk, t) + New(t) \in Nat
      <4>1. l2[t] \in Nat /\ Spent(blk, t) <= l2[t] /\ New(t) \in Nat
        BY <1>1, <1>2, <1>5
      <4>2. Spent(blk, t) \in Int
        BY <1>4, <1>6, <1>8 DEF AnyToken
      <4> QED
        BY <4>1, <4>2
    <3> QED
      BY <1>2, <3>1
  <2>3. nullified' \subseteq Nullifiers
    BY EntryFields DEF propose_block, LedgerInv, TypeOK
  <2>4. layer2_block_number' \in Nat
    BY DEF propose_block, LedgerInv, TypeOK
  <2>5. W \in SUBSET WithdrawKey
    BY <1>4
  <2>6. known' \subseteq Token
    BY <1>2 DEF LedgerInv, TypeOK
  <2> QED
    BY <1>1, <1>2, <1>3, <1>5, <2>1, <2>2, <2>3, <2>4, <2>5, <2>6 DEF TypeOK, Bindings
<1> QED
  BY <1>2, <1>3, <1>5, <1>10, <1>11 DEF LedgerInv

LEMMA DescrowStep ==
  ASSUME LedgerInv, NEW k \in WithdrawKey, NEW token_type, descrow_funds(k, token_type)
  PROVE  LedgerInv'
<1>1. /\ feeBinding \in Bindings /\ withdrawalIncluded \in SUBSET WithdrawKey
      /\ held \in [Token -> Nat] /\ l2 \in [AnyToken -> Nat] /\ eth \in Nat
      /\ inserted \in SUBSET DepositKey /\ surplus \in Int
      /\ Balanced /\ Units(k) \in Nat
  BY WeightNat DEF LedgerInv, TypeOK, Bindings
<1>2. /\ \A t : WaitingSum(feeBinding, t) \in Int
      /\ \A t : UnpaidSum(withdrawalIncluded, t) \in Int
      /\ \A t : GapSum(feeBinding, inserted, t) \in Int
      /\ FeesOwed(feeBinding) \in Int
  BY <1>1, BooksInt
<1>3. CASE UNCHANGED vars
  BY <1>3 DEF LedgerInv, TypeOK, Balanced, vars
<1>4. CASE /\ k.token \in Token /\ eth >= k.value
           /\ eth' = eth - k.value /\ surplus' = surplus - k.value
           /\ UNCHANGED <<feeBinding, withdrawalIncluded, layer2_block_number, held, known,
                          l2, inserted, nullified>>
  <2>1. k.value \in Nat
    BY <1>4, WithdrawKeyFields, NightfallAssumption DEF ValuesOf, IsNFT
  <2>2. eth' \in Nat /\ surplus' \in Int
    BY <1>1, <1>4, <2>1
  <2>3. /\ l2[FeeToken] \in Int
        /\ eth + GapSum(feeBinding, inserted, FeeToken) =
             l2[FeeToken] + WaitingSum(feeBinding, FeeToken)
             + UnpaidSum(withdrawalIncluded, FeeToken) + FeesOwed(feeBinding) + surplus
    BY <1>1 DEF Balanced, AnyToken
  <2>4. eth' + GapSum(feeBinding, inserted, FeeToken) =
          l2[FeeToken] + WaitingSum(feeBinding, FeeToken)
          + UnpaidSum(withdrawalIncluded, FeeToken) + FeesOwed(feeBinding) + surplus'
    BY <1>1, <1>2, <1>4, <2>1, <2>3
  <2>5. Balanced'
    BY <1>1, <1>4, <2>4 DEF Balanced
  <2> QED
    BY <1>4, <2>2, <2>5 DEF LedgerInv, TypeOK
<1>5. CASE /\ k \in withdrawalIncluded /\ k.token \in Token /\ held[k.token] >= Units(k)
           /\ withdrawalIncluded' = withdrawalIncluded \ {k}
           /\ held' = [held EXCEPT ![k.token] = @ - Units(k)]
           /\ UNCHANGED <<feeBinding, layer2_block_number, eth, known, l2, inserted,
                          nullified, surplus>>
  <2> DEFINE W == withdrawalIncluded \ {k}
  <2>1. \A t : UnpaidSum(withdrawalIncluded, t) =
                 UnpaidSum(W, t) + (IF t = k.token THEN Units(k) ELSE 0)
    BY <1>1, <1>5, PayBooks
  <2>2. \A t : UnpaidSum(W, t) \in Int
    <3>1. W \in SUBSET WithdrawKey
      BY <1>1
    <3> HIDE DEF W
    <3> QED
      BY <1>1, <3>1, BooksInt
  <2> HIDE DEF W
  <2>3. ASSUME NEW t \in Token
        PROVE  held'[t] + GapSum(feeBinding, inserted, t) =
                 WaitingSum(feeBinding, t) + l2[t] + UnpaidSum(W, t)
    <3> DEFINE u == IF t = k.token THEN Units(k) ELSE 0
    <3>1. /\ u \in Int /\ held'[t] = held[t] - u
          /\ UnpaidSum(withdrawalIncluded, t) = UnpaidSum(W, t) + u
      BY <1>1, <1>5, <2>1
    <3>2. /\ held[t] + GapSum(feeBinding, inserted, t) =
               WaitingSum(feeBinding, t) + l2[t] + UnpaidSum(withdrawalIncluded, t)
          /\ l2[t] \in Int /\ held[t] \in Int
      BY <1>1 DEF Balanced, AnyToken
    <3>3. /\ WaitingSum(feeBinding, t) \in Int /\ GapSum(feeBinding, inserted, t) \in Int
          /\ UnpaidSum(W, t) \in Int
      BY <1>2, <2>2
    <3> QED
      BY ONLY <3>1, <3>2, <3>3
  <2>4. UnpaidSum(W, FeeToken) = UnpaidSum(withdrawalIncluded, FeeToken)
    <3>1. UnpaidSum(withdrawalIncluded, FeeToken) = UnpaidSum(W, FeeToken) + 0
      BY <1>5, <2>1, NightfallAssumption
    <3> QED
      BY <2>2, <3>1
  <2>5. Balanced'
    BY <1>1, <1>5, <2>3, <2>4 DEF Balanced, W
  <2>6. held' \in [Token -> Nat]
    BY <1>1, <1>5
  <2> QED
    BY <1>5, <2>5, <2>6 DEF LedgerInv, TypeOK
<1>6. known \subseteq Token
  BY DEF LedgerInv, TypeOK
<1> QED
  BY <1>3, <1>4, <1>5, <1>6 DEF descrow_funds, Withdrawable, Transfers

LEMMA NextLedger == LedgerInv /\ [Next]_vars => LedgerInv'
<1> SUFFICES ASSUME LedgerInv, [Next]_vars PROVE LedgerInv'
  OBVIOUS
<1>1. CASE UNCHANGED vars
  BY <1>1 DEF LedgerInv, TypeOK, Balanced, vars
<1> QED
  BY <1>1, EscrowStep, ProposeStep, DescrowStep DEF Next

LEMMA LedgerCorrect == Spec => []LedgerInv
  BY InitLedger, NextLedger, PTL DEF Spec

\* No sequence of deposits, blocks and withdrawals takes the contract's ether,
\* its holding of a token or the L2 value of one below zero.
THEOREM NightfallTypeCorrect == Spec => []TypeOK
<1>1. LedgerInv => TypeOK
  BY DEF LedgerInv
<1> QED
  BY <1>1, LedgerCorrect, PTL

\* Whatever callers pay and however blocks are filled, the contract holds the
\* tokens it owes but for the deposits inserted behind padding and not redeemed.
THEOREM TokensCorrect == Spec => []TokensBacked
<1>1. LedgerInv => TokensBacked
  BY BalancedMeans DEF LedgerInv
<1> QED
  BY <1>1, LedgerCorrect, PTL

\* The same for the ether it owes to depositors, to withdrawers and, for the
\* deposits no block has taken, to the proposer: only deposits behind padding,
\* fees that were not paid and withdraws of unknown tokens unbalance it.
THEOREM EtherCorrect == Spec => []EtherBacked
<1>1. LedgerInv => EtherBacked
  BY BalancedMeans DEF LedgerInv
<1> QED
  BY <1>1, LedgerCorrect, PTL

-----------------------------------------------------------------------------
(* What the contract can pay. *)

\* The fees of a block that passes the other checks, and the tokens of an
\* included withdraw.
Payable ==
  /\ \A blk \in Blocks :
       verify_rollup_proof(blk) /\ DepositsRedeemable(blk) => eth >= TotalFee(blk)
  /\ \A k \in withdrawalIncluded : k.token \in Token => held[k.token] >= Units(k)

\* No fee has been underpaid, on balance, and no deposit behind padding is open.
Solid == surplus >= 0 /\ \A t \in AnyToken : Unbacked(t) = 0

LEMMA LedgerPays == LedgerInv /\ Solid => Payable
<1> SUFFICES ASSUME LedgerInv, Solid PROVE Payable
  OBVIOUS
<1>1. /\ feeBinding \in Bindings /\ withdrawalIncluded \in SUBSET WithdrawKey
      /\ held \in [Token -> Nat] /\ l2 \in [AnyToken -> Nat] /\ eth \in Nat
      /\ inserted \in SUBSET DepositKey /\ surplus \in Int /\ surplus >= 0
      /\ Tidy(feeBinding) /\ Balanced
  BY DEF LedgerInv, TypeOK, Bindings, Solid
<1>0. \A t \in AnyToken : GapSum(feeBinding, inserted, t) = 0
  BY DEF Solid, Unbacked, GapSum, Gap
<1>2. ASSUME NEW blk \in Blocks, verify_rollup_proof(blk), DepositsRedeemable(blk)
      PROVE  eth >= TotalFee(blk)
  <2> DEFINE C == RedeemedBy(blk)
             out == UnitsOf(blk, Of(blk, "withdraw"), FeeToken)
  <2>1. /\ C \in Bindings /\ BoundFees(blk) \in Int
        /\ FeesOwed(C) = FeesOwed(feeBinding) - BoundFees(blk)
    BY <1>1, <1>2, RedeemBooks
  <2> HIDE DEF C
  <2>2. FeesOwed(C) >= 0 /\ FeesOwed(feeBinding) \in Int
    <3>1. IsFiniteSet(Unredeemed(C)) /\ \A k \in Unredeemed(C) : FeeOf(C)[k] \in Nat
      <4>1. \A k \in Unredeemed(C) : FeeOf(C)[k] \in Nat
        BY <2>1 DEF FeeOf, Unredeemed, Bindings
      <4> QED
        BY <1>1, <2>1, <4>1, BooksInt
    <3>2. FeesOwed(C) \in Nat
      BY <3>1, SumNat DEF FeesOwed
    <3> QED
      BY <1>1, <3>2, BooksInt
  <2>3. out \in Nat
    <3> DEFINE J == {i \in Of(blk, "withdraw") : blk[i].key.token = FeeToken}
               g == [i \in Of(blk, "withdraw") |-> Units(blk[i].key)]
    <3>1. \A i \in J : g[i] \in Nat
      BY EntryFields, WeightNat
    <3>2. IsFiniteSet(J)
      BY EntryFields, FS_Subset DEF Of
    <3>3. out = SumFunctionOnSet(g, J)
      BY DEF UnitsOf
    <3> HIDE DEF J, g, out
    <3> QED
      BY <3>1, <3>2, <3>3, SumNat
  <2>4. FeeSum(blk) \in Nat
    BY FeeSumNat
  <2>5. out + FeeSum(blk) <= l2[FeeToken] /\ l2[FeeToken] \in Nat
    BY <1>1, <1>2 DEF verify_rollup_proof, Covered, Spent, AnyToken
  <2>6. eth = l2[FeeToken] + WaitingSum(feeBinding, FeeToken)
              + UnpaidSum(withdrawalIncluded, FeeToken) + FeesOwed(feeBinding) + surplus
    <3>1. FeeToken \in AnyToken /\ GapSum(feeBinding, inserted, FeeToken) = 0
      BY <1>0 DEF AnyToken
    <3> QED
      BY <1>1, <3>1 DEF Balanced
  <2>7. WaitingSum(feeBinding, FeeToken) \in Nat /\ UnpaidSum(withdrawalIncluded, FeeToken) \in Nat
    BY <1>1, BooksInt
  <2>8. TotalFee(blk) = FeeSum(blk) + BoundFees(blk)
    BY DEF TotalFee
  <2> HIDE DEF out
  <2> QED
    BY <1>1, <2>1, <2>2, <2>3, <2>4, <2>5, <2>6, <2>7, <2>8
<1>3. ASSUME NEW k \in withdrawalIncluded, k.token \in Token
      PROVE  held[k.token] >= Units(k)
  <2> DEFINE t == k.token
             W == withdrawalIncluded \ {k}
  <2>1. UnpaidSum(withdrawalIncluded, t) = UnpaidSum(W, t) + Units(k)
    BY <1>1, PayBooks
  <2>2. WaitingSum(feeBinding, t) \in Nat /\ UnpaidSum(W, t) \in Nat
    <3>1. W \in SUBSET WithdrawKey
      BY <1>1
    <3> HIDE DEF W, t
    <3> QED
      BY <1>1, <3>1, BooksInt
  <2>3. /\ held[t] = WaitingSum(feeBinding, t) + l2[t] + UnpaidSum(withdrawalIncluded, t)
        /\ l2[t] \in Nat
    <3>1. t \in AnyToken /\ GapSum(feeBinding, inserted, t) = 0
      BY <1>0, <1>3 DEF AnyToken
    <3> QED
      BY <1>1, <1>3, <3>1 DEF Balanced
  <2>4. Units(k) \in Nat
    BY <1>1, WeightNat
  <2> HIDE DEF W, t
  <2>5. held[t] >= Units(k)
    BY <2>1, <2>2, <2>3, <2>4
  <2> QED
    BY <2>5 DEF t
<1> QED
  BY <1>2, <1>3 DEF Payable

\* As long as no fee has been underpaid and no deposit came in behind padding,
\* propose_block never fails for want of ether to pay the proposer, and an
\* included withdraw never for want of tokens, whatever else was done before.
THEOREM PayableCorrect == Spec => [](Solid => Payable)
  BY LedgerPays, LedgerCorrect, PTL

-----------------------------------------------------------------------------
(* The contract as this repository uses it: the client pays what it binds, *)
(* and the proposer leaves no empty slot in front of a deposit.            *)

\* What is held is what is owed.
Exact ==
  /\ \A t \in Token : held[t] = AwaitingBlock(t) + l2[t] + AwaitingPayment(t)
  /\ eth = l2[FeeToken] + AwaitingBlock(FeeToken) + AwaitingPayment(FeeToken)
           + SumFunctionOnSet([k \in DepositKey |-> feeBinding[k].fee],
                              {k \in DepositKey : feeBinding[k].redeemed = 0})

RepositoryInv ==
  /\ LedgerInv
  /\ surplus = 0
  /\ \A k \in inserted : feeBinding[k].redeemed = 1
  /\ \A t \in Token \ known : held[t] = 0

LEMMA RepositoryMeans ==
  ASSUME RepositoryInv
  PROVE  /\ \A t : Gap(feeBinding, inserted, t) = {} /\ GapSum(feeBinding, inserted, t) = 0
         /\ Solid /\ Exact
<1>1. \A t : Gap(feeBinding, inserted, t) = {}
  BY DEF RepositoryInv, Gap
<1>2. \A t : GapSum(feeBinding, inserted, t) = 0
  BY <1>1, SumEmpty DEF GapSum
<1>3. \A t : Unbacked(t) = 0
  BY <1>2 DEF Unbacked, GapSum, Gap
<1>4. Solid
  BY <1>3 DEF RepositoryInv, Solid
<1>5. /\ feeBinding \in Bindings /\ withdrawalIncluded \in SUBSET WithdrawKey
      /\ held \in [Token -> Nat] /\ l2 \in [AnyToken -> Nat] /\ eth \in Nat
      /\ TokensBacked /\ EtherBacked
  BY BalancedMeans DEF RepositoryInv, LedgerInv, TypeOK, Bindings
<1>6. /\ \A t : AwaitingBlock(t) \in Int /\ AwaitingPayment(t) \in Int
      /\ FeesOwed(feeBinding) \in Int
  <2>1. \A t : AwaitingBlock(t) = WaitingSum(feeBinding, t)
               /\ AwaitingPayment(t) = UnpaidSum(withdrawalIncluded, t)
    BY DEF AwaitingBlock, AwaitingPayment, WaitingSum, Waiting, UnpaidSum, Unpaid
  <2>2. inserted \in SUBSET DepositKey
    BY DEF RepositoryInv, LedgerInv, TypeOK
  <2> QED
    BY <1>5, <2>1, <2>2, BooksInt
<1>7. ASSUME NEW t \in Token PROVE held[t] = AwaitingBlock(t) + l2[t] + AwaitingPayment(t)
  <2>1. held[t] + Unbacked(t) = AwaitingBlock(t) + l2[t] + AwaitingPayment(t)
        /\ held[t] \in Int
    BY <1>5 DEF TokensBacked
  <2> QED
    BY <1>3, <2>1
<1>8. eth = l2[FeeToken] + AwaitingBlock(FeeToken) + AwaitingPayment(FeeToken)
            + FeesOwed(feeBinding)
  <2>1. eth + Unbacked(FeeToken) =
          l2[FeeToken] + AwaitingBlock(FeeToken) + AwaitingPayment(FeeToken)
          + FeesOwed(feeBinding) + surplus
    BY <1>5 DEF EtherBacked, FeesOwed, FeeOf, Unredeemed
  <2>2. l2[FeeToken] \in Int /\ surplus = 0 /\ Unbacked(FeeToken) = 0
    BY <1>3, <1>5 DEF RepositoryInv, AnyToken
  <2> QED
    BY <1>5, <1>6, <2>1, <2>2
<1>9. Exact
  BY <1>7, <1>8 DEF Exact, FeesOwed, FeeOf, Unredeemed
<1> QED
  BY <1>1, <1>2, <1>4, <1>9

LEMMA RepositoryEscrow ==
  ASSUME RepositoryInv, NEW k \in DepositKey, NEW fee \in Fees,
         NEW depositFee \in DepositFees \cup {0},
         escrow_funds(k, fee, MsgValue(fee, depositFee))
  PROVE  /\ surplus' = 0
         /\ \A x \in inserted' : feeBinding'[x].redeemed = 1
         /\ \A t \in Token \ known' : held'[t] = 0
<1> DEFINE paid == MsgValue(fee, depositFee)
           feeKey == [token |-> FeeToken, value |-> DepositFeeOf(fee, paid), secret |-> k.secret]
<1>1. /\ feeBinding \in Bindings /\ inserted \in SUBSET DepositKey /\ Tidy(feeBinding)
      /\ held \in [Token -> Nat] /\ surplus = 0
      /\ \A x \in inserted : feeBinding[x].redeemed = 1
      /\ \A t \in Token \ known : held[t] = 0
  BY DEF RepositoryInv, LedgerInv, TypeOK, Bindings
<1>2. fee \in Nat /\ depositFee \in Nat
  BY NightfallAssumption DEF DepositFees
<1>3. /\ feeBinding[k].escrowed = 0 /\ inserted' = inserted
      /\ held' = [held EXCEPT ![k.token] = @ + Units(k)] /\ known' = known \cup {k.token}
  BY DEF escrow_funds, Free
<1>4. surplus' = 0
  <2>1. CASE depositFee = 0
    <3>1. paid = fee /\ ~ (paid > 2 * fee)
      BY <1>2, <2>1 DEF MsgValue
    <3>2. surplus' = surplus + paid - fee
      BY <3>1 DEF escrow_funds
    <3> QED
      BY <1>1, <1>2, <3>1, <3>2
  <2>2. CASE depositFee # 0
    <3>1. paid > 2 * fee /\ ~ (paid <= 2 * fee)
      BY <1>2, <2>2 DEF MsgValue
    <3> QED
      BY <1>1, <3>1 DEF escrow_funds
  <2> QED
    BY <2>1, <2>2
<1>5. ASSUME NEW x \in inserted PROVE feeBinding'[x] = feeBinding[x]
  <2>1. x \in DepositKey /\ feeBinding[x].escrowed # 0
    BY <1>1 DEF Tidy
  <2>2. \/ feeBinding' = Bind(feeBinding, k, fee)
        \/ feeBinding[feeKey].escrowed = 0
           /\ feeBinding' = Bind(Bind(feeBinding, k, fee), feeKey, fee)
    BY DEF escrow_funds, Free
  <2> HIDE DEF feeKey, paid
  <2> QED
    BY <1>1, <1>3, <2>1, <2>2 DEF Bind, Bindings
<1>6. ASSUME NEW t \in Token \ known' PROVE held'[t] = 0
  BY <1>1, <1>3
<1> QED
  BY <1>1, <1>3, <1>4, <1>5, <1>6

LEMMA RepositoryPropose ==
  ASSUME RepositoryInv, NEW blk \in Blocks, Assembled(blk), propose_block(blk)
  PROVE  /\ surplus' = 0
         /\ \A x \in inserted' : feeBinding'[x].redeemed = 1
         /\ \A t \in Token \ known' : held'[t] = 0
<1>1. /\ feeBinding \in Bindings /\ inserted \in SUBSET DepositKey /\ surplus = 0
      /\ \A x \in inserted : feeBinding[x].redeemed = 1
      /\ \A t \in Token \ known : held[t] = 0
  BY DEF RepositoryInv, LedgerInv, TypeOK, Bindings
<1>2. /\ feeBinding' = RedeemedBy(blk) /\ inserted' = inserted \cup Deposited(blk)
      /\ held' = held /\ known' = known /\ surplus' = surplus
  BY DEF propose_block
<1>3. ASSUME NEW x \in inserted' PROVE feeBinding'[x].redeemed = 1
  <2>1. x \in DepositKey
    BY <1>1, <1>2, EntryFields DEF Deposited
  <2>2. x \in Deposited(blk) => \E i \in Checked(blk) : blk[i].key = x
    BY DEF Deposited, Assembled
  <2>3. feeBinding'[x] = IF \E i \in Checked(blk) : blk[i].key = x
                         THEN [feeBinding[x] EXCEPT !.redeemed = 1] ELSE feeBinding[x]
    BY <1>2, <2>1 DEF RedeemedBy
  <2>4. feeBinding[x] \in [fee : Nat, escrowed : {0, 1}, redeemed : {0, 1}]
    BY <1>1, <2>1 DEF Bindings
  <2> QED
    BY <1>1, <1>2, <2>2, <2>3, <2>4
<1> QED
  BY <1>1, <1>2, <1>3

LEMMA RepositoryDescrow ==
  ASSUME RepositoryInv, NEW k \in WithdrawKey, NEW token_type, descrow_funds(k, token_type)
  PROVE  /\ surplus' = 0
         /\ \A x \in inserted' : feeBinding'[x].redeemed = 1
         /\ \A t \in Token \ known' : held'[t] = 0
<1>1. /\ withdrawalIncluded \in SUBSET WithdrawKey /\ held \in [Token -> Nat]
      /\ l2 \in [AnyToken -> Nat] /\ feeBinding \in Bindings /\ known \subseteq Token
      /\ inserted \in SUBSET DepositKey /\ surplus = 0
      /\ \A x \in inserted : feeBinding[x].redeemed = 1
      /\ \A t \in Token \ known : held[t] = 0
  BY DEF RepositoryInv, LedgerInv, TypeOK, Bindings
<1>2. k \in withdrawalIncluded
  BY DEF descrow_funds, Withdrawable
<1>3. k.token \in Token => k.token \in known
  <2> SUFFICES ASSUME k.token \in Token, k.token \notin known PROVE FALSE
    OBVIOUS
  <2> DEFINE t == k.token
             W == withdrawalIncluded \ {k}
  <2>1. held[t] = 0 /\ GapSum(feeBinding, inserted, t) = 0 /\ l2[t] \in Nat
    BY <1>1, RepositoryMeans DEF AnyToken
  <2>2. held[t] + GapSum(feeBinding, inserted, t) =
          WaitingSum(feeBinding, t) + l2[t] + UnpaidSum(withdrawalIncluded, t)
    BY DEF RepositoryInv, LedgerInv, Balanced
  <2>3. UnpaidSum(withdrawalIncluded, t) = UnpaidSum(W, t) + Units(k)
    BY <1>1, <1>2, PayBooks
  <2>4. WaitingSum(feeBinding, t) \in Nat /\ UnpaidSum(W, t) \in Nat
    <3>1. W \in SUBSET WithdrawKey
      BY <1>1
    <3> HIDE DEF W, t
    <3> QED
      BY <1>1, <3>1, BooksInt
  <2>5. Units(k) \in Nat /\ Units(k) > 0
    BY WithdrawKeyFields, NightfallAssumption DEF Units, ValuesOf, IsNFT
  <2> HIDE DEF W, t
  <2> QED
    BY <2>1, <2>2, <2>3, <2>4, <2>5
<1>4. \/ UNCHANGED vars
      \/ /\ k.token \in known
         /\ held' = [held EXCEPT ![k.token] = @ - Units(k)]
         /\ UNCHANGED <<feeBinding, known, inserted, surplus>>
  BY <1>3 DEF descrow_funds, Transfers
<1> QED
  BY <1>1, <1>4 DEF vars

LEMMA RepositoryNextInv == RepositoryInv /\ [RepositoryNext]_vars => RepositoryInv'
<1> SUFFICES ASSUME RepositoryInv, [RepositoryNext]_vars PROVE RepositoryInv'
  OBVIOUS
<1>1. CASE UNCHANGED vars
  BY <1>1 DEF RepositoryInv, LedgerInv, TypeOK, Balanced, vars
<1>2. ASSUME NEW k \in DepositKey, NEW fee \in Fees, NEW depositFee \in DepositFees \cup {0},
             MsgValue(fee, depositFee) \in Payments,
             escrow_funds(k, fee, MsgValue(fee, depositFee))
      PROVE  RepositoryInv'
  BY <1>2, EscrowStep, RepositoryEscrow DEF RepositoryInv
<1>3. ASSUME NEW blk \in Blocks, Assembled(blk), propose_block(blk)
      PROVE  RepositoryInv'
  BY <1>3, ProposeStep, RepositoryPropose DEF RepositoryInv
<1>4. ASSUME NEW k \in WithdrawKey, NEW token_type \in TokenTypes, descrow_funds(k, token_type)
      PROVE  RepositoryInv'
  BY <1>4, DescrowStep, RepositoryDescrow DEF RepositoryInv
<1> QED
  BY <1>1, <1>2, <1>3, <1>4 DEF RepositoryNext

\* When callers pay what the client pays and proposers fill deposit
\* transactions as this one does, the contract holds exactly what it owes, in
\* every token and in ether, and no block and no withdraw fails for lack of it.
THEOREM ExactCorrect == RepositorySpec => [](Exact /\ Payable)
<1>1. Init => RepositoryInv
  BY InitLedger DEF RepositoryInv, Init
<1>2. RepositoryInv => Exact /\ Payable
  BY RepositoryMeans, LedgerPays DEF RepositoryInv
<1> QED
  BY <1>1, <1>2, RepositoryNextInv, PTL DEF RepositorySpec

-----------------------------------------------------------------------------
(* What a step may not do. *)

LEMMA BindingStep ==
  ASSUME LedgerInv, [Next]_vars, NEW k \in DepositKey, feeBinding[k].escrowed = 1
  PROVE  /\ feeBinding'[k].escrowed = 1 /\ feeBinding'[k].fee = feeBinding[k].fee
         /\ feeBinding'[k].redeemed >= feeBinding[k].redeemed
<1>1. feeBinding \in Bindings /\ feeBinding[k].redeemed \in {0, 1}
  BY DEF LedgerInv, TypeOK, Bindings
<1>2. ASSUME NEW x \in DepositKey, NEW fee \in Fees, NEW paid, escrow_funds(x, fee, paid)
      PROVE  feeBinding'[k] = feeBinding[k]
  BY <1>1, <1>2 DEF escrow_funds, Free, Bind, Bindings
<1>3. ASSUME NEW blk \in Blocks, propose_block(blk)
      PROVE  /\ feeBinding'[k].escrowed = 1 /\ feeBinding'[k].fee = feeBinding[k].fee
             /\ feeBinding'[k].redeemed >= feeBinding[k].redeemed
  <2>1. \/ feeBinding'[k] = [feeBinding[k] EXCEPT !.redeemed = 1]
        \/ feeBinding'[k] = feeBinding[k]
    BY <1>3 DEF propose_block, RedeemedBy
  <2> QED
    BY <1>1, <2>1 DEF Bindings
<1>4. ASSUME NEW x, NEW token_type, descrow_funds(x, token_type)
      PROVE  feeBinding' = feeBinding
  BY <1>4 DEF descrow_funds, vars
<1>5. UNCHANGED vars => feeBinding' = feeBinding
  BY DEF vars
<1>6. feeBinding'[k] = feeBinding[k] =>
        /\ feeBinding'[k].escrowed = 1 /\ feeBinding'[k].fee = feeBinding[k].fee
        /\ feeBinding'[k].redeemed >= feeBinding[k].redeemed
  BY <1>1
<1> QED
  BY <1>2, <1>3, <1>4, <1>5, <1>6 DEF Next

\* Once escrowed, a deposit keeps its fee and its escrow, and is not taken
\* back once redeemed.
THEOREM BindingCorrect == Spec => BindingIsFinal
<1>1. LedgerInv /\ [Next]_vars =>
        [\A k \in DepositKey :
           feeBinding[k].escrowed = 1 =>
             /\ feeBinding'[k].escrowed = 1 /\ feeBinding'[k].fee = feeBinding[k].fee
             /\ feeBinding'[k].redeemed >= feeBinding[k].redeemed]_vars
  BY BindingStep
<1> QED
  BY <1>1, LedgerCorrect, PTL DEF Spec, BindingIsFinal

=============================================================================
