-------------------------- MODULE MCPrivateLedger --------------------------
(***************************************************************************)
(* Two clients; the first starts with any few coins, two amounts of the    *)
(* fee token and an ERC721 token, whose amount is zero.                    *)
(***************************************************************************)
EXTENDS PrivateLedger

CONSTANTS Amounts, MaxCoins, alice, bob

Coin == <<"token", "coin">>
Nft == <<"token", "nft">>
MCSlotOf == [t \in {Coin, Nft, fee_token_id} |-> IF t = Coin THEN <<"slot", "coin">> ELSE t]

Had(token, value) == [token |-> token, value |-> value]

\* Coins in increasing order: their order does not matter.
Coins ==
  UNION {{s \in [1 .. n -> Amounts] : \A i \in 1 .. n - 1 : s[i] <= s[i + 1]} :
           n \in 0 .. MaxCoins}
MCEndowments ==
  {<<Had(Nft, 0), Had(fee_token_id, 1), Had(fee_token_id, 2)>>
     \o [i \in DOMAIN s |-> Had(Coin, s[i])] : s \in Coins}

Request(kind, token, value, fee, client, to) ==
  [kind |-> kind, token |-> token, value |-> value, fee |-> fee, client |-> client, to |-> to]

\* Amounts around the sums of two coins, the largest amount and past it; an
\* amount of zero; the token alone; transfers to oneself and onwards.
MCRequests ==
  {Request("transfer", Coin, v, f, alice, bob) : v \in {3, MaxAmount + 1}, f \in {0, 3}}
    \cup {Request("withdraw", Coin, v, 1, alice, alice) : v \in {2, MaxAmount}}
    \cup {Request("transfer", fee_token_id, 0, 0, alice, to) : to \in {alice, bob}}
    \cup {Request("transfer", Nft, 0, 2, alice, bob), Request("withdraw", Nft, 0, 0, bob, bob),
          Request("transfer", Coin, 2, 0, bob, alice)}

MCDeposits ==
  {[client |-> bob, token |-> Coin, value |-> 2, fee |-> 0, deposit_fee |-> f] : f \in {0, 2}}

ASSUME DepositsInRange

=============================================================================
