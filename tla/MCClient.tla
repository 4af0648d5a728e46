------------------------------ MODULE MCClient ------------------------------
(* A small client for TLC: the values of its constants.                    *)
EXTENDS Client

CONSTANTS d, t, w, i1, i2

Request(kind, value, fee, deposit_fee) ==
  [kind |-> kind, value |-> value, fee |-> fee, deposit_fee |-> deposit_fee]

SmallRequests ==
  [r \in Requests |-> CASE r = d -> Request("deposit", 2, 1, 1)
                        [] r = t -> Request("transfer", 1, 1, 0)
                        [] r = w -> Request("withdraw", 1, 0, 0)]

SmallSent ==
  [i \in Incoming |-> IF i = i1 THEN [token |-> "token", value |-> 2]
                      ELSE [token |-> "fee", value |-> 1]]

=============================================================================
