SPECIFICATION Spec
CONSTANTS
  t1 = t1
  t2 = t2
  f = f
  Token <- TwoTokens
  FeeToken = f
  TypeOf <- FungibleAndNFT
  Amounts = {2}
  Secrets = {1}
  Nullifiers = {1, 2}
  Fees = {0, 1}
  Payments = {0, 1, 2, 3}
  MaxTxs = 2
  MaxBlocks = 2
INVARIANTS
  TypeOK
  TokensBacked
  EtherBacked
PROPERTIES
  BindingIsFinal
CHECK_DEADLOCK FALSE
