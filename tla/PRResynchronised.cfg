SPECIFICATION Spec
CONSTANTS
  d1 = d1
  t1 = t1
  w1 = w1
  n1 = n1
  n2 = n2
  Deposits = {d1}
  Txs = {t1}
  NullifierOf <- OwnNullifiers
  Bare = {}
  BLOCK_SIZE = 2
  GROUP = 4
  MaxAttempts = 2
  MaxSends = 1
  MaxFaults = 0
INVARIANTS
  ResynchronisedHasTheChain
