SPECIFICATION FairSpec
CONSTANTS
  d1 = d1
  t1 = t1
  w1 = w1
  n1 = n1
  n2 = n2
  Deposits = {d1}
  Txs = {t1, w1}
  NullifierOf <- OwnNullifiers
  Bare = {w1}
  BLOCK_SIZE = 2
  GROUP = 4
  MaxAttempts = 2
  MaxSends = 1
  MaxFaults = 1
INVARIANTS
  TypeOK
  RestartIsNeverSynchronised
  RootsFollowTheChain
  OwnBlocksAreDisjoint
  FaultFreeStateIsTheChain
PROPERTIES
  CatchesUp
