SPECIFICATION Spec
CONSTANTS
  p1 = p1
  p2 = p2
  Proposers = {p1, p2}
  TreeHeight = 3
  SubTreeHeight = 1
  HistoricHeight = 2
  Contents <- Blocks
  BlockSize = 64
  MaxChain = 2
  MaxQueue = 2
  MaxSpoils = 1
SYMMETRY Symmetry
INVARIANTS
  ReplicasHoldTheChain
  ProofsVerify
  NonMembershipIsExact
CHECK_DEADLOCK FALSE
