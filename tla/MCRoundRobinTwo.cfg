SPECIFICATION Spec
CONSTANTS
  a1 = a1
  a2 = a2
  a3 = a3
  u1 = u1
  u2 = u2
  u3 = u3
  Addr <- TwoAddr
  Urls <- TwoUrls
  NoAddr = NoAddr
  NoUrl = NoUrl
  STAKE = 4
  LAZY_PENALTY = 3
  EXIT_PENALTY = 1
  COOLDOWN_BLOCKS = 1
  ROTATION_BLOCKS = 1
  FINALIZATION_BLOCKS = 1
  MaxBlock = 5
  MaxL2 = 1
  MaxBalance = 12
  Amounts = {1, 4}
SYMMETRY Symmetry
INVARIANTS
  RingInv
PROPERTIES
  TakesTurns
CHECK_DEADLOCK FALSE
