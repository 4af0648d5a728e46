SPECIFICATION Spec
CONSTANTS
  a1 = a1
  a2 = a2
  a3 = a3
  u1 = u1
  u2 = u2
  u3 = u3
  Addr <- ThreeAddr
  Urls <- ThreeUrls
  NoAddr = NoAddr
  NoUrl = NoUrl
  STAKE = 3
  LAZY_PENALTY = 2
  EXIT_PENALTY = 1
  COOLDOWN_BLOCKS = 1
  ROTATION_BLOCKS = 0
  FINALIZATION_BLOCKS = 1
  MaxBlock = 3
  MaxL2 = 1
  MaxBalance = 9
  Amounts = {3}
INVARIANT CurrentIsRegistered
CHECK_DEADLOCK FALSE
