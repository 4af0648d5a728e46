SPECIFICATION Spec
CONSTANTS
  d = d
  t = t
  w = w
  i1 = i1
  i2 = i2
  Requests = {t, w}
  Req <- SmallRequests
  Incoming = {i1, i2}
  Sent <- SmallSent
  MaxQueue = 1
  MaxAttempts = 1
  MaxBlocks = 3
  MaxListeners = 2
  MaxFaults = 0
  MaxCrashes = 1
INVARIANTS
  TypeOK
  SpendableIsUnspentOnChain
  ProcessedBlocksAreCredited
  NoDoubleSelection
CHECK_DEADLOCK FALSE
