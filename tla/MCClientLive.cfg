SPECIFICATION FairSpec
CONSTANTS
  d = d
  t = t
  w = w
  i1 = i1
  i2 = i2
  Requests = {d}
  Req <- SmallRequests
  Incoming = {i1}
  Sent <- SmallSent
  MaxQueue = 1
  MaxAttempts = 1
  MaxBlocks = 2
  MaxListeners = 2
  MaxFaults = 1
  MaxCrashes = 1
INVARIANT TreeFollowsTheChain
PROPERTIES
  CatchesUp
  RequestsAreTaken
CHECK_DEADLOCK FALSE
