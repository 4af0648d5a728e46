SPECIFICATION Spec
CONSTANTS
  a1 = a1
  a2 = a2
  root = root
  inter = inter
  user = user
  rogue = rogue
  serverAuth = serverAuth
  Failed = Failed
  keyUsage = keyUsage
  extKeyUsage = extKeyUsage
  certificatePolicies = certificatePolicies
  subjectKeyIdentifier = subjectKeyIdentifier
  authorityKeyIdentifier = authorityKeyIdentifier
  NoAddr = NoAddr
  NoKid = NoKid
  NoKey = NoKey
  Addr = {a1, a2}
  Owner = a2
  Clients = {a1}
  Kid = {root, inter, user, rogue}
  Keys = {root, inter, user, rogue}
  Certs <- SmallCerts
  HolderOf <- SmallHolders
  Anchors <- RootOnly
  Masks <- SmallMasks
  OidSets <- SmallOids
  MaxGroups = 1
  SECONDS_PER_DAY = 2
  Start = 39563
  MaxTime = 39564
INVARIANTS
  TypeOK
  BindingIsOneToOne
  TrustIsRooted
  EnrolledHoldsTheKey
  ReadersFindTheFields
  ExpiryIsTheCalendarDay
PROPERTIES
  EnrolmentLasts
CHECK_DEADLOCK FALSE
