SPECIFICATION FairSpec
CONSTANTS
  r1 = r1
  r2 = r2
  u1 = u1
  x1 = x1
  e1 = e1
  d1 = d1
  d2 = d2
  Slot = {r1, r2}
  User <- MCUser
  Relayer <- MCRelayer
  RelayerLimits <- MCRelayerLimits
  GlobalLimits = NoLimits
  UserLimits <- MCUserLimits
  NoLimits = NoLimits
  NoUsage = NoUsage
  MaxClock = 3
  Wanted <- MCWanted
  ExternalId = {e1}
  NoExternalId = NoExternalId
  Digest = {d1, d2}
  NoKey = NoKey
  FallbackToRelayer = FALSE
  Nobody = Nobody
INVARIANTS
  TypeOK
  SameRequestSameTransaction
  OvershootBounded
  LedgerKept
  PaidWhenServed
  NoncesAccounted
PROPERTIES
  EveryRequestSettles
CHECK_DEADLOCK FALSE
