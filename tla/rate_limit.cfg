SPECIFICATION Spec
CONSTANTS
  Clients = {c1, c2}
  Claims <- ShortClaims
  Proxies <- TwoProxies
  TrustedProxyHops = 2
  NoPeer = NoPeer
  UnknownClient = UnknownClient
  Stores = {w1}
  Requests = {r1, r2, r3, r4}
  Global = global
  Limited = {login}
  Open = {me}
  Nobody = Nobody
  Nowhere = Nowhere
  GlobalAmount = 2
  GlobalWindow = 2
  RouteAmount = 1
  RouteWindow = 1
  GlobalStrategy = "fixed"
  RouteStrategy = "moving"
  Second = 1
  MaxTime = 2
SYMMETRY Symmetry
CHECK_DEADLOCK FALSE
INVARIANTS
  TypeOK
  BurstBound
  RefusedForCause
  OneBucketPerCaller
PROPERTIES
  RemainingHonoured
  RetryAfterNearlyHonoured
