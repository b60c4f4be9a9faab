SPECIFICATION Spec
CONSTANTS
  Clients = {c1}
  Claims <- ShortClaims
  Proxies <- TwoProxies
  TrustedProxyHops = 2
  NoPeer = NoPeer
  UnknownClient = UnknownClient
  Stores = {w1}
  Requests = {r1, r2, r3}
  Global = global
  Limited = {login}
  Open = {me}
  Nobody = Nobody
  Nowhere = Nowhere
  GlobalAmount = 2
  GlobalWindow = 2
  RouteAmount = 1
  RouteWindow = 4
  GlobalStrategy = "fixed"
  RouteStrategy = "fixed"
  Second = 2
  MaxTime = 5
CHECK_DEADLOCK FALSE
PROPERTIES
  RetryAfterHonoured
