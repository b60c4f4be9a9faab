SPECIFICATION Spec
CONSTANTS
  r1 = r1
  r2 = r2
  Requests = {r2}
  Offered <- AnythingBesideAProbe
  PoolSize = 1
  Handlers = {h1}
  Uncallable = {}
CHECK_DEADLOCK FALSE
INVARIANT
  UnavailableIsSaid
