SPECIFICATION Spec
CONSTANTS
  Users = {u1}
  NoUser = NoUser
  Sessions = {s1}
  Requests = {r1, r2}
  NoToken = NoToken
  TTL = 2
  MaxTime = 1
  RespondBeforeCommit = FALSE
  EvaluateRaises = FALSE
  Serialised = FALSE
  Faults = FALSE
CHECK_DEADLOCK FALSE
INVARIANTS
  SingleUse
