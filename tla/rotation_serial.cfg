SPECIFICATION Spec
CONSTANTS
  Users = {u1}
  NoUser = NoUser
  Sessions = {s1}
  Requests = {r1, r2, r3}
  NoToken = NoToken
  TTL = 1
  MaxTime = 2
  RespondBeforeCommit = FALSE
  EvaluateRaises = FALSE
  Serialised = TRUE
  Faults = TRUE
CHECK_DEADLOCK FALSE
SYMMETRY RequestSymmetry
INVARIANTS
  SingleUse
PROPERTIES
  ImplementsContract
