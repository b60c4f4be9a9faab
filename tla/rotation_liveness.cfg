SPECIFICATION FairSpec
CONSTANTS
  Users = {u1}
  NoUser = NoUser
  Sessions = {s1, s2}
  Requests = {r1, r2}
  NoToken = NoToken
  TTL = 1
  MaxTime = 2
  RespondBeforeCommit = FALSE
  EvaluateRaises = FALSE
  Serialised = FALSE
  Faults = TRUE
CHECK_DEADLOCK FALSE
PROPERTIES
  EveryRequestEnds
