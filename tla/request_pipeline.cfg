SPECIFICATION FairSpec
CONSTANTS
  r1 = r1
  r2 = r2
  Requests = {r1, r2}
  Offered <- AnythingBesideAProbe
  PoolSize = 1
  Handlers = {h1, h2}
  Uncallable = {"register"}
CHECK_DEADLOCK FALSE
INVARIANTS
  TypeOK
  AnswerMatchesDatabase
  FaultsStayLocal
  NoHandlerOutlivesItsRequest
  ProbeTellsTheTruth
  AnswersAreTraceable
  RefusalsAreDocumented
PROPERTIES
  RecoveryIsLasting
  EveryRequestEnds
