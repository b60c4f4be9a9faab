SPECIFICATION Spec
CONSTANTS
  Accounts = {1, 2, 3, 4}
  Founders = {2, 3}
  Staff = {2}
  PageSize = 2
  Callers = {c1}
  Browsers = {b1, b2}
  Edited = {2, 3}
SYMMETRY Sessions
CHECK_DEADLOCK FALSE
INVARIANTS
  TypeOK
  OnlyTheEntitled
  WalkMissesLittle
  WalkRepeatsLittle
  OwnRecordIsFound
PROPERTIES
  EditorsHaveRights
