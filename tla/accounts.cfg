SPECIFICATION Spec
CONSTANTS
  Addresses = {ann, bob}
  Spellings = {upper, lower}
  NoEmail = NoEmail
  Existing = {a1}
  Requests = {r1, r2, r3}
  RespondBeforeCommit = FALSE
  Faults = TRUE
SYMMETRY Symmetry
CHECK_DEADLOCK FALSE
INVARIANTS
  TypeOK
  OnePerSpelling
  LateDuplicateRefused
  StoredIsAnnounced
PROPERTIES
  OnlyStaffChangeAccounts
