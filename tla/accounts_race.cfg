SPECIFICATION SpecWithoutStaff
CONSTANTS
  Addresses = {ann}
  Spellings = {upper, lower}
  NoEmail = NoEmail
  Existing = {}
  Requests = {r1, r2}
  RespondBeforeCommit = FALSE
  Faults = FALSE
CHECK_DEADLOCK FALSE
INVARIANTS
  OneAccountPerAddress
