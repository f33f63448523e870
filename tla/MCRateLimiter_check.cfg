SPECIFICATION Spec
CONSTANTS
  e1 = e1
  e2 = e2
  Executions = {e1, e2}
  Limit = 2
  Window = 2
  Counting = "admissions"
  Timeout = 1
  ExpirySlack = 1
  MaxAttempts = 1
  MaxTime = 8
  MaxOpenings = 0
  MaxLosses = 1
SYMMETRY Symmetry
INVARIANTS
  TypeOK
  ChargesBounded
  RefusalJustified
  LockoutBounded
  TwoWindowsBounded
PROPERTIES
  ExpiryIsHousekeeping
