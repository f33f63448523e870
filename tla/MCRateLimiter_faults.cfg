SPECIFICATION Spec
CONSTANTS
  e1 = e1
  e2 = e2
  Executions = {e1, e2}
  Limit = 2
  Window = 2
  Counting = "failures"
  Timeout = 1
  ExpirySlack = 2
  MaxAttempts = 2
  MaxTime = 4
  MaxOpenings = 1
  MaxLosses = 1
SYMMETRY Symmetry
INVARIANTS
  OvershootBounded
  ChargesBounded
  IInv
