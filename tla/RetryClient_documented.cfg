SPECIFICATION Spec
CONSTANTS
  Limit = 3
  Window = 12
  TicksPerSecond = 2
INVARIANTS
  RetryAfterIsEnough
