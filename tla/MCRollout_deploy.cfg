SPECIFICATION FairSpec
CONSTANTS
  s1 = s1
  Slots = {s1}
  NoSlot = NoSlot
  Concurrency = 1
  MaxOutages = 1
  MaxRotations = 1
  MaxCommits = 3
  Attempts = 2
INVARIANTS
  FailureWasReal
  OneConnectionEach
  SmokeTestAfterUpdate
PROPERTIES
  NewestWins
  RunsEnd
