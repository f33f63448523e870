SPECIFICATION Spec
CONSTANTS
  shouted = shouted
  plain = plain
  i1 = i1
  i2 = i2
  p1 = p1
  p2 = p2
  long = long
  r1 = r1
  r2 = r2
  None = None
  Ids = {i1, i2}
  Addresses <- Spellings
  Canonical <- LowerDomain
  SeedEmail = plain
  Passwords = {p1, p2, long}
  TooLong = {long}
  Requests = {r1, r2}
  MaxErrors = 1
  MaxSpoilt = 1
SYMMETRY Symmetry
INVARIANTS
  OneAccountPerAddress
  ConflictWasReal
  FailuresLookAlike
  TokenOpensItsAccount
  SeedIsWhole
