SPECIFICATION Spec
CONSTANTS
  shouted = shouted
  plain = plain
  i1 = i1
  i2 = i2
  p1 = p1
  r1 = r1
  None = None
  Ids = {i1, i2}
  Addresses <- Spellings
  Canonical <- LowerDomain
  SeedEmail = plain
  Passwords = {p1}
  TooLong = {}
  Requests = {r1}
  MaxErrors = 0
  MaxSpoilt = 0
SYMMETRY Symmetry
INVARIANTS
  OnlyExpiryRevokes
