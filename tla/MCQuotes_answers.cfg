SPECIFICATION FairSpec
CONSTANTS
  u1 = u1
  k1 = k1
  k2 = k2
  n1 = n1
  n2 = n2
  r1 = r1
  r2 = r2
  None = None
  Users = {u1}
  Kids = {k1, k2}
  Notes = {n1, n2}
  Requests = {r1, r2}
  MaxErrors = 0
INVARIANTS
  ListSkewBounded
PROPERTIES
  AllAnswered
