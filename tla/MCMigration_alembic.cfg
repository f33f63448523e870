SPECIFICATION FairSpec
CONSTANTS
  o1 = o1
  o2 = o2
  r1 = r1
  r2 = r2
  i1 = i1
  i2 = i2
  p1 = p1
  Junk = Junk
  NULL = NULL
  Operators = {o1, o2}
  Requests = {r1, r2}
  Ids = {i1, i2}
  Passwords = {p1}
  MaxAborts = 1
INVARIANTS
  TypeOK
  RevisionMatchesSchema
  FailuresExplained
  PasswordsAreOwners
PROPERTIES
  AlembicEnds
