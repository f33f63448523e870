SPECIFICATION Spec
CONSTANTS
  u1 = u1
  u2 = u2
  k1 = k1
  k2 = k2
  n1 = n1
  r1 = r1
  r2 = r2
  None = None
  Users = {u1, u2}
  Kids = {k1, k2}
  Notes = {n1}
  Requests = {r1, r2}
  MaxErrors = 1
SYMMETRY Symmetry
INVARIANTS
  TypeOK
  NoOrphans
  CreatedIsStored
  DeletedIsGone
  OwnRowsOnly
PROPERTIES
  ImplementsJar
