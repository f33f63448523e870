SPECIFICATION Spec
CONSTANTS
  q1 = q1
  q2 = q2
  q3 = q3
  q4 = q4
  Ids = {q1, q2, q3, q4}
  Ranks = {1, 2, 3, 4}
  Limit = 1
SYMMETRY Symmetry
INVARIANTS
  TypeOK
  RepeatsBounded
  MissesBounded
