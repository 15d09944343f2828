\* three connections of a user and two calls
SPECIFICATION Spec
CONSTANTS
  Connection = {c1, c2, c3}
  Call = {k1, k2}
  MaxSubscribes = 4
CHECK_DEADLOCK FALSE
INVARIANTS
  TypeOK
  NewestListens
