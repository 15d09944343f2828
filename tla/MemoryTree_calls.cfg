\* three saves and a removal, all of them at a time
SPECIFICATION Spec
CONSTANTS
  a = a
  b = b
  a2 = a2
  x = x
  Root = Root
  NoId = NoId
  NoRow = NoRow
  Nobody = Nobody
  Saves = {s1, s2, s3}
  Removals = {r1}
  Slots = {a, b, a2}
  ClientIds = {x}
  SaveRequests <- MCSaveRequests
  RemoveRequests <- MCRemoveRequests
SYMMETRY Symmetric
CHECK_DEADLOCK FALSE
INVARIANTS
  TypeOK
  EmbeddingMatchesContent
PROPERTIES
  SaveIsImported
