\* requests about one role and its two hosts, two of them at a time
SPECIFICATION Spec
CONSTANTS
  r1 = r1  h1 = h1  h2 = h2  q1 = q1  q2 = q2
  Role = {r1}
  Host = {h1, h2}
  RoleOf <- MCRoleOf
  Request = {q1, q2}
  MaxInFlight = 2
  Window = 1
  MaxText = 2
  MaxClock = 1
CHECK_DEADLOCK FALSE
SYMMETRY Symmetry
INVARIANTS
  TypeOK
  HostAfterRole
  SerialPublishing
  EmbeddedWasPublished
