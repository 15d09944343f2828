\* calls that overlap or not, across two renewals
SPECIFICATION Spec
CONSTANTS
  r1 = r1  r2 = r2  r3 = r3
  Request = {r1, r2, r3}
  Costs = {0, 1, 2}
  Allowance = 2
  MaxClock = 2
  MaxInFlight = 3
CHECK_DEADLOCK FALSE
SYMMETRY Symmetry
INVARIANTS
  TypeOK
  NeverOvercharged
  Accounted
