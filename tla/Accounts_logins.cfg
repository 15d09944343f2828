\* two first logins of one account that race, renewals that race, removal, restart
SPECIFICATION Spec
CONSTANTS
  None = None
  Users = {u1}
  Actors = {a1, a2}
  Logins = {l1, l2}
  Requests = {r1, r2}
  Millis = {m1, m2}
  CacheTTL = 1
  RefreshIn = 1
  MaxTime = 4
  MaxBusy = 2
CHECK_DEADLOCK FALSE
SYMMETRY Symmetry
INVARIANTS
  TypeOK
  OneAccount
PROPERTIES
  StaleForOneTTL
  SavedTokenIsAdmitted
