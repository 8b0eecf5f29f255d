SPECIFICATION BothSpec
CONSTANTS
  Orders = {o1, o2}
  Customers = {c1, c2}
  Requests = {r1, r2}
  Workers = {w1}
  NoThread = none
  Duration = 2
  MaxTime = 1
  MaxEdits = 1
  MaxFaults = 1
  a = a  b = b  h = h  ca = ca  cb = cb  ch = ch
  Owned = {a, b}
  Hosted = {h}
  Commands = {ca, cb, ch}
  TenantOf <- MCTenantOf
  Staff = {s}
  MaxPort = 2
  Leaks = {"drop", "role"}
  MaxFailures = 1
  MaxOps = 2
INVARIANTS TypeOK ExtendedOnce ResetOnce CompletedIsExtended DeploymentTypeOK SiteReachesOwnTenant
SYMMETRY Symmetry
CHECK_DEADLOCK FALSE
