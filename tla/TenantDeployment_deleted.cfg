SPECIFICATION MCSpec
CONSTANTS
  a = a  b = b  h = h  ca = ca  cb = cb  ch = ch
  Owned = {a, b}
  Hosted = {h}
  Commands = {ca, cb, ch}
  TenantOf <- MCTenantOf
  Staff = {s}
  MaxPort = 3
  Leaks = {}
  MaxFailures = 0
  MaxOps = 1
INVARIANTS NoCollisionAlone
CHECK_DEADLOCK FALSE
