SPECIFICATION Spec
CONSTANTS
  Orders = {o1}
  Customers = {c1}
  Requests = {r1}
  Workers = {w1}
  NoThread = none
  Duration = 2
  MaxTime = 0
  MaxEdits = 0
  MaxFaults = 1
SYMMETRY Symmetry
CHECK_DEADLOCK FALSE
INVARIANT NoBlindRenewal
