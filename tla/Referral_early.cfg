SPECIFICATION MCSpec
CONSTANTS
  Friends = {b, c}
  Milestone = 2
  MaxOrders = 3
  MaxFaults = 1
INVARIANT RewardsWithheld
SYMMETRY Symmetry
CHECK_DEADLOCK FALSE
