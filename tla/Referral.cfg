SPECIFICATION MCSpec
CONSTANTS
  Friends = {b, c}
  Milestone = 2
  MaxOrders = 3
  MaxFaults = 1
INVARIANTS TypeOK LedgerNeedsCheckedPayment RewardAppliedOnce MilestonesExact
SYMMETRY Symmetry
CHECK_DEADLOCK FALSE
