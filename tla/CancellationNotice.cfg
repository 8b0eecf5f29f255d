SPECIFICATION FairSpec
CONSTANTS
  Requests = {r1}
  Workers = {w1}
  Targets = {x1, x2}
  Backoff = 2
  RequestLength = 3
  TickLength = 3
  MaxFaults = 1
  MaxSlow = 1
INVARIANT MessagesBounded
PROPERTIES SuccessIsFinal NoticeSettles
