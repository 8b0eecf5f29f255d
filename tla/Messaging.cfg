SPECIFICATION MCSpec
CONSTANTS
  p = p  q = q
  Recipients = {"x", "y"}
  Processors = {p, q}
  Bot = "bot"
  Staff = "staff"
  BatchSize = 2
  MaxTransient = 1
  MaxRetries = 1
  MaxPasses = 3
  MaxBroadcastFaults = 1
  Events = {"e", "f"}
  CustomerOf <- MCCustomerOf
  Runners = {p, q}
  Owners = {p, q}
  WeeklyCap = 3
  DailyLimit = 2
  MaxReservations = 2
  MaxOwnerRetries = 2
  MaxChanges = 1
  Notifiers = {p, q}
  MaxClaims = 4
  Triggers = {"before", "low"}
  LowTraffic = {"low"}
  Runs = {p, q}
  MaxPerDay = 1
  MaxDays = 2
  MaxAttempts = 2
  MaxOverlaps = 1
  MaxReminderFaults = 1
  Stages = {1, 3, 6}
  Hour = 12
  MaxMinutes = 20
  MaxLost = 2
  Collectors = {p, q}
  Lease = 2
  MaxGap = 3
  Window = 4
  MaxTime = 5
  MaxUsed = 2
  MaxResets = 1
INVARIANTS TypeOK ResentOnlyUnrecorded OneMessagePerEvent OneMessageADay AdminsToldOnce
  RemindedOnce NoReminderBurst InactiveIsTrue
PROPERTY SamplesInOrder
CHECK_DEADLOCK FALSE
SYMMETRY Symmetry
