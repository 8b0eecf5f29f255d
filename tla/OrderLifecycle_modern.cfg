SPECIFICATION Spec
CONSTANTS
  Requests = {r1, r2}
  Workers = {w1}
  NoThread = none
  Quantity = 2
  Modern = TRUE
  MaxFaults = 1
INVARIANTS TypeOK RevokedStayOff CancellationComplete SingleAutomaticAttempt
PROPERTIES ClosedEnablesNothing CompletionDelivers KeepsPromise
SYMMETRY Symmetry
ACTION_CONSTRAINT TwoAtATime
