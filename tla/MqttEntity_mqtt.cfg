SPECIFICATION Spec
CONSTANTS
  Requests = {r1}
  MaxOps = 2
  MaxFaults = 2
  MaxRuns = 2
  MaxQueued = 2
CHECK_DEADLOCK FALSE
INVARIANTS
  TypeOK
  RequestRunsOnce
  AvailableIsHeard
PROPERTIES
  EndsUnavailable
  BecomesAvailable
  StaleProgressEnds
