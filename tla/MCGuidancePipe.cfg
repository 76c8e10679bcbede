SPECIFICATION Spec
CONSTANTS
  N = 1
  Rounds = 1
  MaxSignals = 1
  LargeRequests <- MCScore
PROPERTIES HostFinishes
CHECK_DEADLOCK FALSE
