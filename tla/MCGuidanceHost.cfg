SPECIFICATION Spec
CONSTANTS
  N = 2
  Rounds = 2
  MaxSignals = 1
  LargeRequests <- MCScore
INVARIANTS
  RoundIsComplete
  DiagnosticsAreCurrent
PROPERTIES AnswersMatchRequests OnlyWritesBlock
CHECK_DEADLOCK FALSE
