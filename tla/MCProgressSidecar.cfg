SPECIFICATION Spec
CONSTANTS
  Jobs <- MCGuardedJobs
INVARIANTS
  EndsCompleted
  SidecarSound
PROPERTIES
  NeverMissing
  KeepsPromise
  CommandReturns
CHECK_DEADLOCK FALSE
