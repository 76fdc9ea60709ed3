SPECIFICATION Spec
CONSTANTS
  MaxLifetimes = 2
  MaxEdits = 1
  MaxFaults = 1
  MaxBackupFailures = 1
  MaxScheduled = 0
  MayReject = FALSE
  StaleReads = TRUE
  EditsWhileDeleting = TRUE
INVARIANTS TypeOK RemovalJustified FinalizerProtects
PROPERTIES LiveDataPlaneKept KeepsContract
CHECK_DEADLOCK FALSE
