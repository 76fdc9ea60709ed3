SPECIFICATION Spec
CONSTANTS
  MaxLifetimes = 2
  MaxEdits = 1
  MaxFaults = 1
  MaxBackupFailures = 1
  MaxScheduled = 1
  MayReject = TRUE
  StaleReads = FALSE
  EditsWhileDeleting = FALSE
INVARIANTS FinalBackupCleanedUp ReadyMeansBackedUp
CHECK_DEADLOCK FALSE
PROPERTY KeepsOwnContract
