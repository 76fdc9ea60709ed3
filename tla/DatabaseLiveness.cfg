SPECIFICATION FairSpec
CONSTANTS
  MaxLifetimes = 1
  MaxEdits = 2
  MaxFaults = 1
  MaxBackupFailures = 1
  MaxScheduled = 0
  MayReject = FALSE
  StaleReads = TRUE
  EditsWhileDeleting = TRUE
CHECK_DEADLOCK FALSE
PROPERTIES HangsOnlyWithoutBackup Converges
