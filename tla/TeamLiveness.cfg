SPECIFICATION FairSpec
CONSTANTS
  Applications = {a}
  Databases = {d}
  MaxLifetimes = 1
  MaxEdits = 1
  MaxFaults = 1
  MaxClaims = 0
  MaxTenants = 1
  Holds = {"plain", "backup"}
  StaleReads = FALSE
PROPERTIES Settles DeletionEnds
CHECK_DEADLOCK FALSE
