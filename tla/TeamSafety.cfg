SPECIFICATION Spec
CONSTANTS
  Applications = {a}
  Databases = {d}
  MaxLifetimes = 2
  MaxEdits = 0
  MaxFaults = 0
  MaxClaims = 1
  MaxTenants = 2
  Holds = {"plain", "backup"}
  StaleReads = FALSE
INVARIANT TypeOK
PROPERTIES NamespaceGoesLast ApplicationsGoFirst OthersUntouched NoOrphan
CHECK_DEADLOCK FALSE
