SPECIFICATION Spec
CONSTANTS
  Team = Team
  Service = Service
  Web = Web
  Api = Api
  Store = Store
  NoDatabase = NoDatabase
  Applications <- MCApplications
  Components <- MCComponents
  Databases <- MCDatabases
  ServiceDatabase = Store
  InitialCatalogs <- Catalogs
  MaxRequests = 3
  MaxInFlight = 2
  RebaseMerges = TRUE
INVARIANTS TypeOK CascadeArmed
PROPERTIES PrunedTwiceApproved FinalizedIsPrunable
CHECK_DEADLOCK FALSE
