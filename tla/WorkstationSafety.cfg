SPECIFICATION WorkstationSpec
CONSTANTS
  Attempt = {1, 2}
  BreakPlan = {1}
  MaxRevision = 1
  MaxStep = 1
  QueueSize = 1
  ReplaySize = 2
  MaxEventID = 6
  Handler = {h1, h2}
  Plan = {1, 2}
  PlanCapacity = 1
  MaxCommit = 1
  Budgets <- MCBudgets
  Revision <- Commit
  NoRevision = none
  MaxInvocations = 2
CHECK_DEADLOCK FALSE
INVARIANTS
  WorkstationTypeOK RecordedFirst RecordsTell PageCurrent NoneTwice
  OneRunPerPlan ReviewedIsDispatched NothingRunsOn StagesTell
PROPERTY OnInspected
