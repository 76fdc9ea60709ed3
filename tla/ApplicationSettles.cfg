SPECIFICATION FairSpec
CONSTANTS
  MaxVersion = 2
  Limits <- MCSettling
CHECK_DEADLOCK FALSE
INVARIANT FullOnlyWithCanaryRoute
PROPERTY Settles
