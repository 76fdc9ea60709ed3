SPECIFICATION Spec
CONSTANTS
  MaxVersion = 1
  Limits <- MCReverting
CHECK_DEADLOCK FALSE
INVARIANT TrafficServed
