SPECIFICATION Spec
CONSTANTS
  MaxVersion = 2
  Limits <- MCPinned
CHECK_DEADLOCK FALSE
INVARIANT ApprovedOnly
