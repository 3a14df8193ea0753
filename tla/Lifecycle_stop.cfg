CONSTANTS
  MaxCalls = 2
SPECIFICATION Spec
CHECK_DEADLOCK FALSE
INVARIANT NoneAcceptedAfterStop
