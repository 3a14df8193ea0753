CONSTANTS
  MaxCalls = 2
SPECIFICATION FairSpec
CHECK_DEADLOCK FALSE
INVARIANTS NoFuseCallOnClosedBackend NoMountLeft
PROPERTY ShutdownCompletes
