CONSTANTS
  Files <- MCFiles
  LeadingByte = FALSE
  MaxRecords = 0
SPECIFICATION FairSpec
CHECK_DEADLOCK FALSE
INVARIANT DocumentedClientIsServed
