CONSTANTS
  Files <- MCFiles
  LeadingByte = TRUE
  MaxRecords = 3
SPECIFICATION FairSpec
CHECK_DEADLOCK FALSE
INVARIANTS StoredIsSent AckedIsServed ReceivedIsRead NothingLeft
PROPERTY SessionEnds
