CONSTANTS
  h1 = h1
  h2 = h2
  Handles <- MCHandles
  FileLength = 3
  Window = 2
  MaxAnswers = 6
  Entries <- MCEntries
  MaxEntries = 5
  PageSize = 2
SPECIFICATION SpecSftp
SYMMETRY Symm
CHECK_DEADLOCK FALSE
INVARIANTS WholeFileServed ReadsLastAnswer ListedOnce
