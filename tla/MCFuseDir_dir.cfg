CONSTANTS
  p1 = p1
  p2 = p2
  n1 = n1
  NoProc = NoProc
  Procs <- MCProcs
  Nodes <- MCNodes
  Names = {"child", "pattern", "virtual"}
  InTree = {"child"}
  Children = {"child", "pattern"}
SPECIFICATION FairSpec
CHECK_DEADLOCK FALSE
INVARIANTS LookupsAgree AnswersAreFounded ListedIsFound
PROPERTY EveryLookupReturns
