CONSTANTS
  p1 = p1
  p2 = p2
  n1 = n1
  NoProc = NoProc
  Procs <- MCProcs
  Nodes <- MCNodes
  Lengths = {0, 1}
  Ops = {"read", "write", "attr", "setattr"}
  MaxVer = 2
SPECIFICATION FairSpec
INVARIANTS TypeOK FreshReads ErrorWithoutContent
PROPERTIES FillsOnlyEmpty ImplementsMountedFile EveryRequestReturns
