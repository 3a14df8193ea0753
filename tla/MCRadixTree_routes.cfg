CONSTANTS
  read = read
  write = write
  Ops = {read, write}
  Params <- MCParams
  Regexps <- MCRegexps
  RexOf <- MCRexOf
  Language <- MCLanguage
  Patterns <- MCPatterns
  Paths <- MCPaths
  MaxRoutes = 3
SPECIFICATION Spec
SYMMETRY OpsAlike
CHECK_DEADLOCK FALSE
INVARIANTS ListsEveryRoute FoundFits FindsARoute LiteralFirst OrderIrrelevant
