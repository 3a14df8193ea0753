CONSTANTS
  Ops = {"read", "readdir", "create"}
  Params <- MCParams
  Regexps <- MCRegexps
  RexOf <- MCRexOf
  Language <- MCLanguage
  ScriptPatterns <- MCScriptPatterns
  Patterns <- MCRoutes
  Paths = {}
  Globs <- MCGlobs
  GlobRegexp <- MCGlobRegexp
  Starred <- MCStarred
  Names <- MCNames
  MaxRoutes = 3
  MaxDepth = 2
SPECIFICATION SpecTree
CHECK_DEADLOCK FALSE
INVARIANTS WalkedIsServed RoutedNameByName ServedByItsNode ServedItsParams NextNameIsFound FindNodeAgrees
