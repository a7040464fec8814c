SPECIFICATION Spec
CONSTANTS
  Char <- MCChar
  Slash = "/"
  Prefixes <- MCPrefixes
  Paths <- MCPaths
  MaxRuns = 3
INVARIANTS
  RerunsChangeNothing
  KeyKept
  SiblingsUntouched
CHECK_DEADLOCK FALSE
