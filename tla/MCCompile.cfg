CONSTANTS
  Name <- Names
  ALIGNMENT = 2
  MAX_COMPILES = 2
SPECIFICATION CompileSpec
INVARIANTS
  SortAgrees
  DeadCodeExact
  FailuresExplained
  SizesTrue
PROPERTIES
  CompilerReturns
  ProgramRepeats
CHECK_DEADLOCK FALSE
