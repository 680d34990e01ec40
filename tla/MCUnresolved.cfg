CONSTANTS
  Name <- Names
  ALIGNMENT = 2
  MAX_COMPILES = 1
SPECIFICATION UnresolvedSpec
INVARIANTS
  UnresolvedFails
CHECK_DEADLOCK FALSE
