CONSTANTS
  Name <- Names
  ALIGNMENT = 2
  MAX_COMPILES = 1
SPECIFICATION RunSpec
INVARIANTS
  InputsIntact
  OutputsComplete
PROPERTIES
  ImplementsOnnx
  RunEnds
CHECK_DEADLOCK FALSE
