CONSTANTS
  ROWS = 2
  BEATS_PER_ROW = 1
  BIAS_BEATS = 2
  BIAS_EPB = 1
  DRAM_BEATS = 16
  CSR <- MCCsr
  SILU_LUT <- MCSilu
  Sizes <- SmallSizes
  DataSets <- MCData
  MAX_GENERATIONS = 2
SPECIFICATION Spec
INVARIANTS
  CellsExact
  NeverRejected
  FilesRun
  AddressesCover
PROPERTIES
  ProductDelivered
CHECK_DEADLOCK FALSE
