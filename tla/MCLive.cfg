CONSTANTS
  ROWS = 2
  BEATS_PER_ROW = 1
  BIAS_BEATS = 1
  DRAM_BEATS = 16
  CSR <- SmallCSR
  WINDOW_SIZE = 4
  INSTR_DEPTH = 11
  Programs <- ShortWords
  MAX_RUNS = 1
SPECIFICATION FairSpec
PROPERTIES
  RunCompletes
