CONSTANTS
  ROWS = 2
  BEATS_PER_ROW = 1
  BIAS_BEATS = 1
  DRAM_BEATS = 16
  CSR <- SmallCSR
  WINDOW_SIZE = 4
  INSTR_DEPTH = 10
  Programs <- ResetPrograms
  MAX_RUNS = 1
  MAX_RESETS = 1
SPECIFICATION SpecR
INVARIANTS
  FreshScoreboard
