CONSTANTS
  ROWS = 2
  BEATS_PER_ROW = 2
  BIAS_BEATS = 2
  DRAM_BEATS = 28
  CSR <- SmallCSR
  WINDOW_SIZE = 4
  INSTR_DEPTH = 32
  Programs <- TilePrograms
  MAX_RUNS = 1
  POLLS = TRUE
SPECIFICATION HostedSpec
INVARIANTS
  IdleWhenNotBusy
CHECK_DEADLOCK FALSE
