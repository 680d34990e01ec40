CONSTANT
  MAX_RUNS = 2
SPECIFICATION MCSpec
INVARIANTS
  FaultLocalised
  PassMeansSound
  NoFalseAlarm
PROPERTIES
  VerdictReached
CHECK_DEADLOCK FALSE
