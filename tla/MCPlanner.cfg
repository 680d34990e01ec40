CONSTANTS
  Name = {1, 2, 3, 4, 5}
  ALIGNMENT = 2
SPECIFICATION MCSpec
INVARIANTS
  LiveDisjoint
  RegionTiled
CHECK_DEADLOCK FALSE
