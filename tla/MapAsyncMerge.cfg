SPECIFICATION Spec
CONSTANTS
  Items = {i1, i2}
  Modes <- AsyncMergeMode
  None = None
  MaxSessions = 2
INVARIANTS
  MergedOnce
CHECK_DEADLOCK FALSE
