SPECIFICATION Spec
CONSTANTS
  Writers = {w1, w2}
  GcWriters = {w2}
  Trees = {t1}
  EmptyTree = empty
  Names = {n1}
  Faults = TRUE
  Pruning = TRUE
  None = None
  MaxCommits = 2
  MaxRuns = 2
INVARIANTS
  RefsReadable
  
CHECK_DEADLOCK FALSE
