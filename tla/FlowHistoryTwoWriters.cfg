SPECIFICATION Spec
CONSTANTS
  Writers = {w1, w2}
  GcWriters = {}
  Trees = {t1}
  EmptyTree = empty
  Names = {}
  Faults = FALSE
  Pruning = FALSE
  None = None
  MaxCommits = 3
  MaxRuns = 3
INVARIANTS
  RunsAreContiguous
  NothingAbsorbed
PROPERTIES
  HeadMovesForward
CHECK_DEADLOCK FALSE
