SPECIFICATION FairSpec
CONSTANTS
  Items = {i1, i2}
  Modes <- SoundModes
  None = None
  MaxSessions = 3
INVARIANTS
  MergedOnce
  CheckpointsSound
PROPERTIES
  NeverRunsAgain
  SessionEnds
CHECK_DEADLOCK FALSE
