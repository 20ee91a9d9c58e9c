SPECIFICATION FairSpec
CONSTANTS
  Len = 2
  MaxCalls = 2
  Modes <- SomeModes
  MaxWork = 2
  MaxSessions = 3
INVARIANTS
  TurnsContinue
  HeldUnderTheStep
  CapsHold
PROPERTIES
  OnlyWholeResultsPass
  HaltEnds
CHECK_DEADLOCK FALSE
