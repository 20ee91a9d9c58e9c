SPECIFICATION FairSpec
CONSTANTS
  TopLen = 3
  IterAt = 2
  BodyLen = 3
  BranchAt = 2
  ArmLen = 2
  MaxIters = 2
  Plans <- SomePlans
  None = None
  MaxSessions = 3
INVARIANTS
  StateMatchesCursor
PROPERTIES
  
  HaltStartsNothing
  SessionEnds
CHECK_DEADLOCK FALSE
