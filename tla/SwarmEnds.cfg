SPECIFICATION FairSpec
CONSTANTS
  a1 = a1
  a2 = a2
  e1 = e1
  Injected = {a1, a2}
  External = {}
  Processes = {}
  RelaysTo <- Downwards
  PoolSize = 1
  Patient = TRUE
  MaxLives = 1
  MaxRequests = 2
  MaxKills = 0
PROPERTIES
  RelaysEnd
  ShutdownEnds
CHECK_DEADLOCK FALSE
