SPECIFICATION Spec
CONSTANTS
  a1 = a1
  a2 = a2
  e1 = e1
  Injected = {a1}
  External = {e1}
  Processes = {}
  RelaysTo <- Downwards
  PoolSize = 1
  Patient = FALSE
  MaxLives = 2
  MaxRequests = 1
  MaxKills = 1
INVARIANTS
  ChannelsOfRunners
  RegistryIsTrue
CHECK_DEADLOCK FALSE
