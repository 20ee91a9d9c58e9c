SPECIFICATION HostSpec
CONSTANTS
  Kits <- SomeKits
  Kinds = {"memory", "http"}
  MaxObjects = 4
  MaxSpare = 1
  MaxClients = 3
  MaxLoops = 2
  MaxRequests = 1
  TraitLists <- SomeTraitLists
  ToolLists <- SomeToolLists
  MaxAgents = 2
  Names = {"a", "b", "c"}
INVARIANTS
  HooksMatchRegistry
  EachOwned
  OwnTools
  HeldIffRunning
PROPERTIES
  RequestsAnswered
CHECK_DEADLOCK FALSE
