SPECIFICATION RecordsSpec
CONSTANTS
  root = root
  left = left
  right = right
  Scopes = {root, left, right}
  Root = root
  Path <- Items
  Budget <- Budgets
  RootBudgets = {2}
  Amendments = {1}
  Costs <- Refunds
  MaxCharges = 2
  MaxSessions = 3
  MaxDepth = 2
  Models <- ShortNames
  Publishers <- Google
  Default = Default
  Cards <- SomeCards
  Rules <- SomeRules
  Boundaries <- Marks
  WriteMult = 125
  ReadMult = 10
  MaxTokens = 2
  NoRule = NoRule
  Values <- Nested
  Strings <- Names
  Keys <- Fields
  Classes = {"Point", "Inner"}
  Pydantic = {"Note"}
  Local = {"Inner"}
  Nesting = 3
  MaxSaves = 2
INVARIANTS
  RuleIsOwn
  
  ValuesSurvive
  SpendIsSum
  LatchAgrees
PROPERTIES
  TotalsContinue
CHECK_DEADLOCK FALSE
