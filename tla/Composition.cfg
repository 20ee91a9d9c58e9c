SPECIFICATION Spec
CONSTANTS
  Flows = {f1, f2, f3}
  FlowName <- Anonymous
  Verbs = {v}
  Labels = {}
  Keys = {cost}
  KeyName <- OneName
  Values = {t}
  Childless = {}
  Halts = {h}
  Signals = {s}
  Stores = {store}
  Savers = {x}
  None = None
  StepHooks = {"rescue"}
  MapHooks = {"guard"}
  MaxSteps = 3
  MaxWires = 3
  Combined <- OnePart
  MaxItems = 2
  MaxDepth = 2
SYMMETRY Swaps
INVARIANTS NoLateErrors RunsInherit HashTellsIds
CHECK_DEADLOCK FALSE
