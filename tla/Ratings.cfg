SPECIFICATION LearnSpec
CONSTANTS
  p1 = p1
  p2 = p2
  MaxFacts = 3
  KnownFacts = 2
  Passes = {p1, p2}
  PassKinds <- KindsOfTwo
  Stars = {1, 4}
  Limits <- NoLimit
  BatchSize = 2
  Providers = 1
  MaxEntries = 2
  Given = {1}
  Forgettable = {3}
  MaxMarks = 2
  Length <- Lengths
  Parameters <- Terms
  Trained = 4
  Scored = {1, 2, 3}
INVARIANTS
  CountsAreTrue
  PairsAreSound
PROPERTIES
  PairedOnce
  PassesEnd
CHECK_DEADLOCK FALSE
