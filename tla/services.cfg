SPECIFICATION MCSpec
CONSTANTS
  t1 = t1
  w1 = w1
  w2 = w2
  Null = Null
  Gone = Gone
  Tickets = {t1}
  Tabs = {t1}
  Windows = {w1, w2}
  Sessions = {"s1"}
  AutoLabels = {"bad"}
  HumanLabels = {"good"}
  MaxChanges = 3
  MaxEvaluations = 1
  MaxFilings = 1
  MaxFiles = 1
  MaxCrashes = 1
  None = None
  MaxHooks = 3
  MaxFaults = 1
  Words = {"a", "b"}
  BatchSize = 1
  MaxPrompts = 2
  MaxImports = 3
  f1 = f1
  f2 = f2
  Files = {f1, f2}
SYMMETRY Symmetry
INVARIANTS
  EvaluatedIsFiled
  
  RunningIsWatched
  ResumableIsListed
  AdoptedIsShared
  DoubtIsShown
  CatalogIsTheLog
  ImportIsIdempotent
  FlagsAreGuarded
PROPERTIES
  HumanStands
  OnlyItsOwn
CHECK_DEADLOCK FALSE
