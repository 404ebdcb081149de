SPECIFICATION FairSearch
CONSTANTS
  Shapes <- MCShapes
  Values <- MCValues
  Tasks <- MCTasks
  Cost <- MCCost
  Objectives = {"coupled", "deceptive"}
  Digits <- MCDigits
  Caches = {"off", "in use"}
  Held <- MCHeld
  Lower = 1
  Upper = 2
  MaxIterations = 3
  NoImproveLimit = 2
  FlipLimit = 2
  MaxAttempts = 2
  MinBlock = 2
  MaxBlock = 3
  DeadlineStride = 2
  IlsIterations = 2
  PerturbationStrength = 1
  MaxRelink = 2
  RelinkStride = 2
INVARIANTS
  WorkingVectorIntact
  IntegerOptimum
  LateSearchBounded
PROPERTIES
  NeverWorse
  Terminates
CHECK_DEADLOCK FALSE
