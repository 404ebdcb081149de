CONSTANTS
  a = a
  b = b
  c = c
  z = z
  Solutions <- MCSolutions
  Near <- MCNear
  EliteSize = 3
  Infinity = 2
  Box <- MCBox
  NoSolution = NoSolution
  Bucket <- SharedBucket
  Objectives <- EveryObjective
  WarmStarts <- MCWarmStarts
  MaxIterations = 5
  EarlyStopThreshold = 3
  RelinkFrequency = 2
  Configs <- EveryStage
SPECIFICATION GraspSpec
INVARIANT GraspTypeOK
INVARIANT IncumbentDominates
INVARIANT EarlyStopEarned
INVARIANT RestartEarned
PROPERTY ImplementsIncumbent
PROPERTY ImplementsPool
PROPERTY Terminates
