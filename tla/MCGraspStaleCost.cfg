CONSTANTS
  a = a
  b = b
  c = c
  z = z
  Solutions <- MCSolutions
  Near <- AllFar
  EliteSize = 3
  Infinity = 3
  Box <- MCBox
  NoSolution = NoSolution
  Bucket <- SharedBucket
  Objectives <- MCObjectives
  WarmStarts <- NoWarmStart
  MaxIterations = 4
  EarlyStopThreshold = 3
  RelinkFrequency = 1
  Configs <- Plain
SPECIFICATION GraspSpec
INVARIANT CostIsObjective
