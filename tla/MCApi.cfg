SPECIFICATION ApiSpec
CONSTANTS
  Sessions <- MCSessions
  Key <- MCKey
  Solutions = {"a", "b"}
  Values <- MCValues
  Infinity = 9
  MaxRuns = 2
INVARIANTS
  ResultFaithful
  EstimatorBest
  
CHECK_DEADLOCK FALSE
