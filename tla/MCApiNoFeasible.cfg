SPECIFICATION ApiSpec
CONSTANTS
  Sessions <- MCSessions
  Key <- MCKey
  Solutions = {"a", "b"}
  Values <- MCValues
  Infinity = 9
  MaxRuns = 2
INVARIANT NoFeasibleNamed
CHECK_DEADLOCK FALSE
