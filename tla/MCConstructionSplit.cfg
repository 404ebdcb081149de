SPECIFICATION ConstructionSpec
CONSTANTS
  Calls <- MCCalls
  Cost <- MCCost
  Alphas <- MCSchedules
  Earlier <- MCEarlier
  Unit = 4
  Grain = 2
  Infinity = 99
  DefaultPool = 4
  MinPool = 3
  Iterations = 2
INVARIANTS
  IntegerProblemsWork
