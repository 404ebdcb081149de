SPECIFICATION HydropowerSpec
CONSTANTS
  Config <- MCConfig
  Level <- MCLevel
  Tailwater <- MCTailwater
  Control <- MCControl
  Periods = 3
  Travel = 2
  MinDuration = 2
  Tolerance = 1
  Inflows = {0, 4}
  Requests = {1, 3, 9}
  Streams <- MCStreams
  Configurations = {"c", "d"}
  MaxRuns = 3
INVARIANTS
  WaterConserved
  RecordsHonest
  AnswersInOrder
  PromotedIsWhole
  VerifiedIsOneRun
CHECK_DEADLOCK FALSE
