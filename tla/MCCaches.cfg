CONSTANTS
  Keys = {1, 2, 3, 4, 5}
  CacheCosts = {0, 1}
  MaxSize = 2
  MaxLookups = 2
  Workers = {w1, w2}
  Batches <- MCBatches
  Sizes = {1, 3}
SPECIFICATION CachesSpec
INVARIANTS
  HoldsMostRecent
  HarmBounded
PROPERTY BatchCompletes
