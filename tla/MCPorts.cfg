CONSTANTS
  Bounds <- MCBounds
  Ends <- MCEnds
  Split = 1
  Rounded <- MCRounded
  Representatives <- MCRepresentatives
  Solutions <- MCSolutions
  Near <- MCNear
  EliteSize = 3
  Infinity = 7
  NoSolution = NoSolution
  Objectives <- MCObjectives
  WarmStarts <- MCWarmStarts
  Settings <- MCSettings
  MaxIterations = 4
  MonitorThreshold = 2
  RestartFloor = 1
  RelinkFrequency = 2
  IlsIterations = 1
  Kicks = 1
  Drops = 3
  Batch = {1, 2}
  Alphas = {0, 1, 2}
  AlphaUnit = 2
SPECIFICATION PortSpec
INVARIANT PortTypeOK
INVARIANT PoolInv
INVARIANT StopsWhenStagnant
INVARIANT NothingLost
INVARIANT CostsBelong
INVARIANT StaysInBox
INVARIANT PickWorthy
PROPERTY RanksNeverWorsen
PROPERTY ShrinksToBestTwo
PROPERTY PortsImplementIncumbent
