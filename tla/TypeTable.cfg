SPECIFICATION Spec
CONSTANTS
  Env <- MCEnv
  Spirals <- MCSpirals
  Programs <- MCPrograms
  Project <- MCProject
  Checkers <- MCCheckers
  MaxExactInteger = 1000
  MaxWalkDepth = 12
  MaxWalkOps = 200
  SpiralFrames = 4
  MaxFoldIterations = 8
  MaxSwaps = 2
INVARIANTS
  SitesAreDescribed
  SameTypeSameId
  ReportsAreExact
CHECK_DEADLOCK FALSE
