CONSTANTS
  Paths <- MCPaths
  Weights <- MCWeights
  Scale = 2
  Degradation = 2
  Lens <- MCLens
  MinMTU = 2
  MaxInners <- MCInners
  RTTs <- MCRTTs
  MaxRTTSpread = 1
  MaxSent = 3
  MaxChanges = 5
SPECIFICATION FairSpec
INVARIANT FairShare
PROPERTY NoBlackhole
CHECK_DEADLOCK FALSE
