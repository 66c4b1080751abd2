CONSTANTS
  r1 = r1
  Roles <- MCClient
  Readers <- MCOneReader
  DeadTicks = 1
  DegradeAfterTicks = 2
  ReviveProbes = 2
  MaxOwed = 1
  MaxFlips = 1
SPECIFICATION LifeFairSpec
PROPERTY RemovedIsExcluded
CHECK_DEADLOCK FALSE
