CONSTANTS
  r1 = r1
  Roles <- MCRoles
  Readers <- MCOneReader
  DeadTicks = 1
  DegradeAfterTicks = 2
  ReviveProbes = 2
  MaxOwed = 1
  MaxFlips = 2
SPECIFICATION LifeFairSpec
INVARIANT SchedulerAgrees
PROPERTIES  SilentGoesDown GoneIsRemoved
CHECK_DEADLOCK FALSE
