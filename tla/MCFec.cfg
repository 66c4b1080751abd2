CONSTANTS
  K = 2
  RFixed = 0
  MaxParity = 2
  Ring = 3
  MaxShards = 2
  MaxGroups = 2
  MaxLag = 9
  Modes = {"fec", "bonding"}
  MaxSeq = 5
  MaxSent = 4
  MaxRuns = 2
  MaxSwitches = 1
SPECIFICATION FairSpec
INVARIANTS RecoveredWasSent NoSolvableGroupWaits AnyKSuffice
 
CHECK_DEADLOCK FALSE
