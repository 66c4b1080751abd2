CONSTANTS
  K = 2
  RFixed = 2
  MaxParity = 2
  Ring = 8
  MaxShards = 2
  MaxGroups = 2
  MaxLag = 9
  MaxSeq = 3
  MaxSent = 9
  MaxRuns = 1
  MaxSwitches = 1
  BlockBits = 4
  NumBlocks = 2
  RingSize = 3
  MaxHold = 1
  Seqs <- MCSeqs
  Timeouts <- MCTimeouts
  MaxCopies = 3
  Modes <- MCModes
  MaxTargets = 2
SPECIFICATION FairSpec
INVARIANT DeliveredOnce
PROPERTIES ReceivedIsDelivered LossIsRepaired MirrorFallsBack
CHECK_DEADLOCK FALSE
