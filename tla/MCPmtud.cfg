CONSTANTS
  Floor = 2
  Base = 5
  Granularity = 1
  AckTimeoutTicks = 2
  MaxAttempts = 2
  RevalidateTicks = 2
  InitialDelayTicks = 1
  IfMTUs <- MCIfMTUs
  Limits <- MCLimits
  GoodRtt = 1
  BadRtt = 2
  MaxChanges = 1
  MaxRestarts = 1
SPECIFICATION FairSpec
INVARIANTS ResultProved SearchBracketed 
PROPERTIES Settles 
