CONSTANTS
  a = a
  b = b
  c = c
  Sources <- MCSources
  Unit = 2
  Rate = 1
  Burst = 2
  SoftCap = 2
  SweepStride = 3
  CapIdle = 1
  SweepIdle = 2
  MaxTime = 7
  MaxCalls = 6
SYMMETRY MCSymmetry
SPECIFICATION LimiterSpec
INVARIANT RateBounded
CHECK_DEADLOCK FALSE
