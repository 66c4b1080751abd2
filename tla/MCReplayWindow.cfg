CONSTANTS
  BlockBits = 3
  NumBlocks = 2
  Counters <- MCCounters
SPECIFICATION WindowSpec
INVARIANT RecentBlocksRemembered
PROPERTY ImplementsAntiReplay
