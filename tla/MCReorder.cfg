CONSTANTS
  BlockBits = 3
  NumBlocks = 2
  RingSize = 6
  MaxHold = 2
  MaxCopies = 2
  Seqs <- MCSeqsSparse
  Timeouts <- MCTimeouts
SPECIFICATION Spec
INVARIANTS RingShape EachCopyOnce
PROPERTIES Resequenced GapNotPostponed RecentDuplicatesDropped
CHECK_DEADLOCK FALSE
