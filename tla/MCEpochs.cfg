CONSTANTS
  MaxAttempts = 3
  MaxRestarts = 1
  MaxSeq = 1
  SeenSpan = 2
SPECIFICATION FairSpec
INVARIANT UplinkReadable
PROPERTIES SwitchConfirmed KeysAdvance SidesSettle
CHECK_DEADLOCK FALSE
