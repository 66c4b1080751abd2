SPECIFICATION ProbesFairSpec
CONSTANTS
  MinSample = 3
  Unit = 12
  DegradeLoss = 8
  DegradeTicks = 2
  MaxWindow = 3
  MaxUp = 1
  MaxReports = 2
  MaxBack = 1
  MaxRestarts = 1
INVARIANT ProbesTypeOK
PROPERTIES IdleRecovers LossNoticed
