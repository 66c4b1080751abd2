CONSTANTS
  Ifs <- MCIfs
  MaxPaths = 3
  Attachments <- MCAttachments
  Reaching <- MCReaching
  Starts <- MCStarts
  Callers <- MCCallers
  Explicit <- MCExplicit
  Autos <- MCAutos
  Scenes <- MCScenes
  WanIds <- MCWanIds
  MaxFlips = 2
  MaxCalls = 1
SPECIFICATION FairSpec
INVARIANT OnePathPerLink
PROPERTIES  UnwantedIsReleased RekeyCompletes InfoIsCurrent StopEnds
CHECK_DEADLOCK FALSE
