SPECIFICATION FairSpec
CONSTANTS
  Idems <- AllIdems
  MaxCalls = 2
  MaxTools = 2
  MaxTries = 2
  MaxCrashes = 0
  MayCancel = FALSE
  MayClose = FALSE
  OtherDecisions = FALSE
  EvidenceMayFail = TRUE
PROPERTIES
  Settles
CHECK_DEADLOCK FALSE
