SPECIFICATION FairSpec
CONSTANTS
  Idems <- OneUnsafe
  MaxCalls = 1
  MaxTools = 1
  MaxTries = 1
  MaxCrashes = 1
  MayCancel = FALSE
  MayClose = FALSE
  OtherDecisions = FALSE
  EvidenceMayFail = FALSE
PROPERTIES
  GatewayComesBack
CHECK_DEADLOCK FALSE
