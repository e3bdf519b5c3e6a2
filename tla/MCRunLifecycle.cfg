SPECIFICATION Spec
CONSTANTS
  Idems <- AllIdems
  MaxCalls = 2
  MaxTools = 2
  MaxTries = 2
  MaxCrashes = 2
  MayCancel = TRUE
  MayClose = TRUE
  OtherDecisions = TRUE
  EvidenceMayFail = TRUE
CHECK_DEADLOCK FALSE
INVARIANTS
    EffectsControlled
    RestsAsItHappened
PROPERTIES
    RestIsQuiet
