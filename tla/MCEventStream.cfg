SPECIFICATION FairSpec
CONSTANTS
  QueueSize = 1
  MaxEvents = 3
  MaxDrops = 1
  MaxCrashes = 1
  SilentFinish = TRUE
CHECK_DEADLOCK FALSE
INVARIANTS
    SeenInSequence
PROPERTIES
    SubscriptionEnds
    EveryEventShown
