SPECIFICATION FairSpec
CONSTANTS
  Streams = {r1}
  Sinks = {"eventbus", "jsonl"}
  FailingSinks = {"jsonl"}
  MaxEvents = 3
  MaxAttempts = 2
  MaxCrashes = 1
  TornWrites = FALSE
CHECK_DEADLOCK FALSE
INVARIANTS
    SinksInOrder
    EventsKept
PROPERTIES
    EveryDeliverySettles
