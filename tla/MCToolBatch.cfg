SPECIFICATION FairSpec
CONSTANTS
  N = 4
  max_parallel = 2
CHECK_DEADLOCK FALSE
INVARIANTS
    BodiesDisciplined
PROPERTIES
    Closes
    KeepsPromise
