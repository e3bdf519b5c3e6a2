SPECIFICATION Spec
CONSTANTS
  tool = tool
  request = request
  Ops = {tool, request}
  Meta <- MCMeta
  MaxAttempts = 3
  MaxOps = 1
  Approvals = {p1}
CHECK_DEADLOCK FALSE
INVARIANTS
    AggregateIsReduction
    HumanDecides
    EvidenceStable
PROPERTIES
    DeterminedNeverRewritten
