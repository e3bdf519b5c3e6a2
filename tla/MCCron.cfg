SPECIFICATION Spec
CONSTANTS
  often = often
  once = once
  Jobs = {often, once}
  Schedules <- Plans
  Capacity = 1
  Step = 2
  MaxTime = 2
  MaxIncidents = 2
CHECK_DEADLOCK FALSE
INVARIANTS
    CyclesSound
PROPERTIES
    SettledForGood
