SPECIFICATION Spec
CONSTANTS
    Foci = {"generations", "observer", "hooks", "grants"}
    Plugins = {"observer", "skill"}
    Kind <- MCKind
    Requires <- MCRequires
    Versions = {"a", "ax", "b"}
    SemOf <- MCSemOf
    Absent = "absent"
    Runs = {"r1", "c1"}
    CronRuns = {"c1"}
    SessionOf <- MCSessionOf
    FirstTree <- MCFirstTree
    Threshold = 1
    MaxGens = 3
    MaxEdits = 1
    MaxCrashes = 1
    MaxObEvents = 4
    MaxObFaults = 1
    MaxObDeaths = 1
    XhRuns = {"r1", "r2"}
    XhLawful = {"s1", "s2"}
    XhRejected = {"bad"}
    XhDirs <- StageDirs
    MaxXhCalls = 5
    MaxXhAdmin = 2
    MaxXhReloads = 1
    MaxXhFaults = 1
CHECK_DEADLOCK FALSE
INVARIANTS
    GenerationsSound
    ObserverSound
    HooksSound
PROPERTIES
    BindingKept
