SPECIFICATION Spec
CONSTANTS
    Foci = {"harness", "checkpoint", "finalize", "locks", "latex"}
    MaxGenerations = 2
    MaxTurns = 2
    MaxRepairs = 1
    MaxUserSteps = 1
    MaxEvoDeaths = 1
    Workloads = {{"dream", "code"}, {"code"}, {"dream", "capability"}, {"error", "capability"}}
    CkFiles = {f, g}
    CkValues = {0, 1}
    CkLimit = 2
    MaxCommits = 3
    MaxBranches = 2
    MaxCkFaults = 1
    MaxOutside = 1
    MaxFzGens = 2
    MaxFzTries = 2
    MaxFzEdits = 2
    MaxFzDeaths = 1
    MaxFzFaults = 1
    LkTasks = {"t1", "t2", "t3"}
    LkProc <- ProcessOf
    MaxLkOps = 3
    MaxLkCancels = 1
    MaxLkDeaths = 1
    LxJobs = {"c1", "c2"}
    MaxLxFaults = 2
    MaxLxDeaths = 1
CONSTRAINT Undisturbed
INVARIANTS
    HarnessSound
    CheckpointsSound
    FinalizationSound
    LocksSound
    CompilationsSound
PROPERTIES
    UnrecordedWorkKept
CHECK_DEADLOCK FALSE
