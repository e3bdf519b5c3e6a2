SPECIFICATION Spec
CONSTANTS
    Foci = {"restore", "backups", "session", "notes", "papers", "memory", "profile", "dream"}
    Workspaces <- TwoWorkspaces
    MaxRestores = 1
    MaxRstDeaths = 2
    Objects = {"o1", "o2"}
    LastBackup = 2
    MaxPrunes = 1
    MaxStoreDeaths = 1
    MaxTurns = 2
    MaxBatches = 1
    MaxSlDeaths = 1
    MaxRollovers = 2
    MaxEdits = 1
    MaxSlEvents = 2
    NvNames = {"a", "b"}
    NvFolders = {"d"}
    KeptRevisions = 1
    MaxBodies = 2
    MaxNvOps = 2
    MaxNvEdits = 1
    MaxNvDeaths = 1
    PlPapers = {"p"}
    PlTexts = {1, 2}
    PlRuns = 2
    MaxAttempts = 2
    MaxPlOps = 4
    MaxPlDeaths = 1
    LmIds = {"a", "b"}
    LmLegacy = {"a", "b"}
    LmRefs <- UserRefs
    LmWorkers = {"gateway"}
    PinLimit = 1
    MaxLmWrites = 2
    MaxLmEdits = 1
    MaxLmDeaths = 1
    DmEvidence = {1}
    MaxDays = 2
    MaxDreams = 2
    MaxDmFaults = 2
    MaxDmEdits = 1
    MaxRollbacks = 2
CONSTRAINT Undisturbed
CHECK_DEADLOCK FALSE
INVARIANTS
    RestoreSound
    BackupsSound
    SessionSound
    BodyKept
    LibrarySound
    MemorySound
    
PROPERTIES
    RecallIsActive
