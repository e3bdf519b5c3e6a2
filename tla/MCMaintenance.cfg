SPECIFICATION MntSpec
CONSTANTS
    Works = {"w1"}
    Participants <- MCParticipants
    Members = {"m1"}
    MaxEpochs = 2
    MaxResumes = 1
    MaxWrites = 2
    MaxDeaths = 1
CHECK_DEADLOCK FALSE
INVARIANTS
    MaintenanceSound
PROPERTIES
    OwnerResumes
    TransitionsEnd
