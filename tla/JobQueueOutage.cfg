SPECIFICATION FairSpec
CONSTANTS
    r1 = r1
    r2 = r2
    Replica <- MCReplica
    Slot = {1}
    NumJobs = 2
    BadJob <- MCBadJob
    MaxAttempts = 2
    HeartbeatEvery = 1
    TickSecs = 30
    StaleAfter = 1
    MaxMissed = 2
    MaxFaults = 1
INVARIANTS
    SettledForCause
PROPERTIES
    SuccessIsFinal
    QueueDrains
