SPECIFICATION Spec
CONSTANTS
    r1 = r1
    r2 = r2
    Replica <- MCReplica
    Slot = {1}
    NumJobs = 2
    BadJob <- MCBadJob
    MaxAttempts = 2
    HeartbeatEvery = 2
    TickSecs = 30
    StaleAfter = 4
    MaxMissed = 1
    MaxFaults = 3
SYMMETRY MCSymmetry
INVARIANTS
    Exclusive
PROPERTIES
    RefinesLifecycle
