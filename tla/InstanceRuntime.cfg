SPECIFICATION FairSpec
CONSTANTS
    p1 = p1
    u1 = u1
    Prober <- MCProber
    User <- MCUser
    Min = 1
    Autoscaled = FALSE
    Threshold = 2
    MaxExps = 1
    MaxEvents = 2
INVARIANTS
    StopHolds
PROPERTIES
    Heals
    ExperimentsEnd
CHECK_DEADLOCK FALSE
