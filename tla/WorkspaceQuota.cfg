SPECIFICATION FairSpec
CONSTANTS
    q1 = q1
    q2 = q2
    a1 = a1
    d1 = d1
    f1 = f1
    Request <- MCRequests
    App <- MCApps
    Db <- MCDbs
    Fn <- MCFns
    Mems = {1}
    Reps = {1, 2}
    Limits = {0, 2}
    Conns = 2
    MaxEvents = 4
INVARIANTS
    Serialized
    PoolBalanced
PROPERTIES
    QuotaRespected
    EverythingDrains
CHECK_DEADLOCK FALSE
