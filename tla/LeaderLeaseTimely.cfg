SPECIFICATION LeaseFairSpec
CONSTANTS
    r1 = r1
    r2 = r2
    Absent = Absent
    Departed = Departed
    Replica <- MCReplica
    LeaseTTL = 6
    RenewEvery = 2
    MaxLag = 3
    MaxFaults = 2
INVARIANTS
    AtMostOneLeader
PROPERTIES
    PassesStartUnderLease
    AlwaysALeaderAgain
