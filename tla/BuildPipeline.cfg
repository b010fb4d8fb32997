SPECIFICATION FairSpec
CONSTANTS
    w1 = w1
    w2 = w2
    Worker <- MCWorker
    NumBuilds = 3
    Caps = {1, 2}
    MaxEvents = 2
INVARIANTS
    TypeOK
    SlotsConserved
    VerdictIsTrue
PROPERTIES
    SecretsKept
    Settles
CHECK_DEADLOCK FALSE
