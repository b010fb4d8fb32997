SPECIFICATION Spec
CONSTANTS
    r1 = r1
    r2 = r2
    p1 = p1
    p2 = p2
    e1 = e1
    Request <- RequestsMC
    Process <- ProcessesMC
    Exec <- ExecsMC
    Job = {1, 2}
    Period = {1, 2}
    BackupPeriod = 2
    MaxTime = 2
    MaxEvents = 2
SYMMETRY Symmetry
INVARIANTS
    OncePerOccurrence
    RowsAsAsked
PROPERTY NothingLost
CHECK_DEADLOCK FALSE
