SPECIFICATION PoolSpec
CONSTANTS
    r1 = r1
    r2 = r2
    t1 = t1
    t2 = t2
    Request <- RequestsMC
    Reload <- ReloadsMC
    Resource <- ResourcesMC
    MaxVals = 3
    MaxVars = 2
    MaxPoolEvents = 3
SYMMETRY Symmetry
INVARIANTS
    PoolTypeOK
    PodsFollowRows
    PasswordsAgree
CHECK_DEADLOCK FALSE
