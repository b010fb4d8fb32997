SPECIFICATION Spec
CONSTANTS
    s1 = s1
    s2 = s2
    r1 = r1
    r2 = r2
    custom = custom
    default = default
    appid = appid
    Service <- ServicesMC
    Request <- RequestsMC
    Key <- KeysMC
    Default = default
    AppId = appid
    Retired <- RetiredMC
    MaxEvents = 4
SYMMETRY Symmetry
INVARIANTS
    SingleUse
    SessionsEnd
    TokensVerify
    RowsBelong
CHECK_DEADLOCK FALSE
