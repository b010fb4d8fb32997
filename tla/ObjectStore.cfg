SPECIFICATION Spec
CONSTANTS
    r1 = r1
    r2 = r2
    Request <- RequestsMC
    Provider <- ProvidersMC
    MaxObjs = 2
    MaxEvents = 6
SYMMETRY Symmetry
INVARIANTS
    FilesMatchRows
CHECK_DEADLOCK FALSE
