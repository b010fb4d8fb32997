SPECIFICATION DatabaseSpec
CONSTANTS
    r1 = r1
    r2 = r2
    DatabaseRequest <- RequestsMC
    Retention = {0, 1}
    MaxSecond = 2
    MaxDatabaseEvents = 4
SYMMETRY Symmetry
INVARIANTS
    DatabaseTypeOK
    RowsHaveFiles
    DataIsWhole
    RowIsTrue
PROPERTY NewestKept
CHECK_DEADLOCK FALSE
