SPECIFICATION Spec
CONSTANTS
    r1 = r1
    r2 = r2
    i1 = i1
    b1 = b1
    n1 = n1
    Request <- MCRequest
    App <- MCApp
    Database <- MCDatabase
    Fqdn <- MCFqdn
    NumDomains = 2
    NumRecords = 3
    NumBuilds = 2
    Keep = 1
    MaxAsks = 2
    MaxMishaps = 1
INVARIANTS RoutesMatchRows ImagesKept WorkloadsEnd
PROPERTIES OrphansGo
CHECK_DEADLOCK FALSE
