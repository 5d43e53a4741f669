SPECIFICATION FairSpec
CONSTANTS
    j1 = j1
    j2 = j2
    c1 = c1
    c2 = c2
    NoJob = NoJob
    Jobs = {j1}
    Calls = {c1, c2}
    Edges <- edges
    MaxFaults = 1
    MaxCrashes = 2
INVARIANTS
    TypeOK
    ReportsStayTrue
    NoneAbandoned
PROPERTY
    CallsEnd
CHECK_DEADLOCK FALSE
