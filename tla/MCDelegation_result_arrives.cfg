SPECIFICATION FairSpec
CONSTANTS
    j1 = j1
    j2 = j2
    c1 = c1
    c2 = c2
    NoJob = NoJob
    Jobs = {j1}
    Calls = {c1}
    Edges <- edges
    MaxFaults = 0
    MaxCrashes = 1
PROPERTY
    DelegatedResultArrives
CHECK_DEADLOCK FALSE
