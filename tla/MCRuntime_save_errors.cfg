SPECIFICATION Spec
CONSTANTS
    j1 = j1
    j2 = j2
    j3 = j3
    w1 = w1
    w2 = w2
    h1 = h1
    h2 = h2
    NoJob = NoJob
    Jobs = {j1, j2}
    Cancelable = {j1}
    Workers = {w1, w2}
    Handlers = {h1, h2}
    SaveErrors = {"lost", "applied"}
    MaxFaults = 1
    MaxCrashes = 0
    MayClose = FALSE
SYMMETRY Symmetry
INVARIANTS
    Ownership
    RecordTracksWorker
    CanceledReplyIsFinal
