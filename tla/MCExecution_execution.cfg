SPECIFICATION Spec
CONSTANTS
    m1 = m1
    m2 = m2
    x = x
    y = y
    NoServer = NoServer
    Words = {x, y}
    Servers = {m1, m2}
    Desktop = {m1, m2}
    LinkTargets = {"root", "d", "f", "outside", "missing"}
    Outputs <- SmallOutputs
    Used <- SmallHosts
    MaxResult = 1
    MaxDiff = 1
    MaxGitFaults = 1
    MaxCrashes = 1
    AgentBits <- SomeBits
    MaxTampered = 1
INVARIANTS
    TypeOK
    AnswerIsWhatWasSaid
    SyncIsComplete
    BarrierStands
    NothingLeftBehind
    DiffShowsWork
PROPERTY
    OwnEntriesKept
CHECK_DEADLOCK FALSE
