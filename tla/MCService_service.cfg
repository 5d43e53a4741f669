SPECIFICATION FairSpec
CONSTANTS
    d1 = d1
    d2 = d2
    j1 = j1
    cli = cli
    plugin = plugin
    NoDaemon = NoDaemon
    Daemons = {d1}
    Jobs = {j1}
    Calls = {cli, plugin}
    Plugin = {plugin}
    MayOverlap = FALSE
    MaxDeaths = 1
    MaxFaults = 1
    Limit = 8
    RequestSizes = {1, 9}
    ResultSizes = {7, 8}
INVARIANTS
    TypeOK
    ReachableIsRecovered
    FinalAnswersLast
    LiveHasHolder
    StartedIsRecorded
    WrittenIsReadable
PROPERTIES
    CallsEnd
    ComesBack
CHECK_DEADLOCK FALSE
