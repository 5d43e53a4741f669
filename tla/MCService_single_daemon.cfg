SPECIFICATION Spec
CONSTANTS
    d1 = d1
    d2 = d2
    j1 = j1
    cli = cli
    plugin = plugin
    NoDaemon = NoDaemon
    Daemons = {d1, d2}
    Jobs = {j1}
    Calls = {cli, plugin}
    Plugin = {plugin}
    Limit = 8
    RequestSizes = {1}
    ResultSizes = {7, 8}
    MayOverlap = TRUE
    MaxDeaths = 2
    MaxFaults = 0
INVARIANT
    SingleDaemon
CHECK_DEADLOCK FALSE
