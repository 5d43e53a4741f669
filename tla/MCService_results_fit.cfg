SPECIFICATION Spec
CONSTANTS
    d1 = d1
    d2 = d2
    j1 = j1
    cli = cli
    plugin = plugin
    NoDaemon = NoDaemon
    Daemons = {d1, d2}
    Jobs = {j1}
    Calls = {cli, plugin}
    Plugin = {plugin}
    Limit = 8
    RequestSizes = {1}
    ResultSizes = {7, 13}
    MayOverlap = FALSE
    MaxDeaths = 0
    MaxFaults = 0
INVARIANT
    ResultsFit
CHECK_DEADLOCK FALSE
