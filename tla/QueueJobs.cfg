\* Two jobs that no request touches; the scheduler polls for ever.
SPECIFICATION Spec
CONSTANTS
    j1 = j1
    j2 = j2
    k1 = k1
    k2 = k2
    c1 = c1
    c2 = c2
    Jobs = {j1, j2}
    Priority <- MCPriority
    Keys = {k1}
    Clients = {}
    MaxConcurrency = 2
    RetryMax = 2
    WakeCap = 1
    NoJob = NoJob
    NoKey = NoKey
INVARIANTS
    RunAlone
    RetriesBounded
PROPERTIES
    EventuallyEnds
