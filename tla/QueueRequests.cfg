\* One job, two requests; the scheduler polls for ever.
SPECIFICATION Spec
CONSTANTS
    j1 = j1
    j2 = j2
    k1 = k1
    k2 = k2
    c1 = c1
    c2 = c2
    Jobs = {j1}
    Priority <- MCPriority1
    Keys = {k1, k2}
    Clients = {c1, c2}
    MaxConcurrency = 2
    RetryMax = 1
    WakeCap = 1
    NoJob = NoJob
    NoKey = NoKey
INVARIANTS
    TypeOK
    PendingQueued
    RunsBounded
PROPERTIES
    EventuallyClaimed
