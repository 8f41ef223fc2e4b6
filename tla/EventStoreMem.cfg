\* The in-memory store; processes stop when the log is full.
SPECIFICATION Spec
CONSTANTS
    j1 = j1
    a1 = a1
    a2 = a2
    a3 = a3
    w1 = w1
    w2 = w2
    api = api
    progress = progress
    job_completed = job_completed
    Jobs = {j1}
    Attempts = {a1, a2, a3}
    Workers = {w1, w2}
    WorkerOf <- MCWorkerOf
    Types = {progress, job_completed}
    Terminal = {job_completed}
    APIWriters = {api}
    Backend = "memory"
    MaxVersion = 4
    NoAttempt = NoAttempt
INVARIANTS
    AttemptOrder
PROPERTIES
    GrantOnlyClaimable
CHECK_DEADLOCK FALSE
