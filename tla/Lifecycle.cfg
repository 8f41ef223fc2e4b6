SPECIFICATION Spec
CONSTANTS
    Jobs = {j1}
    Workers = {w1, w2}
    Capable = {w2}
    MaxAttempts = 2
    MaxFaults = 1
    Clients = {c1}
    NoJob = NoJob
    NoWorker = NoWorker
INVARIANTS TypeOK
PROPERTIES CompletedFinal JobEnds WaitAnswerable StatusSettles
