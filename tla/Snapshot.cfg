SPECIFICATION Spec
CONSTANTS
    w1 = w1
    w2 = w2
    t = t
    u = u
    Workers = {w1, w2}
    Runs = {r1}
    Nodes = {t, u}
    Streams <- MCStreams
    Threshold = 4
    KeepLatest = 1
    MaxEvents = 8
    MaxTicks = 3
    None = None
SYMMETRY MCSymmetry
INVARIANTS
    NothingTwice
    SnapshotExact
    ReplaySound
PROPERTIES
    LatestAdvances
CHECK_DEADLOCK FALSE
