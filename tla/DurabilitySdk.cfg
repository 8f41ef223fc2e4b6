SPECIFICATION Spec
CONSTANTS
    Executors = {e1, e2}
    N = 2
    MaxRetries = 2
    MaxCalls = 3
    MaxFaults = 1
SYMMETRY Symmetry
INVARIANTS
    TypeOK
    InOrder
    CheckpointComplete
    CompletedMeansAll
    RefusedOnlyByOverlap
PROPERTIES
    CommittedOnce
\* After the last call of Execute nothing is left to do.
CHECK_DEADLOCK FALSE
