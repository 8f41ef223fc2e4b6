SPECIFICATION Spec
CONSTANTS
    N = 3
    Plans <- MCPlans
    MaxAttempts = 3
INVARIANTS
    TypeOK
    PlanSound
    CompletedRanAll
    FinishedIsReal
PROPERTIES
    InputsFirst
\* A finished job, a job whose attempts are used up, and one that waits may stop.
CHECK_DEADLOCK FALSE
