\* Attempts that resume a tool themselves; all may give up, so the job may stop.
SPECIFICATION Spec
CONSTANTS
    a1 = a1
    a2 = a2
    c1 = c1
    Attempts = {a1, a2}
    Plan <- OneTool
    Policy = "none"
    Clients = {}
    MaxMessages = 1
    MaxFaults = 1
    NoAttempt = NoAttempt
SYMMETRY AttemptSymmetry
INVARIANTS
    RecordedIsReal
    CompletedMeansDone
CHECK_DEADLOCK FALSE
