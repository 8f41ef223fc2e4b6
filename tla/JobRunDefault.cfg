\* Two overlapping attempts, two tools; both may give up, so the job may stop.
SPECIFICATION Spec
CONSTANTS
    a1 = a1
    a2 = a2
    c1 = c1
    Attempts = {a1, a2}
    Plan <- ToolTool
    Policy = "default"
    Clients = {}
    MaxMessages = 0
    MaxFaults = 0
    NoAttempt = NoAttempt
SYMMETRY AttemptSymmetry
INVARIANTS
    AtMostOnce
    InOrder
    CursorBehind
CHECK_DEADLOCK FALSE
