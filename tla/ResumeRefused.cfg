\* The job may stop; the property is one the documentation states.
SPECIFICATION Spec
CONSTANTS
    a1 = a1
    a2 = a2
    c1 = c1
    Attempts = {a1, a2}
    Plan <- ToolTool
    Policy = "default"
    Clients = {}
    MaxMessages = 0
    MaxFaults = 0
    NoAttempt = NoAttempt
SYMMETRY AttemptSymmetry
INVARIANT ResumeProceeds
CHECK_DEADLOCK FALSE
