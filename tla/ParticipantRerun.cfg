SPECIFICATION Spec
CONSTANTS
    Injected = FALSE
    Initiator = TRUE
    MaxRuns = 2
    MaxRetries = 1
    MaxFailures = 1
    History <- MCHistory
INVARIANT RunSubscribes
CHECK_DEADLOCK FALSE
