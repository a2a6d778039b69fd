SPECIFICATION Spec
CONSTANTS
    Injected = FALSE
    Initiator = TRUE
    MaxRuns = 1
    MaxRetries = 1
    MaxFailures = 0
    History <- MCHistory
PROPERTIES StopReturns
CHECK_DEADLOCK FALSE
