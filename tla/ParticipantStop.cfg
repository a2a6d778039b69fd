SPECIFICATION Spec
CONSTANTS
    Injected = TRUE
    Initiator = TRUE
    MaxRuns = 2
    MaxRetries = 1
    MaxFailures = 2
    History <- MCHistory
INVARIANTS TypeOK ServerFollowsRun
PROPERTIES TerminalReturns StopReturns
CHECK_DEADLOCK FALSE
