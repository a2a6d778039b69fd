SPECIFICATION Spec
CONSTANTS
    Kinds <- MCKinds
    Faults = {"apply", "message", "phase", "terminal", "poll"}
    MaxFaults = 3
    InitPhase = "Pending"
    Scripts <- MCScripts
INVARIANTS TypeOK PhaseReportedOnce TerminalWasReported
PROPERTIES EventuallyStopped
CHECK_DEADLOCK FALSE
