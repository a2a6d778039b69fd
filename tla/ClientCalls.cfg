SPECIFICATION FairSpec
CONSTANTS
    t1 = t1
    t2 = t2
    MaxRetries = 1
    MaxPages = 2
    MaxFaults = 1
    Callers <- MCCallers
    Programs <- MCPrograms
    Configs <- MCConfigs
    CapabilitySets <- MCCapabilitySets
INVARIANTS TypeOK OutcomeIsTrue OwnView FinalAnswerEnds GatedOnlyAdvertised SenderIsIdentity
PROPERTIES CallsEnd
CHECK_DEADLOCK FALSE
