SPECIFICATION FairSpec
CONSTANTS
    me = me
    peer = peer
    Me = me
    Mode = "decision"
    NoId = ""
    TrackAcks = FALSE
    MaxFailures = 2
    ParsedTypes <- DecisionParsed
    ModeStep <- DecisionStep
    InitView <- DecisionInit
    Messages <- MCMessages
    Admissible <- MCAdmissible
INVARIANTS TypeOK PrefixOfLog
PROPERTIES HistorySpec CatchesUp
CHECK_DEADLOCK FALSE
