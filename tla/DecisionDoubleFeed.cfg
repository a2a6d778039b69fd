SPECIFICATION Spec
CONSTANTS
    me = me
    peer = peer
    Me = me
    Mode = "decision"
    NoId = ""
    TrackAcks = TRUE
    MaxFailures = 2
    ParsedTypes <- DecisionParsed
    ModeStep <- DecisionStep
    InitView <- DecisionInit
    Messages <- MCMessages
    Admissible <- MCAdmissible
INVARIANTS AcceptedOnly EachOnce ReplayReproduces
CHECK_DEADLOCK FALSE
