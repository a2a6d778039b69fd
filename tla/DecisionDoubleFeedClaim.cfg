SPECIFICATION Spec
CONSTANTS
    me = me
    peer = peer
    Me = me
    Mode = "decision"
    NoId = ""
    TrackAcks = TRUE
    MaxFailures = 0
    ParsedTypes <- DecisionParsed
    ModeStep <- DecisionStep
    InitView <- DecisionInit
    Messages <- MCMessages
    Admissible <- MCAdmissible
INVARIANT DoubleFeedIsSafe
CHECK_DEADLOCK FALSE
