SPECIFICATION Spec
CONSTANTS
    Peers <- MCPeers
    Calls <- MCCalls
    Starts <- MCStarts
    Anything <- MCAnything
    PeersLength <- MCPeersLength
    AnyLength <- MCAnyLength
    NoId <- MCNoId
    SessionAuth <- MCSessionAuth
    ClientAuth <- MCClientAuth
    MaxParticipants = 3
    MaxTtl = 1
    Initiator = "i"
    Policies <- MCPolicies
    CountMax = 100
INVARIANTS TypeOK NothingSilent AcceptedIsLatest TerminalIsSeen AdviceAgrees BuildersAgree
PROPERTIES FirstWordStands SlotIsAssignment VerdictDecides CallsTake
CHECK_DEADLOCK FALSE
