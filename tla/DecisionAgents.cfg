SPECIFICATION Spec
CONSTANTS
    Agents = {"i", "a", "b"}
    Initiator = "i"
    Wirings <- MCWirings
    NoId <- MCNoId
INVARIANTS TypeOK CommitIsJustified
PROPERTIES SoundWiringCommits
CHECK_DEADLOCK FALSE
