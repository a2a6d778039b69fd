SPECIFICATION Spec
CONSTANTS
    Agents = {"i", "a", "b"}
    Initiator = "i"
    Wirings <- EveryoneEvaluates
    NoId <- MCNoId
PROPERTY StrategiesCommit
CHECK_DEADLOCK FALSE
