SPECIFICATION StreamsSpec
CONSTANTS
    Readers = {r1, r2}
    Writers = {w1, w2}
    CallbacksRaise = TRUE
    MaxFrames = 2
    MaxCalls = 4
INVARIANTS TypeOK EndIsTruth SentBeforeClose
PROPERTIES PromiseSpec CallsReturn
CHECK_DEADLOCK FALSE
