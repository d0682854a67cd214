SPECIFICATION SessionSpec
CONSTANTS
    kFrameMagic = 7
    kMaxFrameBytes = 2
    kBuffer = 7
    Garbage <- MCGarbage
    Frame <- Messages
    MaxCalls = 2
    MaxFaults = 1
INVARIANTS SessionTypeOK
PROPERTIES StreamsInOrder AnswersMatch RequestsArrive QueryReturns
CHECK_DEADLOCK FALSE
