SPECIFICATION ThreadsSpec
CONSTANTS
    MaxConns = 3
    kMaxConnections = 2
    TableSize = 1
    MaxStarts = 1
    MaxAcceptErrors = 1
INVARIANTS ThreadsTypeOK StopComplete ClosedOnce CrcTableWhole
PROPERTIES StopReturns ConnectServed
