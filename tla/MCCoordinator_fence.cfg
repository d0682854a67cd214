SPECIFICATION CoordSpec
CONSTANTS
    DeviceIds = {1, 2}
    SwitchIds = {10}
    LinkIds = {100, 101}
    PartitionIds = {1}
    PortIndexes = {0, 1}
    FabricIds = {"synthetic-fabric"}
    Workers = {"w"}
    Boots = {1, 2}
    U64 = 16
    kMaxPortsPerSwitch = 2
    kMaxCandidatePaths = 8
    kMaxPathDepth = 4
    kMaxDevices = 2
    kMaxSwitches = 2
    kMaxPorts = 2
    kMaxLinks = 2
    kMaxPartitions = 1
    kMaxMeasurements = 1
    kMaxHistory = 1
    Callers = {c1, c2, c3}
    Epochs = {0}
    Queries <- MCQueries
    Policies <- MCPolicies
    DeviceInputs = {}
    SwitchInputs = {}
    PortInputs = {}
    LinkInputs = {}
    PartitionInputs = {}
    StateInputs = {}
    RestartGens = {}
    MeasurementInputs <- MCMeasurements
    CongestionInputs = {}
    BulkEdits <- MCExhausted
    Backends = {}
    NoBackend = NoBackend
    BackendProvenance <- NoFunction
    BackendScans <- NoFunction
    MaxVersion = 12
    MaxDecisions = 4
    kMaxConnections = 2
    NoFile = NoFile
    Torn = Torn
    MaxInbox = 2
    MaxAccepts = 3
    MaxFrames = 3
    MaxRestarts = 0
INVARIANTS CoordTypeOK UniqueIncarnation OwnersLive RevokedNeverAuthoritative DecisionIdsDistinct
SYMMETRY Slots
CHECK_DEADLOCK FALSE
