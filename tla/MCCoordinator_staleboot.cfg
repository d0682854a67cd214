SPECIFICATION CoordSpec
CONSTANTS
    DeviceIds = {1, 2}
    SwitchIds = {10}
    LinkIds = {100, 101}
    PartitionIds = {1}
    PortIndexes = {0, 1}
    FabricIds = {"synthetic-fabric"}
    Workers = {"w"}
    Boots = {1, 2}
    U64 = 16
    kMaxPortsPerSwitch = 2
    kMaxCandidatePaths = 8
    kMaxPathDepth = 4
    kMaxDevices = 2
    kMaxSwitches = 2
    kMaxPorts = 2
    kMaxLinks = 2
    kMaxPartitions = 1
    kMaxMeasurements = 1
    kMaxHistory = 1
    Callers = {c1, c2}
    Epochs = {0}
    Queries <- MCQueries
    Policies <- MCPolicies
    DeviceInputs = {}
    SwitchInputs = {}
    PortInputs = {}
    LinkInputs = {}
    PartitionInputs = {}
    StateInputs = {}
    RestartGens = {}
    MeasurementInputs = {}
    CongestionInputs = {}
    BulkEdits <- MCBulks
    Backends = {}
    NoBackend = NoBackend
    BackendProvenance <- NoFunction
    BackendScans <- NoFunction
    MaxVersion = 12
    MaxDecisions = 4
    kMaxConnections = 2
    NoFile = NoFile
    Torn = Torn
    MaxInbox = 2
    MaxAccepts = 2
    MaxFrames = 2
    MaxRestarts = 0
PROPERTY StaleBootSilenced
CHECK_DEADLOCK FALSE
