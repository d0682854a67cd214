SPECIFICATION RegSpec
CONSTANTS
    DeviceIds = {1, 2}
    SwitchIds = {10}
    LinkIds = {100, 101}
    PartitionIds = {1}
    PortIndexes = {0, 1}
    FabricIds = {"synthetic-fabric"}
    Workers = {"w"}
    Boots = {1}
    U64 = 8
    kMaxPortsPerSwitch = 2
    kMaxCandidatePaths = 8
    kMaxPathDepth = 4
    kMaxDevices = 2
    kMaxSwitches = 2
    kMaxPorts = 2
    kMaxLinks = 2
    kMaxPartitions = 1
    kMaxMeasurements = 1
    kMaxHistory = 1
    Callers = {"c"}
    Epochs = {}
    Queries <- AuthQueries
    Policies <- AuthPolicies
    DeviceInputs = {}
    SwitchInputs = {}
    PortInputs = {}
    LinkInputs = {}
    PartitionInputs <- AuthPartitions
    StateInputs = {"UP", "DOWN"}
    RestartGens = {2}
    MeasurementInputs = {}
    CongestionInputs = {}
    BulkEdits <- AuthBulks
    Backends = {}
    NoBackend = NoBackend
    BackendProvenance <- NoFunction
    BackendScans <- NoFunction
    MaxVersion = 4
    MaxDecisions = 1
INVARIANT StalePartitionFailsClosed
CHECK_DEADLOCK FALSE
