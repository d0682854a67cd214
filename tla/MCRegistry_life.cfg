SPECIFICATION RegSpec
CONSTANTS
    DeviceIds = {1}
    SwitchIds = {1, 2}
    LinkIds = {1, 2}
    PartitionIds = {1}
    PortIndexes = {0, 1, 2}
    FabricIds = {"synthetic-fabric"}
    Workers = {"w"}
    Boots = {1}
    U64 = 6
    kMaxPortsPerSwitch = 2
    kMaxCandidatePaths = 8
    kMaxPathDepth = 4
    kMaxDevices = 1
    kMaxSwitches = 2
    kMaxPorts = 2
    kMaxLinks = 2
    kMaxPartitions = 1
    kMaxMeasurements = 1
    kMaxHistory = 1
    Callers = {}
    Epochs = {1}
    Queries = {}
    Policies = {}
    DeviceInputs <- LifeDevices
    SwitchInputs <- LifeSwitches
    PortInputs <- LifePorts
    LinkInputs <- LifeLinks
    PartitionInputs <- LifePartitions
    StateInputs = {"UP", "DOWN"}
    RestartGens = {1, 5}
    MeasurementInputs <- LifeMeasurements
    CongestionInputs <- LifeCongestion
    BulkEdits <- LifeBulks
    Backends = {}
    NoBackend = NoBackend
    BackendProvenance <- NoFunction
    BackendScans <- NoFunction
    MaxVersion = 5
    MaxDecisions = 1
INVARIANTS Integrity CascadesSuffice
PROPERTIES GenerationsMonotone
CHECK_DEADLOCK FALSE
