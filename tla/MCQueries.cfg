SPECIFICATION QuerySpec
CONSTANTS
    DeviceIds = {1, 2, 3, 4}
    SwitchIds = {1, 2, 3, 10, 11, 12}
    LinkIds <- MCLinkIds
    PartitionIds = {0, 1}
    PortIndexes = {0, 1, 2, 3}
    FabricIds = {"synthetic-fabric"}
    Workers = {"w"}
    Boots = {1}
    U64 = 8
    kMaxDevices = 4
    kMaxSwitches = 3
    kMaxPorts = 12
    kMaxLinks = 18
    kMaxPartitions = 2
    kMaxPortsPerSwitch = 4
    kMaxCandidatePaths = 16
    kMaxPathDepth = 3
    Fabrics <- AllFabrics
    Transfers <- SentFabrics
    Endpoints <- MeshEndpoints
    Traversals <- MeshTraversals
    RoutePolicies <- MeshPolicies
    MeasurementLogs <- MCLogs
    RemotePolicies <- MCRemote
INVARIANTS QueryTypeOK PathsSound TruncationKeepsShortest RouteShortest RedundancySurvives PayloadWholeOrRefused RemoteRouteAgrees ReachabilityHonest HealthyMeansNoFailure
CHECK_DEADLOCK FALSE
