--------------------------- MODULE FabricBackends ---------------------------
(***************************************************************************)
(* What the two backends observe (synthetic_backend.cpp,                   *)
(* nvidia_backend.cpp): the scans of the synthetic scenarios, which the    *)
(* workers publish too, and those of the NVML backend, which sees devices  *)
(* and never a switch.  A scan is a set of records per id: applyBulk keeps *)
(* the last record pushed for an id, and the records DENSE_MULTI_SWITCH    *)
(* pushes more than once differ only in what a port is attached to, a      *)
(* field nothing reads.                                                    *)
(***************************************************************************)
EXTENDS FabricTopology

SyntheticRecord(fields) == fields @@ [owner |-> NoOwner, provenance |-> "SYNTHETIC"]

makeSyntheticDevice(state) ==
    SyntheticRecord([present |-> state \in {"UP", "PRESENT", "DEGRADED"}, state |-> state])

makeSyntheticSwitch(portCount) ==
    SyntheticRecord([gen |-> 1, portCount |-> portCount, state |-> "UP"])

makeSyntheticPort == SyntheticRecord([gen |-> 1, state |-> "UP"])

makeSyntheticLink(port, other) ==
    SyntheticRecord([gen |-> 1, rootSwitch |-> port[1], port |-> port, otherEnd |-> other,
                     state |-> "UP", degraded |-> FALSE])

makeSyntheticPartition(members, switches, state) ==
    SyntheticRecord([gen |-> 1, fabric |-> "synthetic-fabric", members |-> members,
                     switches |-> switches, state |-> state])

-----------------------------------------------------------------------------
(* Scenarios: the port count of each switch and, for each link, the port it *)
(* is rooted at and the end it leads to.                                    *)

addDeviceLink(d, sw, index) == [port |-> <<sw, index>>, end |-> DeviceEnd(d)]

\* Both halves of a link between two switches.
mesh(x, y, px, py, link) ==
    link :> [port |-> <<x, px>>, end |-> SwitchEnd(y)]
        @@ (link + 1) :> [port |-> <<y, py>>, end |-> SwitchEnd(x)]

Wired(portCounts, wires) ==
    LET ends == {wires[l].end : l \in DOMAIN wires}
    IN  [devices    |-> [d \in {e.id : e \in {f \in ends : f.kind = "Device"}} |->
                            makeSyntheticDevice("UP")],
         switches   |-> [s \in DOMAIN portCounts |-> makeSyntheticSwitch(portCounts[s])],
         ports      |-> [p \in {wires[l].port : l \in DOMAIN wires} |-> makeSyntheticPort],
         links      |-> [l \in DOMAIN wires |-> makeSyntheticLink(wires[l].port, wires[l].end)],
         partitions |-> EmptyMap]

\* Devices 1 to 4 on ports 0 to 3 of sw, over links link to link + 3.
FourDevices(sw, link) ==
    [l \in link .. (link + 3) |-> addDeviceLink(l - link + 1, sw, l - link)]

\* Port 1 of switch 10 and its link are degraded.
DegradedPort(scan) ==
    [scan EXCEPT !.ports[<<10, 1>>].state = "DEGRADED", !.links[101].state = "DEGRADED",
                 !.links[101].degraded = TRUE]

TwoGpus == 100 :> addDeviceLink(1, 10, 0) @@ 101 :> addDeviceLink(2, 10, 1)

ScenarioType ==
    {"EMPTY", "SINGLE_SWITCH_TWO_GPU", "SINGLE_SWITCH_MANY_GPU", "TWO_SWITCH_REDUNDANT",
     "TWO_SWITCH_LINEAR", "DENSE_MULTI_SWITCH", "PARTITION_SPLIT", "DEGRADED_PORT",
     "PARALLEL_LINKS"}

buildSyntheticScan(type) ==
    CASE type = "EMPTY" -> Wired(EmptyMap, EmptyMap)
      [] type = "SINGLE_SWITCH_TWO_GPU" -> Wired(10 :> 2, TwoGpus)
      [] type = "SINGLE_SWITCH_MANY_GPU" -> Wired(10 :> 4, FourDevices(10, 100))
      [] type = "TWO_SWITCH_REDUNDANT" ->
            Wired(10 :> 3 @@ 11 :> 3,
                  100 :> addDeviceLink(1, 10, 0) @@ 101 :> addDeviceLink(1, 11, 0)
                      @@ 102 :> addDeviceLink(2, 10, 1) @@ 103 :> addDeviceLink(2, 11, 1)
                      @@ mesh(10, 11, 2, 2, 120))
      [] type = "TWO_SWITCH_LINEAR" ->
            Wired(10 :> 2 @@ 11 :> 2,
                  100 :> addDeviceLink(1, 10, 0) @@ 101 :> addDeviceLink(2, 11, 0)
                      @@ mesh(10, 11, 1, 1, 120))
      [] type = "DENSE_MULTI_SWITCH" ->
            Wired(10 :> 4 @@ 11 :> 4 @@ 12 :> 4,
                  FourDevices(10, 200) @@ FourDevices(11, 210) @@ FourDevices(12, 220)
                      @@ mesh(10, 11, 0, 0, 300) @@ mesh(10, 12, 1, 0, 320)
                      @@ mesh(11, 12, 1, 1, 340))
      [] type = "PARTITION_SPLIT" ->
            [Wired(10 :> 4, FourDevices(10, 100)) EXCEPT !.partitions =
                0 :> makeSyntheticPartition({1, 2}, {10}, "ACTIVE")
                    @@ 1 :> makeSyntheticPartition({3, 4}, {10}, "ACTIVE")]
      [] type = "DEGRADED_PORT" -> DegradedPort(Wired(10 :> 2, TwoGpus))
      [] type = "PARALLEL_LINKS" ->
            Wired(10 :> 3, TwoGpus @@ 102 :> addDeviceLink(2, 10, 2))

\* SyntheticBackend: the scan is built by initialize, and empty before it.
SyntheticScans(type) == {buildSyntheticScan("EMPTY"), buildSyntheticScan(type)}

\* NvidiaBackend: deviceCount devices, counted by initialize.
NvidiaScan(deviceCount) ==
    [devices  |-> [d \in 1 .. deviceCount |->
                      [present |-> TRUE, state |-> "PRESENT", owner |-> NoOwner,
                       provenance |-> "REAL"]],
     switches |-> EmptyMap, ports |-> EmptyMap, links |-> EmptyMap, partitions |-> EmptyMap]

\* capabilities(): the NVML backend has something to scan only in a build with
\* NVML.
SyntheticCapabilities == "SYNTHETIC"
NvidiaCapabilities(haveNvml) == IF haveNvml THEN "REAL" ELSE "UNSUPPORTED"
=============================================================================
