----------------------------- MODULE MCRegistry -----------------------------
(***************************************************************************)
(* Instances of FabricRegistry for TLC, made of the records of the         *)
(* synthetic backend.                                                      *)
(***************************************************************************)
EXTENDS FabricRegistry, FabricBackends

Part(members, switches) ==
    [makeSyntheticPartition(members, switches, "ACTIVE") EXCEPT !.gen = 0]

Owning(m, o) == [x \in DOMAIN m |-> [m[x] EXCEPT !.owner = o]]
Owned(e, o) == [devices |-> Owning(e.devices, o), switches |-> Owning(e.switches, o),
                ports |-> Owning(e.ports, o), links |-> Owning(e.links, o),
                partitions |-> Owning(e.partitions, o)]

-----------------------------------------------------------------------------
(* Life cycle: build a fabric from nothing, take it apart again. *)

LifeBulk == Wired(1 :> 2 @@ 2 :> 2,
                  1 :> addDeviceLink(1, 1, 0) @@ 2 :> [port |-> <<1, 1>>, end |-> SwitchEnd(2)])
LifeDevices == {<<1, makeSyntheticDevice("UP")>>}
LifeSwitches == {<<1, makeSyntheticSwitch(2)>>, <<2, makeSyntheticSwitch(2)>>}
LifePorts == {<<p, makeSyntheticPort>> : p \in {<<1, 0>>, <<1, 1>>, <<1, 2>>}}
LifeLinks == {<<l, LifeBulk.links[l]>> : l \in {1, 2}}
LifePartitions == {<<1, Part({1}, {2})>>}
LifeBulks == {Owned(LifeBulk, <<"w", 1>>)}
NoFunction == [x \in {} |-> {}]
LifeCongestion == {2 :> TRUE}
LifeMeasurements ==
    {[id |-> 0, source |-> 1, destination |-> 1, matched |-> FALSE, kind |-> "SYNTHETIC_FIXTURE",
      throughput |-> 1, latency |-> 1, owner |-> NoOwner]}

-----------------------------------------------------------------------------
(* Authority: one switch between two devices, owned by worker w, inside a   *)
(* partition; route calls race with failures, fencing and revalidation.     *)

AuthBulks ==
    {Owned([buildSyntheticScan("SINGLE_SWITCH_TWO_GPU") EXCEPT
               !.partitions = 1 :> makeSyntheticPartition({1, 2}, {10}, "ACTIVE")],
           <<"w", 1>>)}
AuthPartitions == {<<1, Part({1, 2}, {10})>>, <<1, Part({1}, {})>>}

DefaultPolicy ==
    [insidePartition |-> TRUE, maxAllowedHops |-> 4, requireNonDegradedPath |-> FALSE,
     requiresBandwidth |-> FALSE,
     factors |-> <<"FEWER_SWITCHES", "FEWER_HOPS", "DIRECTNESS", "DEGRADATION",
                   "CONGESTION_EVIDENCE">>]
AuthQueries == {<<1, 2>>}
AuthPolicies == {DefaultPolicy}

-----------------------------------------------------------------------------
(* Scans: the caller scans the bound backend or asks for a route while the   *)
(* switch and the ports fail; one backend is the synthetic one, one is NVML, *)
(* and one was built without it and has nothing to scan.                     *)

ScanBackends == {"synthetic", "nvml", "without nvml"}
ScanProvenance == ("synthetic" :> SyntheticCapabilities @@ "nvml" :> NvidiaCapabilities(TRUE)
                       @@ "without nvml" :> NvidiaCapabilities(FALSE))
ScanResults == ("synthetic" :> SyntheticScans("SINGLE_SWITCH_TWO_GPU")
                    @@ "nvml" :> {NvidiaScan(2)} @@ "without nvml" :> {})
=============================================================================
