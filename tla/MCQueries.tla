----------------------------- MODULE MCQueries ------------------------------
(* The synthetic scenarios, whole and with one failure; and a mesh of three *)
(* switches between two devices, with any subset of its links, at most one  *)
(* link or port degraded or down, and switches in any state.                *)
EXTENDS FabricQueries, FabricBackends

Snapshot(scan) ==
    scan @@ [id |-> 1, topologyGen |-> 1, epoch |-> 1, provenance |-> "SYNTHETIC"]

OneFailure(t) ==
    {[t EXCEPT !.switches[s].state = f] : s \in DOMAIN t.switches, f \in {"DOWN", "STALE"}}
    \cup {[t EXCEPT !.ports[p].state = f] : p \in DOMAIN t.ports, f \in {"DOWN", "STALE"}}
    \cup {[t EXCEPT !.links[l].state = f] : l \in DOMAIN t.links, f \in {"DOWN", "STALE"}}
    \cup {[t EXCEPT !.devices[d] = [@ EXCEPT !.state = f[1], !.present = f[2]]] :
             d \in DOMAIN t.devices, f \in {<<"UP", FALSE>>, <<"SUPPORTED", TRUE>>, <<"STALE", TRUE>>}}

WholeFabrics ==
    {Snapshot(buildSyntheticScan(s)) : s \in ScenarioType} \cup {Snapshot(NvidiaScan(2))}

\* As a worker owns them.
Owning(m) == [x \in DOMAIN m |-> [m[x] EXCEPT !.owner = <<"w", 1>>]]
OwnedFabrics ==
    {[t EXCEPT !.devices = Owning(@), !.switches = Owning(@), !.ports = Owning(@),
               !.links = Owning(@), !.partitions = Owning(@)] : t \in WholeFabrics}

SentFabrics == WholeFabrics \cup OwnedFabrics
ScenarioFabrics == SentFabrics \cup UNION {OneFailure(t) : t \in WholeFabrics}

-----------------------------------------------------------------------------

Lnk(port, end) == makeSyntheticLink(port, end)

MeshLinks ==
    (1 :> Lnk(<<1, 0>>, DeviceEnd(1)) @@ 2 :> Lnk(<<2, 0>>, DeviceEnd(1)) @@
     3 :> Lnk(<<2, 1>>, DeviceEnd(2)) @@ 4 :> Lnk(<<3, 1>>, DeviceEnd(2)) @@
     5 :> Lnk(<<1, 2>>, SwitchEnd(2)) @@ 6 :> Lnk(<<2, 2>>, SwitchEnd(1)) @@
     7 :> Lnk(<<1, 3>>, SwitchEnd(3)) @@ 8 :> Lnk(<<2, 3>>, SwitchEnd(3)) @@
     9 :> Lnk(<<2, 3>>, SwitchEnd(3)))

MeshPorts == {MeshLinks[l].port : l \in DOMAIN MeshLinks}

Fabric(links, switchStates) ==
    Snapshot([devices |-> [d \in {1, 2} |-> makeSyntheticDevice("UP")],
              switches |-> [s \in {1, 2, 3} |->
                               [makeSyntheticSwitch(4) EXCEPT !.state = switchStates[s]]],
              ports |-> [p \in MeshPorts |-> makeSyntheticPort],
              links |-> links, partitions |-> EmptyMap])

Subset(S) == [l \in S |-> MeshLinks[l]]
AllUp == [s \in {1, 2, 3} |-> "UP"]

\* A line of two switches with one port down.
PortFabrics ==
    {[Fabric(Subset({1, 3, 5, 6}), AllUp) EXCEPT !.ports[p].state = "DOWN"] : p \in MeshPorts}

\* The same line with one link degraded.
LineFabrics ==
    {Fabric([Subset({1, 3, 5, 6}) EXCEPT ![l].degraded = TRUE], AllUp) : l \in {1, 3, 5}}

\* Three switches, each joined to both devices, each up or down.
StarLinks == [l \in 1 .. 6 |-> IF l <= 3 THEN Lnk(<<l, 0>>, DeviceEnd(1))
                                         ELSE Lnk(<<l - 3, 1>>, DeviceEnd(2))]
StarFabrics ==
    {[Fabric(StarLinks, st) EXCEPT !.ports = [p \in {1, 2, 3} \X {0, 1} |-> makeSyntheticPort]] :
        st \in [{1, 2, 3} -> {"UP", "DOWN"}]}

\* A line inside two partitions that may overlap, hold one device or be stale.
PartitionFabrics ==
    {[Fabric(Subset({1, 3, 5, 6}), AllUp) EXCEPT !.partitions =
        0 :> makeSyntheticPartition(m, {1, 2}, f) @@ 1 :> makeSyntheticPartition(n, {2}, "ACTIVE")] :
            m, n \in SUBSET {1, 2}, f \in {"ACTIVE", "STALE"}}

\* Any links, all switches up; and the full mesh with one link degraded or
\* down and the switches in any of three states.
MeshFabrics ==
    {Fabric(Subset(S), AllUp) : S \in {T \in SUBSET (1 .. 9) : {1, 4} \subseteq T}}
    \cup {Fabric(Subset(S), AllUp) : S \in SUBSET {1, 3, 4, 5, 6, 8}}
    \cup {Fabric([MeshLinks EXCEPT ![l] = [@ EXCEPT !.state = s[1], !.degraded = s[2]]], st) :
             l \in {1, 3, 8}, s \in {<<"DOWN", FALSE>>, <<"DEGRADED", TRUE>>, <<"UP", TRUE>>},
             st \in [{1, 2, 3} -> {"UP", "DOWN", "STALE"}]}
    \cup PortFabrics \cup LineFabrics \cup StarFabrics \cup PartitionFabrics

AllFabrics == ScenarioFabrics \cup MeshFabrics

MCLinkIds == (1 .. 9) \cup (100 .. 350)
MeshEndpoints == {<<1, 2>>, <<1, 3>>, <<2, 2>>}
MeshTraversals ==
    {[maxPaths |-> n, maxDepth |-> d, allowSwitchSwitching |-> TRUE] :
        n \in {1, 2, 3, 8}, d \in {0, 1, 2, 3}}
    \cup {[maxPaths |-> n, maxDepth |-> 2, allowSwitchSwitching |-> FALSE] : n \in {0, 8}}
Factors == <<"FEWER_SWITCHES", "FEWER_HOPS", "DIRECTNESS", "DEGRADATION", "CONGESTION_EVIDENCE">>
Policy(hops) ==
    [insidePartition |-> TRUE, maxAllowedHops |-> hops, requireNonDegradedPath |-> FALSE,
     requiresBandwidth |-> FALSE, factors |-> Factors]
MeshPolicies ==
    {Policy(0), Policy(1), Policy(2), Policy(U64 - 1),
     [Policy(6) EXCEPT !.factors = <<"REDUNDANCY">>, !.requiresBandwidth = TRUE],
     [Policy(6) EXCEPT !.factors = <<"MEASURED_LATENCY", "MEASURED_THROUGHPUT">> \o Factors]}

\* Among them one with more factors than decodePolicy takes.
MCRemote ==
    {[Policy(2) EXCEPT !.insidePartition = i, !.requireNonDegradedPath = n] : i, n \in BOOLEAN}
    \cup {[Policy(2) EXCEPT !.factors = [k \in 1 .. m |-> "FEWER_HOPS"]] : m \in {24, 25}}

\* One measurement counts; the one after it is of an expired run.
OneMeasurement(matched, rate) ==
    [source |-> 1, destination |-> 2, matched |-> matched, kind |-> "SYNTHETIC_FIXTURE",
     throughput |-> rate, latency |-> rate]
MCLogs == {<<>>, <<OneMeasurement(TRUE, 6), OneMeasurement(FALSE, 9)>>}
=============================================================================
