---------------------------- MODULE FabricRoute -----------------------------
(***************************************************************************)
(* Route governance (route.h, route.cpp, path.cpp): computeRoute, a pure   *)
(* function of one snapshot, and routeDecisionStillAuthoritative, which    *)
(* judges an earlier decision against a later snapshot.                    *)
(*                                                                         *)
(* A policy keeps the fields the code reads.  The measurements are those   *)
(* bestFor reads: source, destination, matched, kind and two rates.        *)
(***************************************************************************)
EXTENDS FabricTopology

RouteOutcomes == {"ROUTE_ALLOWED", "ROUTE_ALLOWED_DEGRADED", "NO_ROUTE",
                  "PARTITION_BLOCKED", "SWITCH_DOWN", "PORT_DOWN",
                  "STALE_TOPOLOGY", "STALE_PARTITION", "STALE_SWITCH",
                  "REVALIDATION_REQUIRED", "INSUFFICIENT_EVIDENCE",
                  "POLICY_REJECTED", "UNSUPPORTED"}

Allowed == {"ROUTE_ALLOWED", "ROUTE_ALLOWED_DEGRADED"}

RouteFactor == {"FEWER_SWITCHES", "FEWER_HOPS", "DIRECTNESS", "REDUNDANCY",
                "MEASURED_THROUGHPUT", "MEASURED_LATENCY", "ACTIVE_LINK_COUNT", "DEGRADATION",
                "CONGESTION_EVIDENCE", "FRESHNESS", "CONFIDENCE", "FAILURE_DOMAIN_DIVERSITY",
                "POLICY_PREFERENCE"}

RoutePolicy == [insidePartition : BOOLEAN, maxAllowedHops : 0 .. (U64 - 1),
                requireNonDegradedPath : BOOLEAN, requiresBandwidth : BOOLEAN,
                factors : Seq(RouteFactor)]

NoPartition == -1
NoPath == [hops |-> <<>>, links |-> <<>>, state |-> "UNKNOWN"]

CurrentState(s) == s \in {"UP", "DEGRADED", "PRESENT", "SUPPORTED"}
UsableState(s)  == s \in {"UP", "DEGRADED"}

-----------------------------------------------------------------------------
(* Hard filters. *)

NotStalePort(t, p) == p \in DOMAIN t.ports /\ t.ports[p].state \notin Stale

\* The ports a path names: every exit, and every entry that is known.
PathPorts(path) ==
    {path.hops[i].outPort : i \in DOMAIN path.hops}
        \cup ({path.hops[i].inPort : i \in DOMAIN path.hops} \ {UnknownPort})

PathLinks(path) == {path.links[i] : i \in DOMAIN path.links}

\* Defect: the states of the switches are not looked at.
Eligible_AnySwitch(t, path, policy) ==
    /\ \A p \in PathPorts(path) : NotStalePort(t, p)
    /\ \A l \in PathLinks(path) : t.links[l].state \notin Stale
    /\ policy.requireNonDegradedPath \/ policy.requiresBandwidth => path.state # "DEGRADED"

Eligible(t, path, policy) ==
    /\ \A s \in HopSwitches(path) : s \in DOMAIN t.switches /\ CurrentState(t.switches[s].state)
    /\ \A p \in PathPorts(path) : NotStalePort(t, p)
    /\ \A l \in PathLinks(path) : l \in DOMAIN t.links /\ t.links[l].state \notin Stale
    /\ policy.requireNonDegradedPath \/ policy.requiresBandwidth => path.state # "DEGRADED"

-----------------------------------------------------------------------------
(* Ranking: lower is better, factor by factor, then the canonical key.  The *)
(* measured factors depend on the endpoints only, so they are equal for all *)
(* candidates.                                                              *)

Worst == 1000000000      \* numeric_limits<double>::max()

MatchedMeasurements(measurements, src, dst) ==
    {m \in {measurements[i] : i \in DOMAIN measurements} :
        m.source = src /\ m.destination = dst /\ m.matched /\ m.kind # "UNSUPPORTED"}

BestThroughput(M) == Max({m.throughput : m \in M} \cup {0})
BestLatency(M)    == Min({m.latency : m \in M} \cup {Worst})

\* Half units: an UP link counts 2, any other link 1.
ActiveLinks(t, path) ==
    Len(path.links) + Cardinality({i \in DOMAIN path.links : t.links[path.links[i]].state = "UP"})

FactorValue(f, path, t, M) ==
    CASE f \in {"FEWER_SWITCHES", "FEWER_HOPS", "DIRECTNESS", "FAILURE_DOMAIN_DIVERSITY"}
                                     -> Len(path.hops)
      [] f = "REDUNDANCY"            -> 0 - Len(path.hops)
      [] f = "MEASURED_THROUGHPUT"   -> IF BestThroughput(M) = 0 THEN Worst
                                                                 ELSE 0 - BestThroughput(M)
      [] f = "MEASURED_LATENCY"      -> BestLatency(M)
      [] f = "ACTIVE_LINK_COUNT"     -> 0 - ActiveLinks(t, path)
      [] f = "DEGRADATION"           -> IF path.state = "DEGRADED" THEN 1 ELSE 0
      [] f = "CONGESTION_EVIDENCE"   -> Cardinality({i \in DOMAIN path.links :
                                                     t.links[path.links[i]].degraded})
      [] OTHER                       -> 0      \* FRESHNESS, CONFIDENCE, POLICY_PREFERENCE

\* canonicalKey prints switch, in, out and exit of each hop.  The strings
\* compare like these numbers as long as every id has the same number of
\* digits; a path ends at its first exit to a device, so no key is a proper
\* prefix of another.
CanonicalKey(path) ==
    FlattenSeq([i \in DOMAIN path.hops |->
        LET h == path.hops[i] IN
        << h.sw,
           IF h.inPort = UnknownPort THEN -1 ELSE h.inPort[2],
           h.outPort[2],
           IF h.exit = "device" THEN 0 ELSE 1 >>])

RankKey(path, t, policy, M) ==
    [factors |-> [i \in DOMAIN policy.factors |-> FactorValue(policy.factors[i], path, t, M)],
     path |-> CanonicalKey(path)]

LexLess(a, b) ==
    \E i \in DOMAIN a \cap DOMAIN b :
        a[i] < b[i] /\ \A j \in 1 .. (i - 1) : a[j] = b[j]

RanksBefore(a, b) ==
    \/ LexLess(a.factors, b.factors)
    \/ a.factors = b.factors /\ LexLess(a.path, b.path)

\* stable_sort, then front: of the candidates, the positions cands of raw, the
\* first that no other candidate beats.
BestPath(raw, cands, t, policy, M) ==
    LET key == [i \in cands |-> RankKey(raw[i], t, policy, M)]
    IN  raw[Min({i \in cands : \A j \in cands : ~ RanksBefore(key[j], key[i])})]

-----------------------------------------------------------------------------
(* computeRoute. *)

\* The bounds of the search, in uint64_t arithmetic: maxAllowedHops bounds
\* the number of paths as well as their depth.
\*
\* Defect: the last hop is not searched.
RouteTraversal_OneLess(policy) ==
    [maxPaths |-> Min({(policy.maxAllowedHops + 1) % U64, kMaxCandidatePaths}),
     maxDepth |-> Min({policy.maxAllowedHops, kMaxPathDepth}) - 1,
     allowSwitchSwitching |-> TRUE]

\* Defect: as many paths as hops, with none to spare.
RouteTraversal_NoSpare(policy) ==
    [maxPaths |-> Min({policy.maxAllowedHops, kMaxCandidatePaths}),
     maxDepth |-> Min({policy.maxAllowedHops, kMaxPathDepth}),
     allowSwitchSwitching |-> TRUE]

RouteTraversal(policy) ==
    [maxPaths |-> Min({(policy.maxAllowedHops + 1) % U64, kMaxCandidatePaths}),
     maxDepth |-> Min({policy.maxAllowedHops, kMaxPathDepth}),
     allowSwitchSwitching |-> TRUE]

\* Why no route may even be searched for; "SEARCH" when it may.
GateOutcome(t, src, dst, policy) ==
    LET s == t.devices[src]
        d == t.devices[dst]
        anyStalePartition == \E p \in DOMAIN t.partitions : t.partitions[p].state = "STALE"
    IN  IF ~ {src, dst} \subseteq DOMAIN t.devices THEN "NO_ROUTE"
        ELSE IF ~ s.present \/ ~ d.present \/ src = dst THEN "NO_ROUTE"
        ELSE IF ~ CurrentState(s.state) \/ ~ CurrentState(d.state) THEN "REVALIDATION_REQUIRED"
        ELSE IF /\ CurrentPartitions(t) # {}
                /\ ~ InCurrentPartition(t, {src, dst})
                /\ policy.insidePartition
             THEN (IF anyStalePartition THEN "STALE_PARTITION" ELSE "PARTITION_BLOCKED")
        ELSE "SEARCH"

\* Why the search found no path at all.
\*
\* Defect: the reachability is passed on as it is.
NoPathOutcome_Raw(t, src, dst) == DeviceReachability(t, src, dst)

NoPathOutcome(t, src, dst) ==
    LET r == DeviceReachability(t, src, dst)
    IN  CASE r \in {"PARTITION_BLOCKED", "SWITCH_DOWN", "PORT_DOWN", "REVALIDATION_REQUIRED",
                    "UNSUPPORTED", "INSUFFICIENT_EVIDENCE"} -> r
          [] r = "ENDPOINT_STALE" -> "REVALIDATION_REQUIRED"
          [] OTHER -> "NO_ROUTE"

NoEligibleOutcome(t) ==
    IF \E s \in DOMAIN t.switches : t.switches[s].state \in Stale THEN "STALE_SWITCH" ELSE "NO_ROUTE"

Refused(base, outcome) == [base EXCEPT !.outcome = outcome]

Granted(base, t, path) ==
    [base EXCEPT !.outcome = IF path.state = "DEGRADED" THEN "ROUTE_ALLOWED_DEGRADED"
                                                        ELSE "ROUTE_ALLOWED",
                 !.authoritative = TRUE,
                 !.selected = path,
                 !.switchGens = [s \in HopSwitches(path) |-> t.switches[s].gen],
                 !.portGens = [p \in PathPorts(path) |-> t.ports[p].gen]]

ComputeRoute(t, src, dst, policy, measurements, id, ep) ==
    LET plain == [id |-> id, epoch |-> ep, source |-> src, destination |-> dst,
                  snapshotId |-> t.id, topologyGen |-> t.topologyGen,
                  partition |-> NoPartition, partitionGen |-> 0,
                  outcome |-> "NO_ROUTE", authoritative |-> FALSE, selected |-> NoPath,
                  switchGens |-> EmptyMap, portGens |-> EmptyMap]
        gate == GateOutcome(t, src, dst, policy)
        base == IF gate = "SEARCH" /\ InCurrentPartition(t, {src, dst})
                  THEN LET p == LastPartition(t, {src, dst})
                       IN  [plain EXCEPT !.partition = p, !.partitionGen = t.partitions[p].gen]
                  ELSE plain
        raw == EnumeratePaths(t, src, dst, RouteTraversal(policy))
        cands == {i \in DOMAIN raw : Eligible(t, raw[i], policy)}
        M == MatchedMeasurements(measurements, src, dst)
    IN  IF gate # "SEARCH" THEN Refused(base, gate)
        ELSE IF raw = <<>> THEN Refused(base, NoPathOutcome(t, src, dst))
        ELSE IF cands = {} THEN Refused(base, NoEligibleOutcome(t))
        ELSE Granted(base, t, BestPath(raw, cands, t, policy, M))

-----------------------------------------------------------------------------
(* routeDecisionStillAuthoritative.  The links of the path are not looked at. *)

EndpointUsable(t, dev) ==
    /\ dev \in DOMAIN t.devices
    /\ UsableState(t.devices[dev].state) \/ t.devices[dev].state = "PRESENT"

PartitionUnchanged(t, d) ==
    d.partition # NoPartition =>
        /\ d.partition \in DOMAIN t.partitions
        /\ t.partitions[d.partition].state \notin Stale
        /\ t.partitions[d.partition].gen = d.partitionGen

\* Defect: the generation is not compared.
SwitchesUnchanged_StateOnly(t, d) ==
    \A s \in DOMAIN d.switchGens :
        s \in DOMAIN t.switches /\ UsableState(t.switches[s].state)

SwitchesUnchanged(t, d) ==
    \A s \in DOMAIN d.switchGens :
        /\ s \in DOMAIN t.switches
        /\ UsableState(t.switches[s].state)
        /\ t.switches[s].gen = d.switchGens[s]

PortsUnchanged(t, d) ==
    \A p \in DOMAIN d.portGens :
        /\ p \in DOMAIN t.ports
        /\ UsableState(t.ports[p].state)
        /\ t.ports[p].gen = d.portGens[p]

StillAuthoritative(d, t) ==
    /\ d.outcome \in Allowed
    /\ d.epoch = t.epoch
    /\ EndpointUsable(t, d.source)
    /\ EndpointUsable(t, d.destination)
    /\ PartitionUnchanged(t, d)
    /\ SwitchesUnchanged(t, d)
    /\ PortsUnchanged(t, d)
=============================================================================
