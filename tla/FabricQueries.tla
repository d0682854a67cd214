--------------------------- MODULE FabricQueries ----------------------------
(***************************************************************************)
(* Path, reachability, health and route queries against any snapshot of a  *)
(* family of fabrics, compared with the set of walks over the links instead *)
(* of a search for them, and the transfer of the snapshot through its      *)
(* payload.  A behaviour is one snapshot and one query.                    *)
(***************************************************************************)
EXTENDS RouteCodec, TopologyCodec

CONSTANTS Fabrics,       \* the snapshots queried
          Transfers,     \* those of them that are encoded and decoded
          Endpoints,     \* the <<source, destination>> pairs
          Traversals,    \* arguments of enumeratePaths
          RoutePolicies, \* arguments of computeRoute:
          MeasurementLogs,
          RemotePolicies \* policies a worker asks the coordinator with

ASSUME FabricAssumption ==
    /\ \A t \in Fabrics : IsTopology(t) /\ CheckIntegrity(t) /\ IsFiniteSet(DOMAIN t.partitions)
    /\ Transfers \subseteq Fabrics

\* What is encoded was published within the registry's limits.
ASSUME TransferAssumption ==
    \A kind \in DOMAIN MapLimit :
        /\ MapLimit[kind] \in Nat
        /\ \A t \in Transfers : Cardinality(DOMAIN t[kind]) <= MapLimit[kind]

ASSUME ArgumentAssumption ==
    /\ \A cfg \in Traversals : cfg.maxPaths \in Nat /\ cfg.maxDepth \in Nat
    /\ RoutePolicies \cup RemotePolicies \subseteq RoutePolicy
    /\ \A log \in MeasurementLogs :
          /\ Len(log) \in Nat /\ DOMAIN log = 1 .. Len(log)
          /\ \A i \in DOMAIN log : log[i].throughput \in Nat /\ log[i].latency \in Nat

VARIABLES topo,          \* the snapshot
          query,         \* the last query, with its arguments
          answer         \* what it returned

queryVars == <<topo, query, answer>>

Nothing == [kind |-> "none"]

QueryInit == topo \in Fabrics /\ query = Nothing /\ answer = <<>>

\* FabricRegistry::paths.
AskPaths(e, cfg) ==
    /\ query' = [kind |-> "paths", pair |-> e, traversal |-> cfg]
    /\ answer' = EnumeratePaths(topo, e[1], e[2], cfg)

\* FabricRegistry::reachability.
AskReachability(e) ==
    /\ query' = [kind |-> "reachability", pair |-> e]
    /\ answer' = DeviceReachability(topo, e[1], e[2])

\* FabricRegistry::health.
AskHealth ==
    /\ query' = [kind |-> "health"]
    /\ answer' = FabricHealth(topo)

\* computeRoute.
AskRoute(e, pol, log) ==
    /\ query' = [kind |-> "route", pair |-> e, policy |-> pol]
    /\ answer' = ComputeRoute(topo, e[1], e[2], pol, log, 1, topo.epoch)

\* Persistence::encodeTopology and decodeTopology.  Of the payload the first n
\* fields arrive, or all of them and one more.
Payload == encodeTopologyPayload(topo)

Received(n) == IF n > Len(Payload) THEN Append(Payload, 0) ELSE SubSeq(Payload, 1, n)

AskDecode(n) ==
    /\ query' = [kind |-> "decode", fields |-> n]
    /\ answer' = decodeTopologyPayload(Received(n))

\* Worker::queryRoute, and the coordinator's part of it.  A policy that is not
\* accepted gets no answer.
Silence == [answered |-> FALSE]

AskRemote(e, pol) ==
    LET received == decodePolicy(encodePolicyLite(pol))
    IN  /\ query' = [kind |-> "remote", pair |-> e, policy |-> pol]
        /\ answer' = IF received = PolicyRefused THEN Silence
                     ELSE AnswerRead(encodeDecision(ComputeRoute(topo, e[1], e[2], received, <<>>, 1, topo.epoch)),
                                     e[1], e[2])

QueryNext ==
    /\ query = Nothing
    /\ UNCHANGED topo
    /\ \/ \E e \in Endpoints, cfg \in Traversals : AskPaths(e, cfg)
       \/ \E e \in Endpoints : AskReachability(e)
       \/ \E e \in Endpoints, pol \in RoutePolicies, log \in MeasurementLogs : AskRoute(e, pol, log)
       \/ AskHealth
       \/ topo \in Transfers /\ \E e \in Endpoints, pol \in RemotePolicies : AskRemote(e, pol)
       \/ topo \in Transfers /\ \E n \in 0 .. (Len(Payload) + 1) : AskDecode(n)

QuerySpec == QueryInit /\ [][QueryNext]_queryVars

-----------------------------------------------------------------------------
(* Reference: the walks over distinct switches, as a set. *)

src == query.pair[1]
dst == query.pair[2]

Joining(s, far) ==
    {l \in DOMAIN topo.links : /\ topo.links[l].rootSwitch = s
                               /\ topo.links[l].otherEnd = far
                               /\ EdgeUsable(topo, l)}

Into(far) == UNION {Joining(s, far) : s \in DOMAIN topo.switches}
Trunks == UNION {Into(SwitchEnd(s)) : s \in DOMAIN topo.switches}

\* A walk is the link it starts with, those between switches, and the last one.
\* It passes these switches.
Passed(w) ==
    [i \in 1 .. (Len(w[2]) + 1) |-> IF i = 1 THEN topo.links[w[1]].rootSwitch
                                             ELSE topo.links[w[2][i - 1]].otherEnd.id]
WalkLinks(w) == {w[1], w[3]} \cup {w[2][i] : i \in DOMAIN w[2]}

\* The walks from src to dst over n different switches.
Walks(n) ==
    {w \in Into(DeviceEnd(src)) \X [1 .. (n - 1) -> Trunks] \X Into(DeviceEnd(dst)) :
        /\ IsInjective(Passed(w))
        /\ \A i \in 1 .. (n - 1) : topo.links[w[2][i]].rootSwitch = Passed(w)[i]
        /\ topo.links[w[3]].rootSwitch = Passed(w)[n]}

Fit(d) == d \in DOMAIN topo.devices /\ topo.devices[d].state \in {"UP", "PRESENT", "DEGRADED"}

WalksUpTo(n) ==
    {w \in UNION {Walks(k) : k \in 1 .. n} : src # dst /\ Fit(src) /\ Fit(dst)}

Lesser(a, b) == IF a < b THEN a ELSE b

\* Type correctness; whatever stops a route, the outcome computeRoute reports
\* is a RouteOutcome, also where it passes on a Reachability.
QueryTypeOK ==
    /\ topo \in Fabrics
    /\ query.kind \in {"paths", "reachability", "route", "remote"} => query.pair \in Endpoints
    /\ query.kind = "route" => answer.outcome \in RouteOutcomes

\* Every enumerated path leads from source to destination over usable links
\* and distinct switches, no path is returned twice, and shorter paths come
\* before longer ones (enumeratePaths: simple paths, FIFO frontier).
PathOK(p) ==
    /\ Len(p.links) = Len(p.hops) + 1
    /\ p.links[1] \in Joining(p.hops[1].sw, DeviceEnd(src))
    /\ \A i \in DOMAIN p.hops :
          LET far == IF i = Len(p.hops) THEN DeviceEnd(dst) ELSE SwitchEnd(p.hops[i + 1].sw)
          IN  /\ p.links[i + 1] \in Joining(p.hops[i].sw, far)
              /\ p.hops[i].outPort = topo.links[p.links[i + 1]].port
    /\ Cardinality(HopSwitches(p)) = Len(p.hops)

PathsSound ==
    query.kind = "paths" =>
        /\ \A k \in DOMAIN answer : PathOK(answer[k])
        /\ \A j, k \in DOMAIN answer : j < k =>
              /\ answer[j].links # answer[k].links
              /\ Len(answer[j].hops) <= Len(answer[k].hops)

\* The bounds cut off the longest paths only: for every length n within the
\* depth bound, the paths returned with at most n switches are all there are,
\* or as many as maxPaths leaves room for.
TruncationKeepsShortest ==
    query.kind = "paths" =>
        \A n \in 1 .. query.traversal.maxDepth :
            n = 1 \/ query.traversal.allowSwitchSwitching =>
                Cardinality({k \in DOMAIN answer : Len(answer[k].hops) <= n})
                    = Lesser(query.traversal.maxPaths, Cardinality(WalksUpTo(n)))

-----------------------------------------------------------------------------
(* Reference for routes. *)

\* The policy refuses degraded links.
Strict(pol) == pol.requireNonDegradedPath \/ pol.requiresBandwidth

\* A walk over switches that are current; one clear of degraded links.
Live(w) == \A i \in DOMAIN Passed(w) : CurrentState(topo.switches[Passed(w)[i]].state)
Clear(w) == \A l \in WalkLinks(w) : ~ topo.links[l].degraded

Routable(w, pol) == Live(w) /\ (Strict(pol) => Clear(w))

RoutableWithin(n, pol) == \E w \in WalksUpTo(n) : Routable(w, pol)

NoStalePorts == \A p \in DOMAIN topo.ports : topo.ports[p].state \notin Stale

Depth(pol) == Lesser(pol.maxAllowedHops, kMaxPathDepth)

\* The number of paths looked at; the largest uint64_t plus one is 0.
Bound(pol) ==
    IF pol.maxAllowedHops = U64 - 1 THEN 0 ELSE Lesser(pol.maxAllowedHops + 1, kMaxCandidatePaths)

\* Some partition keeps the devices apart: each is in one and none has both.
Inside(d) == {p \in CurrentPartitions(topo) : d \in topo.partitions[p].members}
Split == Inside(src) # {} /\ Inside(dst) # {} /\ Inside(src) \cap Inside(dst) = {}

\* The endpoints are there, and the policy does not ask for a partition they lack.
Permitted(pol) ==
    /\ topo.devices[src].present /\ topo.devices[dst].present
    /\ pol.insidePartition /\ CurrentPartitions(topo) # {} => Inside(src) \cap Inside(dst) # {}

\* The first factor that tells paths of a pair apart counts switches.
HopsFirst(pol) ==
    \E i \in DOMAIN pol.factors :
        /\ pol.factors[i] \in {"FEWER_SWITCHES", "FEWER_HOPS", "DIRECTNESS", "FAILURE_DOMAIN_DIVERSITY"}
        /\ \A j \in 1 .. (i - 1) : pol.factors[j] \in {"MEASURED_THROUGHPUT", "MEASURED_LATENCY",
                                                      "FRESHNESS", "CONFIDENCE", "POLICY_PREFERENCE"}

\* When the path bound is not reached, a route is granted if and only if some
\* walk over current switches suits the policy and no partition forbids it, and
\* it is as short as any if the policy ranks by length first: filtering and
\* ranking lose nothing.  A caller that allows the largest number of hops gets
\* no route.
RouteShortest ==
    query.kind = "route" =>
        LET pol == query.policy
        IN  /\ pol.maxAllowedHops = U64 - 1 => answer.outcome \notin Allowed
            /\ Cardinality(WalksUpTo(Depth(pol))) <= Bound(pol) /\ NoStalePorts =>
                  /\ answer.outcome \in Allowed
                        <=> RoutableWithin(Depth(pol), pol) /\ Permitted(pol)
                  /\ answer.outcome \in Allowed /\ HopsFirst(pol) =>
                        \A n \in 1 .. Depth(pol) :
                            RoutableWithin(n, pol) => Len(answer.selected.hops) <= n

NotUp(m) == {x \in DOMAIN m : m[x].state # "UP"}

Failures ==
    Cardinality(NotUp(topo.switches)) + Cardinality(NotUp(topo.ports)) + Cardinality(NotUp(topo.links))

LinksBetween(s, d) ==
    {l \in DOMAIN topo.links : topo.links[l].rootSwitch = s /\ topo.links[l].otherEnd = DeviceEnd(d)}

\* Each of two switches joins src and dst, and no switch does so twice.
Redundant ==
    /\ \A s \in DOMAIN topo.switches, d \in {src, dst} : Cardinality(LinksBetween(s, d)) <= 1
    /\ \E r, s \in DOMAIN topo.switches :
          r # s /\ \A w \in {r, s}, d \in {src, dst} : LinksBetween(w, d) # {}

\* Redundancy is worth something: when two switches join a pair of devices, no
\* single switch, port or link that fails or goes stale costs the pair its
\* direct route, although the search is cut off at maxAllowedHops + 1 paths
\* before any of them is filtered.  Parallel links would use that bound up.
RedundancySurvives ==
    query.kind = "route" =>
        LET pol == query.policy
        IN  (/\ pol.maxAllowedHops \in 1 .. (U64 - 2) /\ ~ Strict(pol) /\ HopsFirst(pol)
             /\ src # dst /\ Fit(src) /\ Fit(dst) /\ Permitted(pol)
             /\ Redundant /\ Failures <= 1)
                => answer.outcome \in Allowed /\ Len(answer.selected.hops) = 1

\* A snapshot comes out of its payload as it went in, and a payload that is
\* cut short or has something left over is refused, wherever it is cut: a
\* worker's topology and the state file arrive whole or not at all.
PayloadWholeOrRefused ==
    query.kind = "decode" =>
        answer = IF query.fields = Len(Payload) THEN topo ELSE IntegrityFailure

\* A worker is told what computeRoute decides for the policy it asked with, and
\* of an authoritative route only when one was selected; the coordinator leaves
\* it without an answer only when the policy has too many factors.
RemoteRouteAgrees ==
    query.kind = "remote" =>
        IF Len(query.policy.factors) > 24 THEN answer = Silence
        ELSE /\ answer.outcome = ComputeRoute(topo, src, dst, query.policy, <<>>, 1, topo.epoch).outcome
             /\ answer.authoritative <=> answer.outcome \in Allowed
             /\ answer.selected <=> answer.outcome \in Allowed

Reached == answer \in {"REACHABLE", "REACHABLE_DEGRADED"}

\* Neither presence nor partitions speak against the pair.
Undisputed ==
    topo.devices[src].present /\ topo.devices[dst].present /\ Inside(src) = Inside(dst)

\* Reachability tells a degraded fabric from a healthy one and from a broken
\* one: two devices are reachable only over a walk and not across partitions,
\* and present devices of the same partitions, or of none, are whenever a walk
\* passes only current switches; REACHABLE means a walk clear of degraded links,
\* REACHABLE_DEGRADED that none over current switches is clear, unless there
\* are more walks than the search looks at.  What it says of a pair that
\* disagrees about its partitions, is not present or is joined by a switch that
\* is not current is left open here: see the end of the module, and the README.
ReachabilityHonest ==
    query.kind = "reachability" /\ src # dst =>
        LET walks == WalksUpTo(kMaxPathDepth)
        IN  /\ Reached => walks # {} /\ ~ Split
            /\ (\E w \in walks : Live(w)) /\ Undisputed => Reached
            /\ answer = "REACHABLE" => \E w \in walks : Clear(w)
            /\ answer = "REACHABLE_DEGRADED" =>
                  /\ \E w \in walks : ~ Clear(w)
                  /\ Cardinality(walks) <= kMaxCandidatePaths => \A w \in walks : Live(w) => ~ Clear(w)

\* A fabric that calls itself healthy, or merely degraded, has no pair of
\* devices cut off by a switch, a port or an endpoint that failed or went
\* stale: fabricHealth and deviceReachability judge the same states.
HealthyMeansNoFailure ==
    query.kind = "health" /\ answer \in {"HEALTHY", "DEGRADED"} =>
        \A e \in Endpoints :
            DeviceReachability(topo, e[1], e[2])
                \notin {"SWITCH_DOWN", "PORT_DOWN", "ENDPOINT_STALE"}

-----------------------------------------------------------------------------
(* What a comment says and the code does not do. *)

\* A device of a current partition reaches only devices that share one with it:
\* "if there is an active partition containing src, dst must be a member of the
\* same partition, otherwise blocked" (deviceReachability).
PartitionGatesReachability ==
    query.kind = "reachability" /\ src # dst /\ Inside(src) # {} /\ Reached =>
        Inside(src) \cap Inside(dst) # {}
=============================================================================
