------------------------ MODULE FabricQueries_proofs ------------------------
(***************************************************************************)
(* Proofs about the answers of the query functions, for every fabric and   *)
(* every query.  FabricRoute_proofs has the facts about the search and the *)
(* ranking they rest on.                                                   *)
(*                                                                         *)
(* The second part compares the search with the walks over the links of    *)
(* the fabric: a path takes one walk, two paths take two, and every walk   *)
(* is taken (PathsAreWalks, WalkFound), so the list of paths is as long as *)
(* there are walks or as its bound allows, and holds the shortest          *)
(* (EnumeratedComplete).  Reachability, routes and redundancy follow.      *)
(*                                                                         *)
(* The third part follows a snapshot through its payload: each record,     *)
(* then each map and then the whole is read back, or has not all arrived   *)
(* (DeviceReadsBack and its like, MapRead, PayloadReads).                  *)
(***************************************************************************)
EXTENDS FabricQueries, FabricRoute_proofs

\* deviceReachability judges the states of the endpoints before it searches,
\* and blames a switch or a port only for a state that fabricHealth reports.
LEMMA BlamedStates ==
    ASSUME NEW t, NEW s, NEW d
    PROVE  /\ DeviceReachability(t, s, d) = "SWITCH_DOWN" =>
                 \E w \in DOMAIN t.switches : t.switches[w].state \in Lost \cup Stale
           /\ DeviceReachability(t, s, d) = "PORT_DOWN" =>
                 \E p \in DOMAIN t.ports :
                    t.ports[p].state \in {"DOWN", "UNREACHABLE", "DISABLED"} \cup Stale
           /\ DeviceReachability(t, s, d) = "ENDPOINT_STALE" =>
                 \E x \in DOMAIN t.devices : t.devices[x].state \in Stale
  <1> DEFINE paths == EnumeratePaths(t, s, d, DefaultTraversal)
             blocked == /\ InCurrentPartition(t, {s}) /\ InCurrentPartition(t, {d})
                        /\ LastPartition(t, {s}) # LastPartition(t, {d})
             anySwitchDown == \E w \in DOMAIN t.switches : t.switches[w].state \in Lost \cup Stale
             anyPortDown == \E p \in DOMAIN t.ports :
                    t.ports[p].state \in {"DOWN", "UNREACHABLE", "DISABLED"} \cup Stale
             up == \E i \in DOMAIN paths : paths[i].state = "UP"
             sState == t.devices[s].state
             dState == t.devices[d].state
             r == DeviceReachability(t, s, d)
  <1>1. r = IF ~ {s, d} \subseteq DOMAIN t.devices THEN "INSUFFICIENT_EVIDENCE"
            ELSE IF s = d THEN "REACHABLE"
            ELSE IF sState \in Stale \/ dState \in Stale THEN "ENDPOINT_STALE"
            ELSE IF "UNSUPPORTED" \in {sState, dState} THEN "UNSUPPORTED"
            ELSE IF sState \in Lost \/ dState \in Lost THEN "UNREACHABLE"
            ELSE IF blocked THEN "PARTITION_BLOCKED"
            ELSE IF paths = <<>> THEN (IF anySwitchDown THEN "SWITCH_DOWN"
                                       ELSE IF anyPortDown THEN "PORT_DOWN"
                                       ELSE "UNREACHABLE")
            ELSE IF up THEN "REACHABLE"
            ELSE "REACHABLE_DEGRADED"
    BY Zenon DEF DeviceReachability
  <1> HIDE DEF paths, blocked, anySwitchDown, anyPortDown, up, r
  <1>2. /\ r = "SWITCH_DOWN" => anySwitchDown
        /\ r = "PORT_DOWN" => anyPortDown
        /\ r = "ENDPOINT_STALE" => \E x \in DOMAIN t.devices : t.devices[x].state \in Stale
    BY <1>1
  <1>3. QED  BY <1>2 DEF r, anySwitchDown, anyPortDown

\* A healthy or merely degraded fabric has no lost or stale switch, port or
\* device.
LEMMA HealthyStates ==
    ASSUME NEW t, FabricHealth(t) \in {"HEALTHY", "DEGRADED"}
    PROVE  /\ \A w \in DOMAIN t.switches : t.switches[w].state \notin Lost \cup Stale
           /\ \A p \in DOMAIN t.ports :
                 t.ports[p].state \notin {"DOWN", "UNREACHABLE", "DISABLED"} \cup Stale
           /\ \A x \in DOMAIN t.devices : t.devices[x].state \notin Lost \cup Stale
  BY DEF FabricHealth, PortFailed

\* Whatever stops computeRoute, it reports a RouteOutcome.
LEMMA OutcomeTyped ==
    ASSUME NEW t, NEW s, NEW d, NEW pol, NEW log, NEW id, NEW ep
    PROVE  ComputeRoute(t, s, d, pol, log, id, ep).outcome \in RouteOutcomes
  <1>1. GateOutcome(t, s, d, pol) \in RouteOutcomes \cup {"SEARCH"}
    BY DEF GateOutcome, RouteOutcomes
  <1>2. NoPathOutcome(t, s, d) \in RouteOutcomes
    BY DEF NoPathOutcome, RouteOutcomes
  <1>3. NoEligibleOutcome(t) \in RouteOutcomes
    BY DEF NoEligibleOutcome, RouteOutcomes
  <1>4. {"ROUTE_ALLOWED", "ROUTE_ALLOWED_DEGRADED"} \subseteq RouteOutcomes  BY DEF RouteOutcomes
  <1>5. QED  BY <1>1, <1>2, <1>3, <1>4 DEF ComputeRoute, Refused, Granted

-----------------------------------------------------------------------------

\* The queries and their outcomes keep their types: no Reachability leaves
\* computeRoute unconverted, on any fabric and for any policy.
THEOREM QueryTypeCorrect == QuerySpec => []QueryTypeOK
  <1>1. QueryInit => QueryTypeOK  BY DEF QueryInit, Nothing, QueryTypeOK
  <1>2. QueryTypeOK /\ [QueryNext]_queryVars => QueryTypeOK'
    <2> SUFFICES ASSUME QueryTypeOK, [QueryNext]_queryVars  PROVE QueryTypeOK'  OBVIOUS
    <2>1. ASSUME UNCHANGED topo, NEW e \in Endpoints, NEW cfg, AskPaths(e, cfg)
          PROVE  QueryTypeOK'
      BY <2>1 DEF QueryTypeOK, AskPaths
    <2>2. ASSUME UNCHANGED topo, NEW e \in Endpoints, AskReachability(e)  PROVE QueryTypeOK'
      BY <2>2 DEF QueryTypeOK, AskReachability
    <2>3. ASSUME UNCHANGED topo, NEW e \in Endpoints, NEW pol, NEW log, AskRoute(e, pol, log)
          PROVE  QueryTypeOK'
      BY <2>3, OutcomeTyped DEF QueryTypeOK, AskRoute
    <2>4. ASSUME UNCHANGED topo, AskHealth  PROVE QueryTypeOK'
      BY <2>4 DEF QueryTypeOK, AskHealth
    <2>5. ASSUME UNCHANGED topo, NEW e \in Endpoints, NEW pol, AskRemote(e, pol)
          PROVE  QueryTypeOK'
      BY <2>5 DEF QueryTypeOK, AskRemote
    <2>6. ASSUME UNCHANGED topo, NEW n, AskDecode(n)  PROVE QueryTypeOK'
      BY <2>6 DEF QueryTypeOK, AskDecode
    <2>7. CASE UNCHANGED queryVars
      BY <2>7 DEF QueryTypeOK, queryVars
    <2>8. QED  BY <2>1, <2>2, <2>3, <2>4, <2>5, <2>6, <2>7 DEF QueryNext
  <1>3. QED  BY <1>1, <1>2, PTL DEF QuerySpec

-----------------------------------------------------------------------------

\* The last answer is what the function returned for the arguments of the last
\* query.
Remote(t, e, pol) ==
    LET received == decodePolicy(encodePolicyLite(pol))
    IN  IF received = PolicyRefused THEN Silence
        ELSE AnswerRead(encodeDecision(ComputeRoute(t, e[1], e[2], received, <<>>, 1, t.epoch)),
                        e[1], e[2])

\* What decodeTopologyPayload makes of the first n fields of a payload.
Arrived(t, n) ==
    LET p == encodeTopologyPayload(t)
    IN  decodeTopologyPayload(IF n > Len(p) THEN Append(p, 0) ELSE SubSeq(p, 1, n))

AnswerInv ==
    /\ topo \in Fabrics
    /\ query.kind = "paths" =>
          query.traversal \in Traversals /\ answer = EnumeratePaths(topo, src, dst, query.traversal)
    /\ query.kind = "reachability" => answer = DeviceReachability(topo, src, dst)
    /\ query.kind = "route" =>
          /\ query.policy \in RoutePolicies
          /\ \E log \in MeasurementLogs :
                answer = ComputeRoute(topo, src, dst, query.policy, log, 1, topo.epoch)
    /\ query.kind = "remote" =>
          query.policy \in RemotePolicies /\ answer = Remote(topo, query.pair, query.policy)
    /\ query.kind = "health" => answer = FabricHealth(topo)
    /\ query.kind = "decode" =>
          /\ topo \in Transfers /\ query.fields \in 0 .. (Len(encodeTopologyPayload(topo)) + 1)
          /\ answer = Arrived(topo, query.fields)

LEMMA AnswersInvariant == QuerySpec => []AnswerInv
  <1>1. QueryInit => AnswerInv  BY DEF QueryInit, Nothing, AnswerInv
  <1>2. AnswerInv /\ [QueryNext]_queryVars => AnswerInv'
    <2> SUFFICES ASSUME AnswerInv, [QueryNext]_queryVars  PROVE AnswerInv'  OBVIOUS
    <2>1. topo \in Fabrics  BY DEF AnswerInv
    <2>2. ASSUME UNCHANGED topo, NEW e \in Endpoints, NEW cfg \in Traversals, AskPaths(e, cfg)
          PROVE  AnswerInv'
      BY <2>1, <2>2 DEF AnswerInv, AskPaths, src, dst
    <2>3. ASSUME UNCHANGED topo, NEW e \in Endpoints, AskReachability(e)  PROVE AnswerInv'
      BY <2>1, <2>3 DEF AnswerInv, AskReachability, src, dst
    <2>4. ASSUME UNCHANGED topo, NEW e \in Endpoints, NEW pol \in RoutePolicies,
                 NEW log \in MeasurementLogs, AskRoute(e, pol, log)
          PROVE  AnswerInv'
      BY <2>1, <2>4 DEF AnswerInv, AskRoute, src, dst
    <2>5. ASSUME UNCHANGED topo, AskHealth  PROVE AnswerInv'
      BY <2>1, <2>5 DEF AnswerInv, AskHealth
    <2>6. ASSUME UNCHANGED topo, NEW e \in Endpoints, NEW pol \in RemotePolicies, AskRemote(e, pol)
          PROVE  AnswerInv'
      BY <2>1, <2>6 DEF AnswerInv, AskRemote, Remote
    <2>7. ASSUME UNCHANGED topo, topo \in Transfers, NEW n \in 0 .. (Len(Payload) + 1), AskDecode(n)
          PROVE  AnswerInv'
      <3>1. answer' = Arrived(topo, n)  BY <2>7, Zenon DEF AskDecode, Received, Payload, Arrived
      <3>2. QED  BY <2>1, <2>7, <3>1 DEF AnswerInv, AskDecode, Payload
    <2>8. CASE UNCHANGED queryVars
      BY <2>8 DEF AnswerInv, queryVars, src, dst
    <2>9. QED  BY <2>2, <2>3, <2>4, <2>5, <2>6, <2>7, <2>8 DEF QueryNext
  <1>3. QED  BY <1>1, <1>2, PTL DEF QuerySpec

\* fabricHealth and deviceReachability judge the same states alike: no pair of
\* a healthy or merely degraded fabric is cut off by a switch, a port or an
\* endpoint that failed or went stale.
THEOREM HealthAgreesWithReachability == QuerySpec => []HealthyMeansNoFailure
  <1>1. AnswerInv => HealthyMeansNoFailure
    <2> SUFFICES ASSUME AnswerInv, query.kind = "health", answer \in {"HEALTHY", "DEGRADED"},
                        NEW e \in Endpoints
                 PROVE  DeviceReachability(topo, e[1], e[2])
                           \notin {"SWITCH_DOWN", "PORT_DOWN", "ENDPOINT_STALE"}
      BY DEF HealthyMeansNoFailure
    <2>1. FabricHealth(topo) \in {"HEALTHY", "DEGRADED"}  BY DEF AnswerInv
    <2>2. QED  BY <2>1, BlamedStates, HealthyStates
  <1>2. QED  BY <1>1, AnswersInvariant, PTL

\* Every path enumeratePaths returns leads from source to destination over
\* usable links and different switches, none is returned twice, and shorter
\* ones come first, in every fabric and for every bound.
THEOREM EnumeratedPathsSound == QuerySpec => []PathsSound
  <1>1. AnswerInv => PathsSound
    <2> SUFFICES ASSUME AnswerInv, query.kind = "paths"
                 PROVE  /\ \A k \in DOMAIN answer : PathOK(answer[k])
                        /\ \A j, k \in DOMAIN answer : j < k =>
                              /\ answer[j].links # answer[k].links
                              /\ Len(answer[j].hops) <= Len(answer[k].hops)
      BY Zenon DEF PathsSound
    <2> DEFINE cfg == query.traversal
               D == cfg.maxDepth
               A == AnyPath(topo, src, dst, D)
    <2>1. Searchable(topo) /\ cfg \in Traversals /\ answer = EnumeratePaths(topo, src, dst, cfg)
      BY FabricAssumption DEF AnswerInv, Searchable
    <2>2. D \in Nat /\ cfg.maxPaths \in Nat  BY <2>1, ArgumentAssumption
    <2>3. answer \in Seq(A) /\ InOrder(answer)
      <3> HIDE DEF cfg
      <3>1. QED  BY <2>1, <2>2, EnumeratedOK
    <2> HIDE DEF A, D, cfg
    <2>4. DOMAIN answer = 1 .. Len(answer)  BY <2>3
    <2>5. ASSUME NEW k \in DOMAIN answer  PROVE PathOK(answer[k])
      <3> DEFINE p == answer[k]
      <3>1. p \in A  BY <2>3
      <3> HIDE DEF p
      <3>2. PICK n \in Nat \ {0} : LeadsFromTo(topo, src, dst, p, n)
        BY <2>1, <2>2, <3>1, PathFacts DEF A
      <3>3. /\ Len(p.hops) = n /\ DOMAIN p.hops = 1 .. n /\ Len(p.links) = n + 1
            /\ Joins(topo, p.links[1], p.hops[1].sw, DeviceEnd(src))
            /\ \A i \in 1 .. n :
                  /\ Joins(topo, p.links[i + 1], p.hops[i].sw,
                           IF i = n THEN DeviceEnd(dst) ELSE SwitchEnd(p.hops[i + 1].sw))
                  /\ p.hops[i].outPort = topo.links[p.links[i + 1]].port
            /\ Cardinality(HopSwitches(p)) = n
        BY <3>2, Zenon DEF LeadsFromTo
      <3>4. \A l, s, far : Joins(topo, l, s, far) => l \in Joining(s, far)
        BY Zenon DEF Joins, Joining
      <3>5. PathOK(p)  BY <3>3, <3>4, Zenon DEF PathOK
      <3>6. QED  BY <3>5 DEF p
    <2>6. QED  BY <2>3, <2>4, <2>5, Zenon DEF InOrder
  <1>2. QED  BY <1>1, AnswersInvariant, PTL

-----------------------------------------------------------------------------

\* Sequences with the same elements are equal.
LEMMA SeqAlike ==
    ASSUME NEW T, NEW r \in Seq(T), NEW s \in Seq(T), Len(r) = Len(s),
           \A k \in 1 .. Len(s) : r[k] = s[k]
    PROVE  r = s
  <1> DEFINE n == Len(s)
  <1>1. r \in [1 .. n -> T] /\ s \in [1 .. n -> T]  OBVIOUS
  <1>2. \A k \in 1 .. n : r[k] = s[k]  OBVIOUS
  <1> HIDE DEF n
  <1>3. r = [k \in 1 .. n |-> r[k]] /\ s = [k \in 1 .. n |-> s[k]]  BY <1>1, Zenon
  <1>4. [k \in 1 .. n |-> r[k]] = [k \in 1 .. n |-> s[k]]  BY <1>2, Zenon
  <1>5. QED  BY <1>3, <1>4, Zenon

\* decodePolicy reads back what encodePolicyLite wrote.
LEMMA PolicySent ==
    ASSUME NEW pol \in RoutePolicy
    PROVE  /\ Len(pol.factors) \in Nat
           /\ Len(pol.factors) > 24 => decodePolicy(encodePolicyLite(pol)) = PolicyRefused
           /\ Len(pol.factors) <= 24 => decodePolicy(encodePolicyLite(pol)) = pol
           /\ pol # PolicyRefused
  <1> DEFINE a == pol.requireNonDegradedPath
             b == pol.insidePartition
             c == pol.maxAllowedHops
             d == pol.requiresBandwidth
             s == pol.factors
             n == Len(s)
             X == {a, b, c, d, n} \cup RouteFactor
             h == <<a, b, c, d, n>>
             f == encodePolicyLite(pol)
  <1>1. /\ pol = [requireNonDegradedPath |-> a, insidePartition |-> b, maxAllowedHops |-> c,
                  requiresBandwidth |-> d, factors |-> s]
        /\ s \in Seq(RouteFactor)
    BY DEF RoutePolicy
  <1>2. pol # PolicyRefused
    <2>1. "factors" \in DOMAIN pol  BY DEF RoutePolicy
    <2>2. "factors" \notin DOMAIN PolicyRefused  BY DEF PolicyRefused
    <2>3. QED  BY <2>1, <2>2
  <1>3. f = Cat(h, s)  BY Zenon DEF encodePolicyLite, Cat
  <1> HIDE DEF a, b, c, d, s, f
  <1>4. n \in Nat /\ s \in Seq(X) /\ h \in Seq(X) /\ Len(h) = 5
        /\ h[1] = a /\ h[2] = b /\ h[3] = c /\ h[4] = d /\ h[5] = n
    BY <1>1
  <1> HIDE DEF h, n, X
  <1>5. /\ Len(f) = Len(h) + Len(s)
        /\ \A k \in 1 .. Len(h) : f[k] = h[k]
        /\ \A k \in 1 .. Len(s) : f[Len(h) + k] = s[k]
    <2>1. h \in Seq(X) /\ s \in Seq(X)  BY <1>4
    <2>2. QED  BY <1>3, <2>1, CatFacts
  <1>6. f[1] = a /\ f[2] = b /\ f[3] = c /\ f[4] = d /\ f[5] = n
    BY <1>4, <1>5
  <1>7. \A k \in 1 .. n : f[5 + k] = s[k]
    BY <1>4, <1>5 DEF n
  <1>8. SubSeq(f, 6, 5 + n) = s
    <2>1. f \in Seq(X)  BY <1>3, <1>4, CatSeq
    <2>2. Len(f) = 5 + n  BY <1>4, <1>5 DEF n
    <2> DEFINE q == SubSeq(f, 6, 5 + n)
    <2>3. q \in Seq(X) /\ Len(q) = n /\ \A k \in 1 .. n : q[k] = f[5 + k]
      BY <1>4, <2>1, <2>2
    <2>4. s \in Seq(X) /\ Len(s) = n  BY <1>4 DEF n
    <2> HIDE DEF q
    <2>5. \A k \in 1 .. n : q[k] = s[k]  BY <1>7, <2>3, Zenon
    <2>6. q = s
      <3>1. Len(q) = Len(s) /\ \A k \in 1 .. Len(s) : q[k] = s[k]  BY <2>3, <2>4, <2>5, Zenon
      <3>2. QED  BY <2>3, <2>4, <3>1, SeqAlike
    <2>7. QED  BY <2>6 DEF q
  <1>9. decodePolicy(f) = IF n > 24 THEN PolicyRefused
                          ELSE [requireNonDegradedPath |-> a, insidePartition |-> b,
                                maxAllowedHops |-> c, requiresBandwidth |-> d, factors |-> s]
    BY <1>6, <1>8, Zenon DEF decodePolicy, kMaxFactors
  <1>10. decodePolicy(f) = IF n > 24 THEN PolicyRefused ELSE pol  BY <1>1, <1>9, Zenon
  <1>11. QED  BY <1>2, <1>4, <1>10 DEF n, s, f

\* A worker that asks the coordinator is told what computeRoute decides for the
\* policy it asked with, and of a route if and only if one was granted; it is
\* left without an answer only for too many factors.
THEOREM RemoteAnswerAgrees == QuerySpec => []RemoteRouteAgrees
  <1>1. AnswerInv => RemoteRouteAgrees
    <2> SUFFICES ASSUME AnswerInv, query.kind = "remote"  PROVE RemoteRouteAgrees
      BY DEF RemoteRouteAgrees
    <2> DEFINE pol == query.policy
               r == ComputeRoute(topo, src, dst, pol, <<>>, 1, topo.epoch)
    <2>1. pol \in RoutePolicy /\ answer = Remote(topo, query.pair, pol) /\ Searchable(topo)
      BY ArgumentAssumption, FabricAssumption DEF AnswerInv, Searchable
    <2>2. DecisionOK(topo, src, dst, pol, r)
      <3>1. Rated(MatchedMeasurements(<<>>, src, dst))
        BY FS_EmptySet DEF Rated, MatchedMeasurements
      <3>2. QED  BY <2>1, <3>1, DecisionSound
    <2>3. answer = IF decodePolicy(encodePolicyLite(pol)) = PolicyRefused THEN Silence
                   ELSE AnswerRead(encodeDecision(ComputeRoute(topo, src, dst,
                            decodePolicy(encodePolicyLite(pol)), <<>>, 1, topo.epoch)), src, dst)
      BY <2>1, Zenon DEF Remote, src, dst
    <2> HIDE DEF pol
    <2>4. CASE Len(pol.factors) > 24
      <3>1. answer = Silence  BY <2>1, <2>3, <2>4, PolicySent
      <3>2. QED  BY <2>4, <3>1, Zenon DEF RemoteRouteAgrees, pol
    <2>5. CASE Len(pol.factors) <= 24
      <3>1. answer = AnswerRead(encodeDecision(r), src, dst)
        <4>1. decodePolicy(encodePolicyLite(pol)) = pol /\ pol # PolicyRefused
          BY <2>1, <2>5, PolicySent
        <4>2. QED  BY <2>3, <4>1, Zenon
      <3>2. ~ (Len(pol.factors) > 24)  BY <2>1, <2>5, PolicySent
      <3> HIDE DEF r
      <3>3. /\ answer.outcome = r.outcome
            /\ answer.authoritative = r.authoritative
            /\ answer.selected = (CanonicalKey(r.selected) # <<>>)
        BY <3>1 DEF AnswerRead, encodeDecision
      <3>4. CanonicalKey(r.selected) # <<>> <=> r.outcome \in Allowed
        <4>1. CASE r.outcome \notin Allowed
          <5>1. r.selected = NoPath  BY <2>2, <4>1, Zenon DEF DecisionOK
          <5>2. QED  BY <4>1, <5>1, NoKey
        <4>2. CASE r.outcome \in Allowed
          <5>1. PICK n \in Nat \ {0} : LeadsFromTo(topo, src, dst, r.selected, n)
            BY <2>2, <4>2, Zenon DEF DecisionOK
          <5>2. CanonicalKey(r.selected) # <<>>  BY <2>1, <5>1, KeyTyped
          <5>3. QED  BY <4>2, <5>2
        <4>3. QED  BY <4>1, <4>2
      <3>5. r.authoritative <=> r.outcome \in Allowed  BY <2>2, Zenon DEF DecisionOK
      <3>6. QED  BY <3>2, <3>3, <3>4, <3>5, Zenon DEF RemoteRouteAgrees, r, pol
    <2>6. QED
      <3>1. Len(pol.factors) \in Nat  BY <2>1, PolicySent
      <3>2. QED  BY <2>4, <2>5, <3>1
  <1>2. QED  BY <1>1, AnswersInvariant, PTL
-----------------------------------------------------------------------------
(* The walks over the links of the fabric, and the paths that take them. *)

LEMMA IntoFacts ==
    ASSUME Searchable(topo)
    PROVE  /\ \A l, far : l \in Into(far) <=> Joins(topo, l, topo.links[l].rootSwitch, far)
           /\ \A l, sw, far : Joins(topo, l, sw, far) =>
                 /\ Joins(topo, l, topo.links[l].rootSwitch, far)
                 /\ sw = topo.links[l].rootSwitch /\ sw \in DOMAIN topo.switches
           /\ \A l, s : Joins(topo, l, topo.links[l].rootSwitch, SwitchEnd(s)) =>
                 l \in Trunks /\ topo.links[l].otherEnd.id = s
           /\ \A l \in Trunks :
                 Joins(topo, l, topo.links[l].rootSwitch, SwitchEnd(topo.links[l].otherEnd.id))
  <1>1. \A l \in DOMAIN topo.links : topo.links[l].rootSwitch \in DOMAIN topo.switches
    BY SearchableFacts
  <1>2. ASSUME NEW l, NEW far
        PROVE  l \in Into(far) <=> Joins(topo, l, topo.links[l].rootSwitch, far)
    <2>1. ASSUME l \in Into(far)  PROVE Joins(topo, l, topo.links[l].rootSwitch, far)
      BY <2>1, Zenon DEF Into, Joining, Joins
    <2>2. ASSUME Joins(topo, l, topo.links[l].rootSwitch, far)  PROVE l \in Into(far)
      <3> DEFINE s == topo.links[l].rootSwitch
      <3>1. s \in DOMAIN topo.switches  BY <1>1, <2>2, Zenon DEF Joins
      <3>2. l \in Joining(s, far)  BY <2>2, Zenon DEF Joining, Joins
      <3> HIDE DEF s
      <3>3. QED  BY <3>1, <3>2, Zenon DEF Into
    <2>3. QED  BY <2>1, <2>2
  <1>3. ASSUME NEW l, NEW sw, NEW far, Joins(topo, l, sw, far)
        PROVE  /\ Joins(topo, l, topo.links[l].rootSwitch, far)
               /\ sw = topo.links[l].rootSwitch /\ sw \in DOMAIN topo.switches
    BY <1>1, <1>3, Zenon DEF Joins
  <1>4. \A s : SwitchEnd(s).kind = "Switch" /\ SwitchEnd(s).id = s  BY DEF SwitchEnd
  <1>5. ASSUME NEW l, NEW s, Joins(topo, l, topo.links[l].rootSwitch, SwitchEnd(s))
        PROVE  l \in Trunks /\ topo.links[l].otherEnd.id = s
    <2>1. l \in DOMAIN topo.links /\ topo.links[l].otherEnd = SwitchEnd(s)  BY <1>5, Zenon DEF Joins
    <2>2. topo.links[l].otherEnd.kind = "Switch" /\ topo.links[l].otherEnd.id = s  BY <1>4, <2>1, Zenon
    <2>3. s \in DOMAIN topo.switches
      <3>1. LinkIntegrity(topo, l)  BY <2>1, Zenon DEF Searchable, CheckIntegrity
      <3>2. QED  BY <2>2, <3>1 DEF LinkIntegrity
    <2>4. l \in Into(SwitchEnd(s))  BY <1>2, <1>5
    <2>5. QED  BY <2>2, <2>3, <2>4, Zenon DEF Trunks
  <1>6. ASSUME NEW l \in Trunks
        PROVE  Joins(topo, l, topo.links[l].rootSwitch, SwitchEnd(topo.links[l].otherEnd.id))
    <2>1. PICK s \in DOMAIN topo.switches : l \in Into(SwitchEnd(s))  BY Zenon DEF Trunks
    <2>2. Joins(topo, l, topo.links[l].rootSwitch, SwitchEnd(s))  BY <1>2, <2>1
    <2>3. topo.links[l].otherEnd.id = s  BY <1>5, <2>2
    <2>4. QED  BY <2>2, <2>3
  <1>7. QED  BY <1>2, <1>3, <1>5, <1>6

\* The walk a path takes.
WalkOf(p) ==
    <<p.links[1], [j \in 1 .. (Len(p.hops) - 1) |-> p.links[j + 1]], p.links[Len(p.hops) + 1]>>

\* What makes w a walk over n switches.
WalkFacts(w, n) ==
    /\ w = <<w[1], w[2], w[3]>>
    /\ w[2] = [i \in 1 .. (n - 1) |-> w[2][i]] /\ Len(w[2]) = n - 1
    /\ Joins(topo, w[1], topo.links[w[1]].rootSwitch, DeviceEnd(src))
    /\ \A i \in 1 .. (n - 1) : w[2][i] \in Trunks /\ topo.links[w[2][i]].rootSwitch = Passed(w)[i]
    /\ DOMAIN Passed(w) = 1 .. n
    /\ Passed(w)[1] = topo.links[w[1]].rootSwitch
    /\ \A i \in 1 .. (n - 1) : Passed(w)[i + 1] = topo.links[w[2][i]].otherEnd.id
    /\ \A i, j \in 1 .. n : Passed(w)[i] = Passed(w)[j] => i = j
    /\ Joins(topo, w[3], Passed(w)[n], DeviceEnd(dst))

\* Passed, for a tuple whose middle part is a sequence.
LEMMA PassedFacts ==
    ASSUME NEW n \in Nat \ {0}, NEW T, NEW w, w[2] \in [1 .. (n - 1) -> T]
    PROVE  /\ w[2] = [i \in 1 .. (n - 1) |-> w[2][i]] /\ Len(w[2]) = n - 1
           /\ DOMAIN Passed(w) = 1 .. n
           /\ Passed(w)[1] = topo.links[w[1]].rootSwitch
           /\ \A i \in 1 .. (n - 1) : Passed(w)[i + 1] = topo.links[w[2][i]].otherEnd.id
  <1> DEFINE g == w[2]
             m == n - 1
             F(i) == IF i = 1 THEN topo.links[w[1]].rootSwitch ELSE topo.links[g[i - 1]].otherEnd.id
  <1>1. m \in Nat /\ g \in [1 .. m -> T] /\ m + 1 = n  OBVIOUS
  <1>2. Passed(w) = [i \in 1 .. (Len(g) + 1) |-> F(i)]  BY Zenon DEF Passed
  <1> HIDE DEF g, m
  <1>3. Len(g) = m /\ g = [i \in 1 .. m |-> g[i]]  BY <1>1
  <1>4. Passed(w) = [i \in 1 .. n |-> F(i)]  BY <1>1, <1>2, <1>3
  <1>5. 1 \in 1 .. n /\ \A i \in 1 .. m : i + 1 \in 1 .. n /\ i + 1 # 1 /\ (i + 1) - 1 = i
    BY <1>1 DEF m
  <1>6. F(1) = topo.links[w[1]].rootSwitch  OBVIOUS
  <1>7. \A i \in 1 .. m : F(i + 1) = topo.links[g[i]].otherEnd.id
    <2> SUFFICES ASSUME NEW i \in 1 .. m  PROVE F(i + 1) = topo.links[g[i]].otherEnd.id  OBVIOUS
    <2>1. i + 1 # 1 /\ (i + 1) - 1 = i  BY <1>5
    <2>2. QED  BY <2>1
  <1> HIDE DEF F
  <1>8. DOMAIN Passed(w) = 1 .. n /\ \A i \in 1 .. n : Passed(w)[i] = F(i)  BY <1>4, Zenon
  <1>9. QED  BY <1>3, <1>5, <1>6, <1>7, <1>8 DEF g, m

\* A walk is a triple with these facts, and the other way round.
LEMMA WalkKnown ==
    ASSUME Searchable(topo), NEW n \in Nat \ {0}
    PROVE  \A w : w \in Walks(n) <=> WalkFacts(w, n)
  <1> DEFINE Triples == Into(DeviceEnd(src)) \X [1 .. (n - 1) -> Trunks] \X Into(DeviceEnd(dst))
             Walking(w) == /\ IsInjective(Passed(w))
                           /\ \A i \in 1 .. (n - 1) : topo.links[w[2][i]].rootSwitch = Passed(w)[i]
                           /\ topo.links[w[3]].rootSwitch = Passed(w)[n]
  <1>1. \A w : w \in Walks(n) <=> w \in Triples /\ Walking(w)  BY Zenon DEF Walks
  <1>2. ASSUME NEW w, w \in Triples, Walking(w)  PROVE WalkFacts(w, n)
    <2>1. /\ w = <<w[1], w[2], w[3]>> /\ w[1] \in Into(DeviceEnd(src))
          /\ w[2] \in [1 .. (n - 1) -> Trunks] /\ w[3] \in Into(DeviceEnd(dst))
      BY <1>2
    <2>2. /\ w[2] = [i \in 1 .. (n - 1) |-> w[2][i]] /\ Len(w[2]) = n - 1
          /\ DOMAIN Passed(w) = 1 .. n
          /\ Passed(w)[1] = topo.links[w[1]].rootSwitch
          /\ \A i \in 1 .. (n - 1) : Passed(w)[i + 1] = topo.links[w[2][i]].otherEnd.id
      <3>1. w[2] \in [1 .. (n - 1) -> Trunks]  BY <2>1, Zenon
      <3>2. \A T, x : x[2] \in [1 .. (n - 1) -> T] =>
               /\ x[2] = [i \in 1 .. (n - 1) |-> x[2][i]] /\ Len(x[2]) = n - 1
               /\ DOMAIN Passed(x) = 1 .. n
               /\ Passed(x)[1] = topo.links[x[1]].rootSwitch
               /\ \A i \in 1 .. (n - 1) : Passed(x)[i + 1] = topo.links[x[2][i]].otherEnd.id
        BY PassedFacts, Zenon
      <3>3. QED  BY <3>1, <3>2, ZenonT(40)
    <2>3. /\ Joins(topo, w[1], topo.links[w[1]].rootSwitch, DeviceEnd(src))
          /\ Joins(topo, w[3], topo.links[w[3]].rootSwitch, DeviceEnd(dst))
      BY <2>1, IntoFacts, ZenonT(40)
    <2>4. \A i \in 1 .. (n - 1) : w[2][i] \in Trunks  BY <2>1
    <2>5. \A i, j \in 1 .. n : Passed(w)[i] = Passed(w)[j] => i = j
      BY <1>2, <2>2, Zenon DEF IsInjective
    <2>6. QED  BY <1>2, <2>1, <2>2, <2>3, <2>4, <2>5, Zenon DEF WalkFacts
  <1>3. ASSUME NEW w, WalkFacts(w, n)  PROVE w \in Triples /\ Walking(w)
    <2>1. w[1] \in Into(DeviceEnd(src))  BY <1>3, IntoFacts, Zenon DEF WalkFacts
    <2>2. w[2] \in [1 .. (n - 1) -> Trunks]
      <3>1. /\ w[2] = [i \in 1 .. (n - 1) |-> w[2][i]]
            /\ \A i \in 1 .. (n - 1) : w[2][i] \in Trunks
        BY <1>3, Zenon DEF WalkFacts
      <3>2. QED  BY <3>1
    <2>3. w[3] \in Into(DeviceEnd(dst)) /\ topo.links[w[3]].rootSwitch = Passed(w)[n]
      <3>1. Joins(topo, w[3], Passed(w)[n], DeviceEnd(dst))  BY <1>3, Zenon DEF WalkFacts
      <3>2. Joins(topo, w[3], topo.links[w[3]].rootSwitch, DeviceEnd(dst))
            /\ topo.links[w[3]].rootSwitch = Passed(w)[n]
        BY <3>1, IntoFacts, ZenonT(40)
      <3>3. QED  BY <3>2, IntoFacts, Zenon
    <2>4. w = <<w[1], w[2], w[3]>>  BY <1>3, Zenon DEF WalkFacts
    <2>5. w \in Triples  BY <2>1, <2>2, <2>3, <2>4
    <2>6. Walking(w)  BY <1>3, <2>3, Zenon DEF WalkFacts, IsInjective
    <2>7. QED  BY <2>5, <2>6
  <1>4. QED  BY <1>1, <1>2, <1>3, Zenon

\* The path p takes the walk w over n switches.
TakenBy(p, w, n) ==
    /\ w = WalkOf(p) /\ WalkFacts(w, n)
    /\ \A i \in 1 .. n : Passed(w)[i] = p.hops[i].sw
    /\ WalkLinks(w) = {p.links[i] : i \in 1 .. (n + 1)}

\* Every path the search returns takes a walk.
LEMMA WalkTaken ==
    ASSUME Searchable(topo), NEW D, NEW n \in Nat \ {0}, NEW p \in Paths(topo, src, dst, D, n)
    PROVE  TakenBy(p, WalkOf(p), n)
  <1> DEFINE k == p.links
             h == p.hops
             g == [j \in 1 .. (n - 1) |-> k[j + 1]]
             w == <<k[1], g, k[n + 1]>>
             m == n - 1
  <1>1. /\ Len(h) = n
        /\ Joins(topo, k[1], h[1].sw, DeviceEnd(src))
        /\ \A i \in 1 .. (n - 1) : Joins(topo, k[i + 1], h[i].sw, SwitchEnd(h[i + 1].sw))
        /\ Joins(topo, k[n + 1], h[n].sw, DeviceEnd(dst))
        /\ DistinctHops(h)
    BY Zenon DEF Paths, Inner
  <1>2. WalkOf(p) = w  BY <1>1, Zenon DEF WalkOf
  <1> HIDE DEF k, h
  <1>3. w = <<w[1], w[2], w[3]>> /\ w[1] = k[1] /\ w[2] = g /\ w[3] = k[n + 1]
    <2> HIDE DEF g
    <2>1. QED  OBVIOUS
  <1>4. \A i \in 1 .. m : g[i] = k[i + 1]  OBVIOUS
  <1> HIDE DEF w, g
  <1>5. \A i \in 1 .. m : /\ g[i] \in Trunks /\ topo.links[g[i]].rootSwitch = h[i].sw
                          /\ topo.links[g[i]].otherEnd.id = h[i + 1].sw
    <2> SUFFICES ASSUME NEW i \in 1 .. m
                 PROVE  /\ g[i] \in Trunks /\ topo.links[g[i]].rootSwitch = h[i].sw
                        /\ topo.links[g[i]].otherEnd.id = h[i + 1].sw
      OBVIOUS
    <2> DEFINE l == g[i]
               a == h[i].sw
               b == h[i + 1].sw
    <2>1. Joins(topo, l, a, SwitchEnd(b))  BY <1>1, <1>4
    <2> HIDE DEF l, a, b
    <2>2. Joins(topo, l, topo.links[l].rootSwitch, SwitchEnd(b)) /\ topo.links[l].rootSwitch = a
      <3>1. \A x, sw, far : Joins(topo, x, sw, far) =>
               Joins(topo, x, topo.links[x].rootSwitch, far) /\ sw = topo.links[x].rootSwitch
        BY IntoFacts, Zenon
      <3>2. QED  BY <2>1, <3>1, Zenon
    <2>3. l \in Trunks /\ topo.links[l].otherEnd.id = b
      <3>1. \A x, s : Joins(topo, x, topo.links[x].rootSwitch, SwitchEnd(s)) =>
               x \in Trunks /\ topo.links[x].otherEnd.id = s
        BY IntoFacts, Zenon
      <3>2. QED  BY <2>2, <3>1, Zenon
    <2>4. QED  BY <2>2, <2>3 DEF l, a, b
  <1>6. g \in [1 .. m -> Trunks]
    <2>1. g = [i \in 1 .. m |-> g[i]]  BY DEF g
    <2>2. QED  BY <1>5, <2>1
  <1>7. /\ w[2] = [i \in 1 .. m |-> w[2][i]] /\ Len(w[2]) = m
        /\ DOMAIN Passed(w) = 1 .. n
        /\ Passed(w)[1] = topo.links[w[1]].rootSwitch
        /\ \A i \in 1 .. m : Passed(w)[i + 1] = topo.links[w[2][i]].otherEnd.id
    <2>1. w[2] \in [1 .. (n - 1) -> Trunks]  BY <1>3, <1>6
    <2>2. \A T, x : x[2] \in [1 .. (n - 1) -> T] =>
             /\ x[2] = [i \in 1 .. (n - 1) |-> x[2][i]] /\ Len(x[2]) = n - 1
             /\ DOMAIN Passed(x) = 1 .. n
             /\ Passed(x)[1] = topo.links[x[1]].rootSwitch
             /\ \A i \in 1 .. (n - 1) : Passed(x)[i + 1] = topo.links[x[2][i]].otherEnd.id
      BY PassedFacts, Zenon
    <2>3. QED  BY <2>1, <2>2, ZenonT(40)
  <1>8. \A i \in 1 .. n : Passed(w)[i] = h[i].sw
    <2> SUFFICES ASSUME NEW i \in 1 .. n  PROVE Passed(w)[i] = h[i].sw  OBVIOUS
    <2>1. CASE i = 1
      <3>1. topo.links[k[1]].rootSwitch = h[1].sw  BY <1>1, Zenon DEF Joins
      <3>2. QED  BY <1>3, <1>7, <2>1, <3>1
    <2>2. CASE i # 1
      <3> DEFINE j == i - 1
      <3>1. j \in 1 .. m /\ j + 1 = i  BY <2>2
      <3> HIDE DEF j, m
      <3>2. Passed(w)[j + 1] = h[j + 1].sw  BY <1>3, <1>5, <1>7, <3>1, Zenon
      <3>3. QED  BY <3>1, <3>2
    <2>3. QED  BY <2>1, <2>2
  <1>9. \A i \in 1 .. m : i \in 1 .. n  OBVIOUS
  <1>10. WalkFacts(w, n)
    <2>1. Joins(topo, w[1], topo.links[w[1]].rootSwitch, DeviceEnd(src))
      BY <1>1, <1>3, IntoFacts, Zenon
    <2>2. \A i \in 1 .. m : w[2][i] \in Trunks /\ topo.links[w[2][i]].rootSwitch = Passed(w)[i]
      BY <1>3, <1>5, <1>8, <1>9, Zenon
    <2>3. \A i, j \in 1 .. n : Passed(w)[i] = Passed(w)[j] => i = j
      BY <1>1, <1>8, Zenon DEF DistinctHops
    <2>4. n \in 1 .. n  OBVIOUS
    <2>5. Joins(topo, w[3], Passed(w)[n], DeviceEnd(dst))  BY <1>1, <1>3, <1>8, <2>4, Zenon
    <2>6. QED  BY <1>3, <1>7, <2>1, <2>2, <2>3, <2>5, Zenon DEF WalkFacts
  <1>11. WalkLinks(w) = {k[i] : i \in 1 .. (n + 1)}
    <2>1. WalkLinks(w) = {k[1], k[n + 1]} \cup {g[i] : i \in DOMAIN g}
      BY <1>3, Zenon DEF WalkLinks
    <2>2. DOMAIN g = 1 .. m  BY <1>6
    <2>3. /\ 1 \in 1 .. (n + 1) /\ n + 1 \in 1 .. (n + 1)
          /\ \A i \in 1 .. m : i + 1 \in 1 .. (n + 1)
          /\ \A i \in 1 .. (n + 1) : i = 1 \/ i = n + 1 \/ (i - 1 \in 1 .. m /\ (i - 1) + 1 = i)
      OBVIOUS
    <2>4. ASSUME NEW l \in WalkLinks(w)  PROVE l \in {k[i] : i \in 1 .. (n + 1)}
      <3>1. CASE l = k[1] \/ l = k[n + 1]  BY <2>3, <3>1, Zenon
      <3>2. CASE \E i \in 1 .. m : l = g[i]
        <4>1. PICK i \in 1 .. m : l = k[i + 1]  BY <1>4, <3>2, Zenon
        <4>2. QED  BY <2>3, <4>1, Zenon
      <3>3. QED  BY <2>1, <2>2, <3>1, <3>2, Zenon
    <2>5. ASSUME NEW i \in 1 .. (n + 1)  PROVE k[i] \in WalkLinks(w)
      <3>1. CASE i = 1 \/ i = n + 1  BY <2>1, <3>1, Zenon
      <3>2. CASE i - 1 \in 1 .. m /\ (i - 1) + 1 = i
        <4>1. g[i - 1] = k[i]  BY <1>4, <3>2
        <4>2. QED  BY <2>1, <2>2, <3>2, <4>1
      <3>3. QED  BY <2>3, <3>1, <3>2
    <2>6. QED  BY <2>4, <2>5, Zenon
  <1>12. QED  BY <1>2, <1>8, <1>10, <1>11, Zenon DEF TakenBy, k, h

\* Paths that take the same walk have the same links.
LEMMA SameWalk ==
    ASSUME NEW D, NEW m \in Nat \ {0}, NEW n \in Nat \ {0}, NEW p \in Paths(topo, src, dst, D, m),
           NEW q \in Paths(topo, src, dst, D, n), WalkOf(p) = WalkOf(q)
    PROVE  m = n /\ p.links = q.links
  <1> DEFINE k == p.links
             l == q.links
             L == DOMAIN topo.links
             f == [j \in 1 .. (m - 1) |-> k[j + 1]]
             g == [j \in 1 .. (n - 1) |-> l[j + 1]]
  <1>1. /\ k \in Seq(L) /\ Len(k) = m + 1 /\ Len(p.hops) = m
        /\ l \in Seq(L) /\ Len(l) = n + 1 /\ Len(q.hops) = n
    BY DEF Paths
  <1>2. WalkOf(p) = <<k[1], f, k[m + 1]>> /\ WalkOf(q) = <<l[1], g, l[n + 1]>>
    BY <1>1, Zenon DEF WalkOf
  <1>3. k[1] = l[1] /\ f = g /\ k[m + 1] = l[n + 1]
    <2> DEFINE a == k[1]
               b == k[m + 1]
               c == l[1]
               d == l[n + 1]
    <2>1. WalkOf(p) = <<a, f, b>> /\ WalkOf(q) = <<c, g, d>>  BY <1>2
    <2> HIDE DEF a, b, c, d, f, g
    <2>2. <<a, f, b>> = <<c, g, d>>  BY <2>1
    <2>3. a = c /\ f = g /\ b = d  BY <2>2
    <2>4. QED  BY <2>3 DEF a, b, c, d
  <1> HIDE DEF k, l, L
  <1>4. 1 .. (m - 1) = 1 .. (n - 1)
    <2>1. DOMAIN f = 1 .. (m - 1) /\ DOMAIN g = 1 .. (n - 1)  OBVIOUS
    <2> HIDE DEF f, g
    <2>2. QED  BY <1>3, <2>1
  <1>5. m = n
    <2>1. m - 1 \in Nat /\ n - 1 \in Nat  OBVIOUS
    <2>2. Cardinality(1 .. (m - 1)) = m - 1 /\ Cardinality(1 .. (n - 1)) = n - 1
      BY <2>1, FS_Interval
    <2>3. m - 1 = n - 1  BY <1>4, <2>2
    <2>4. QED  BY <2>3
  <1>6. \A j \in 1 .. (n - 1) : k[j + 1] = l[j + 1]
    <2>1. \A j \in 1 .. (n - 1) : f[j] = k[j + 1] /\ g[j] = l[j + 1]  BY <1>5
    <2> HIDE DEF f, g
    <2>2. QED  BY <1>3, <2>1
  <1>7. \A i \in 1 .. (n + 1) : k[i] = l[i]
    <2> SUFFICES ASSUME NEW i \in 1 .. (n + 1)  PROVE k[i] = l[i]  OBVIOUS
    <2>1. i = 1 \/ i = n + 1 \/ (i - 1 \in 1 .. (n - 1) /\ (i - 1) + 1 = i)  OBVIOUS
    <2>2. QED  BY <1>3, <1>5, <1>6, <2>1
  <1>8. k = l
    <2>1. Len(k) = Len(l) /\ \A i \in 1 .. Len(l) : k[i] = l[i]  BY <1>1, <1>5, <1>7
    <2>2. k \in Seq(L) /\ l \in Seq(L)  BY <1>1
    <2>3. QED  BY <2>1, <2>2, SeqAlike
  <1>9. QED  BY <1>5, <1>8 DEF k, l

\* And the search finds a path for every walk.
LEMMA WalkFound ==
    ASSUME Searchable(topo), NEW cfg, NEW D \in Nat \ {0}, cfg.maxDepth = D,
           NEW n \in Nat \ {0}, n <= D, n = 1 \/ cfg.allowSwitchSwitching, NEW w \in Walks(n)
    PROVE  \E i \in 1 .. Len(AllPaths(topo, src, dst, cfg)) :
              /\ AllPaths(topo, src, dst, cfg)[i] \in Paths(topo, src, dst, D, n)
              /\ WalkOf(AllPaths(topo, src, dst, cfg)[i]) = w
  <1> DEFINE g == w[2]
             sw == Passed(w)
             k == [j \in 1 .. (n + 1) |-> IF j = 1 THEN w[1] ELSE IF j = n + 1 THEN w[3] ELSE g[j - 1]]
             m == n - 1
             all == AllPaths(topo, src, dst, cfg)
  <1>1. WalkFacts(w, n)  BY WalkKnown
  <1>2. /\ w = <<w[1], g, w[3]>> /\ g = [i \in 1 .. m |-> g[i]]
        /\ Joins(topo, w[1], topo.links[w[1]].rootSwitch, DeviceEnd(src))
        /\ \A i \in 1 .. m : g[i] \in Trunks /\ topo.links[g[i]].rootSwitch = sw[i]
        /\ sw[1] = topo.links[w[1]].rootSwitch
        /\ \A i \in 1 .. m : sw[i + 1] = topo.links[g[i]].otherEnd.id
        /\ \A i, j \in 1 .. n : sw[i] = sw[j] => i = j
        /\ Joins(topo, w[3], sw[n], DeviceEnd(dst))
    BY <1>1, Zenon DEF WalkFacts
  <1> HIDE DEF g, sw
  <1>3. k[1] = w[1] /\ k[n + 1] = w[3] /\ \A i \in 1 .. m : k[i + 1] = g[i]
    <2>1. /\ 1 \in 1 .. (n + 1) /\ n + 1 \in 1 .. (n + 1) /\ n + 1 # 1
          /\ \A i \in 1 .. m : i + 1 \in 1 .. (n + 1) /\ i + 1 # 1 /\ i + 1 # n + 1 /\ (i + 1) - 1 = i
      OBVIOUS
    <2>2. k[1] = w[1] /\ k[n + 1] = w[3]  BY <2>1
    <2>3. ASSUME NEW i \in 1 .. m  PROVE k[i + 1] = g[i]  BY <2>1
    <2>4. QED  BY <2>2, <2>3
  <1> HIDE DEF k
  <1>4. Follows(topo, src, sw, k, n)
    <2>1. Joins(topo, k[1], sw[1], DeviceEnd(src))  BY <1>2, <1>3, Zenon
    <2>2. ASSUME NEW i \in 1 .. m  PROVE Joins(topo, k[i + 1], sw[i], SwitchEnd(sw[i + 1]))
      <3>1. Joins(topo, g[i], topo.links[g[i]].rootSwitch, SwitchEnd(topo.links[g[i]].otherEnd.id))
        BY <1>2, IntoFacts, Zenon
      <3>2. QED  BY <1>2, <1>3, <3>1, Zenon
    <2>3. QED  BY <1>2, <2>1, <2>2, Zenon DEF Follows
  <1>5. Joins(topo, k[n + 1], sw[n], DeviceEnd(dst))  BY <1>2, <1>3
  <1>6. PICK i \in 1 .. Len(all) : all[i] \in Paths(topo, src, dst, D, n) /\ Agrees(all[i], k, n + 1)
    <2>1. n + 1 = n + 1  OBVIOUS
    <2>2. QED  BY <1>4, <1>5, <2>1, AllFound
  <1> DEFINE p == all[i]
  <1> HIDE DEF all
  <1>7. WalkOf(p) = <<p.links[1], [j \in 1 .. m |-> p.links[j + 1]], p.links[n + 1]>>
    <2>1. Len(p.hops) = n  BY <1>6, Zenon DEF Paths
    <2>2. QED  BY <2>1, Zenon DEF WalkOf
  <1>8. \A j \in 1 .. (n + 1) : p.links[j] = k[j]  BY <1>6, Zenon DEF Agrees
  <1>9. p.links[1] = w[1] /\ p.links[n + 1] = w[3] /\ \A j \in 1 .. m : p.links[j + 1] = g[j]
    <2>1. 1 \in 1 .. (n + 1) /\ n + 1 \in 1 .. (n + 1) /\ \A j \in 1 .. m : j + 1 \in 1 .. (n + 1)
      OBVIOUS
    <2>2. QED  BY <1>3, <1>8, <2>1, Zenon
  <1>10. [j \in 1 .. m |-> p.links[j + 1]] = g  BY <1>2, <1>9, Zenon
  <1>11. WalkOf(p) = w  BY <1>2, <1>7, <1>9, <1>10, Zenon
  <1>12. QED  BY <1>6, <1>11, Zenon DEF all

\* The positions of the paths of a list over at most n switches.
Short(q, n) == {i \in 1 .. Len(q) : Len(q[i].hops) <= n}

LEMMA InOneOfMany ==
    ASSUME NEW D, NEW p \in AnyPath(topo, src, dst, D)
    PROVE  \E m \in Nat \ {0} : /\ p \in Paths(topo, src, dst, D, m) /\ Len(p.hops) = m
                                /\ p.state = PathState(topo, p.links) /\ DOMAIN p.links = 1 .. (m + 1)
  <1>1. PICK m \in Nat \ {0} : p \in Paths(topo, src, dst, D, m)  BY Zenon DEF AnyPath
  <1> DEFINE k == p.links
             L == DOMAIN topo.links
  <1>2. /\ Len(p.hops) = m /\ p.state = PathState(topo, p.links)
        /\ k \in Seq(L) /\ Len(k) = m + 1
    BY <1>1 DEF Paths
  <1> HIDE DEF k, L
  <1>3. DOMAIN k = 1 .. (m + 1)  BY <1>2
  <1>4. QED  BY <1>1, <1>2, <1>3 DEF k

Taking(q, S) == [i \in S |-> WalkOf(q[i])]

\* The paths over at most n switches are the walks over at most n switches.
LEMMA PathsAreWalks ==
    ASSUME Searchable(topo), NEW cfg, NEW D \in Nat \ {0}, cfg.maxDepth = D,
           NEW n \in Nat \ {0}, n <= D, n = 1 \/ cfg.allowSwitchSwitching,
           NEW all, all = AllPaths(topo, src, dst, cfg), NEW W, W = UNION {Walks(m) : m \in 1 .. n},
           NEW S, S = Short(all, n)
    PROVE  Taking(all, S) \in Bijection(S, W)
  <1> DEFINE f == [i \in S |-> WalkOf(all[i])]
             P == AnyPath(topo, src, dst, D)
  <1>1. all \in Seq(P) /\ InOrder(all)  BY AllPathsOK
  <1>2. \A i \in 1 .. Len(all) : all[i] \in P
    <2> HIDE DEF P
    <2>1. QED  BY <1>1
  <1>3. \A i \in S : i \in 1 .. Len(all) /\ Len(all[i].hops) <= n  BY DEF Short
  <1>4. ASSUME NEW i \in S  PROVE WalkOf(all[i]) \in W
    <2>1. PICK m \in Nat \ {0} : all[i] \in Paths(topo, src, dst, D, m) /\ Len(all[i].hops) = m
      BY <1>2, <1>3, InOneOfMany
    <2>2. WalkFacts(WalkOf(all[i]), m)  BY <2>1, WalkTaken DEF TakenBy
    <2>3. WalkOf(all[i]) \in Walks(m)  BY <2>2, WalkKnown
    <2>4. m \in 1 .. n  BY <1>3, <2>1
    <2>5. QED  BY <2>3, <2>4, Zenon
  <1>5. ASSUME NEW i \in S, NEW j \in S, WalkOf(all[i]) = WalkOf(all[j])  PROVE i = j
    <2>1. PICK m \in Nat \ {0} : all[i] \in Paths(topo, src, dst, D, m)
      BY <1>2, <1>3, InOneOfMany, Zenon
    <2>2. PICK k \in Nat \ {0} : all[j] \in Paths(topo, src, dst, D, k)
      BY <1>2, <1>3, InOneOfMany, Zenon
    <2>3. all[i].links = all[j].links  BY <1>5, <2>1, <2>2, SameWalk
    <2>4. ~ (i < j) /\ ~ (j < i)  BY <1>1, <1>3, <2>3, Zenon DEF InOrder
    <2>5. i \in Int /\ j \in Int  BY <1>3
    <2>6. QED  BY <2>4, <2>5
  <1>6. ASSUME NEW w \in W  PROVE \E i \in S : WalkOf(all[i]) = w
    <2>1. PICK m \in 1 .. n : w \in Walks(m)  BY Zenon
    <2>2. m \in Nat \ {0} /\ m <= D /\ (m = 1 \/ cfg.allowSwitchSwitching) /\ m <= n  BY <2>1
    <2>3. PICK i \in 1 .. Len(all) : all[i] \in Paths(topo, src, dst, D, m) /\ WalkOf(all[i]) = w
      BY <2>1, <2>2, WalkFound
    <2>4. Len(all[i].hops) = m  BY <2>3, Zenon DEF Paths
    <2>5. i \in S  BY <2>2, <2>3, <2>4 DEF Short
    <2>6. QED  BY <2>3, <2>5
  <1>7. /\ \A i \in S : f[i] = WalkOf(all[i])
        /\ f \in [S -> W]
    BY <1>4
  <1>8. DOMAIN f = S  OBVIOUS
  <1> HIDE DEF f
  <1>9. f \in Bijection(S, W)
    <2>1. \A i, j \in S : f[i] = f[j] => i = j  BY <1>5, <1>7
    <2>2. \A w \in W : \E i \in S : f[i] = w  BY <1>6, <1>7
    <2>3. f \in Injection(S, W)  BY <1>7, <1>8, <2>1, Zenon DEF Injection, IsInjective
    <2>4. f \in Surjection(S, W)  BY <1>7, <2>2, Zenon DEF Surjection
    <2>5. QED  BY <2>3, <2>4, Zenon DEF Bijection
  <1>10. QED  BY <1>9 DEF f, Taking

\* A set of positions that holds the first of any of them starts the list.
LEMMA Beginning ==
    ASSUME NEW L \in Nat, NEW S \in SUBSET (1 .. L), \A i \in S : \A j \in 1 .. L : j < i => j \in S
    PROVE  IsFiniteSet(S) /\ Cardinality(S) \in 0 .. L /\ S = 1 .. Cardinality(S)
  <1>1. IsFiniteSet(1 .. L) /\ S \in SUBSET Int  BY FS_Interval
  <1>2. IsFiniteSet(S)  BY <1>1, FS_Subset
  <1>3. CASE S = {}
    <2>1. Cardinality(S) = 0  BY <1>3, FS_EmptySet
    <2>2. QED  BY <1>2, <1>3, <2>1
  <1>4. CASE S # {}
    <2>1. Max(S) \in S /\ \A i \in S : i <= Max(S)  BY <1>1, <1>2, <1>4, MinMax
    <2> DEFINE m == Max(S)
    <2>2. m \in 1 .. L /\ m \in Nat
      <3>1. m \in S  BY <2>1
      <3> HIDE DEF m
      <3>2. QED  BY <3>1
    <2>3. S = 1 .. m
      <3> HIDE DEF m
      <3>1. \A i \in S : i \in 1 .. m  BY <2>1 DEF m
      <3>2. \A i \in 1 .. m : i \in S
        <4> SUFFICES ASSUME NEW i \in 1 .. m  PROVE i \in S  OBVIOUS
        <4>1. m \in S  BY <2>1 DEF m
        <4>2. i \in 1 .. L /\ (i < m \/ i = m)  BY <2>2
        <4>3. QED  BY <4>1, <4>2
      <3>3. QED  BY <3>1, <3>2
    <2> HIDE DEF m
    <2>4. Cardinality(1 .. m) = m  BY <2>2, FS_Interval
    <2>5. QED  BY <1>2, <2>2, <2>3, <2>4
  <1>5. QED  BY <1>3, <1>4

\* What enumeratePaths returns of the walks over at most n switches: all of
\* them, or as many as it may return.
Complete(r, n, most) ==
    /\ IsFiniteSet(WalksUpTo(n))
    /\ Short(r, n) = 1 .. Lesser(most, Cardinality(WalksUpTo(n)))
    /\ \A i \in Short(r, n) : WalkOf(r[i]) \in WalksUpTo(n)
    /\ Cardinality(WalksUpTo(n)) <= most =>
          \A w \in WalksUpTo(n) : \E i \in Short(r, n) : WalkOf(r[i]) = w

LEMMA EnumeratedComplete ==
    ASSUME Searchable(topo), NEW cfg, NEW D \in Nat, cfg.maxDepth = D,
           NEW most \in Nat, cfg.maxPaths = most,
           NEW n \in Nat \ {0}, n <= D, n = 1 \/ cfg.allowSwitchSwitching
    PROVE  Complete(EnumeratePaths(topo, src, dst, cfg), n, most)
  <1> DEFINE r == EnumeratePaths(topo, src, dst, cfg)
             all == AllPaths(topo, src, dst, cfg)
             may == src # dst /\ Fit(src) /\ Fit(dst)
             W == UNION {Walks(m) : m \in 1 .. n}
             V == WalksUpTo(n)
             S == Short(all, n)
             P == AnyPath(topo, src, dst, D)
  <1>1. D \in Nat \ {0}  OBVIOUS
  <1>2. V = IF may THEN W ELSE {}  BY DEF WalksUpTo
  <1>3. r = IF most # 0 /\ may THEN FirstPaths(all, most) ELSE <<>>
    <2>1. D # 0  BY <1>1
    <2>2. EnumeratePaths(topo, src, dst, cfg) =
             IF /\ cfg.maxPaths # 0 /\ cfg.maxDepth # 0
                /\ src \in DOMAIN topo.devices /\ dst \in DOMAIN topo.devices
                /\ topo.devices[src].state \in PathEndpointStates
                /\ topo.devices[dst].state \in PathEndpointStates
                /\ src # dst
               THEN FirstPaths(all, cfg.maxPaths) ELSE <<>>
      BY Zenon DEF EnumeratePaths
    <2>3. may <=> /\ src \in DOMAIN topo.devices /\ dst \in DOMAIN topo.devices
                  /\ topo.devices[src].state \in PathEndpointStates
                  /\ topo.devices[dst].state \in PathEndpointStates
                  /\ src # dst
      BY Zenon DEF Fit, PathEndpointStates
    <2> HIDE DEF may, all
    <2>4. QED  BY <2>1, <2>2, <2>3, Zenon
  <1>4. all \in Seq(P) /\ InOrder(all)  BY <1>1, AllPathsOK
  <1>5. Len(all) \in Nat /\ DOMAIN all = 1 .. Len(all)
    <2> HIDE DEF all, P
    <2>1. QED  BY <1>4
  <1>6. \A i \in 1 .. Len(all) : Len(all[i].hops) \in Nat
    <2> SUFFICES ASSUME NEW i \in 1 .. Len(all)  PROVE Len(all[i].hops) \in Nat  OBVIOUS
    <2>1. all[i] \in P
      <3> HIDE DEF all, P
      <3>1. QED  BY <1>4
    <2>2. PICK m \in Nat \ {0} : Len(all[i].hops) = m  BY <2>1, InOneOfMany
    <2>3. QED  BY <2>2
  <1>7. Taking(all, S) \in Bijection(S, W)
    <2> DEFINE a == all
               b == W
               c == S
    <2>1. a = AllPaths(topo, src, dst, cfg) /\ b = UNION {Walks(m) : m \in 1 .. n} /\ c = Short(a, n)
      OBVIOUS
    <2> HIDE DEF a, b, c
    <2>2. Taking(a, c) \in Bijection(c, b)  BY <1>1, <2>1, PathsAreWalks
    <2>3. QED  BY <2>2 DEF a, b, c
  <1> HIDE DEF all, W, V, P, may
  <1>8. IsFiniteSet(S) /\ Cardinality(S) \in 0 .. Len(all) /\ S = 1 .. Cardinality(S)
    <2> DEFINE L == Len(all)
    <2>1. ASSUME NEW i \in S, NEW j \in 1 .. L, j < i  PROVE j \in S
      <3>1. i \in 1 .. L /\ Len(all[i].hops) <= n  BY DEF Short
      <3>2. Len(all[j].hops) <= Len(all[i].hops)  BY <1>4, <2>1, <3>1, Zenon DEF InOrder
      <3>3. Len(all[j].hops) <= n  BY <1>6, <3>1, <3>2
      <3>4. QED  BY <3>3 DEF Short
    <2>2. S \in SUBSET (1 .. L) /\ L \in Nat  BY <1>5 DEF Short
    <2> HIDE DEF S, L
    <2>3. IsFiniteSet(S) /\ Cardinality(S) \in 0 .. L /\ S = 1 .. Cardinality(S)
      BY <2>1, <2>2, Beginning
    <2>4. QED  BY <2>3 DEF L
  <1>9. /\ \A i \in S : WalkOf(all[i]) \in W
        /\ \A w \in W : \E i \in S : WalkOf(all[i]) = w
    <2> HIDE DEF S
    <2>1. QED  BY <1>7 DEF Bijection, Injection, Surjection, Taking
  <1>10. IsFiniteSet(W) /\ Cardinality(W) = Cardinality(S)
    <2> HIDE DEF S
    <2>1. ExistsBijection(S, W)  BY <1>7, Zenon DEF ExistsBijection
    <2>2. QED  BY <1>8, <2>1, FS_Bijection
  <1> DEFINE c == Cardinality(S)
  <1>11. c \in Nat /\ c <= Len(all)  BY <1>5, <1>8
  <1>12. CASE ~ may
    <2>1. V = {} /\ r = <<>>  BY <1>2, <1>3, <1>12
    <2> HIDE DEF r
    <2>2. Short(r, n) = {} /\ IsFiniteSet(V) /\ Cardinality(V) = 0
      BY <2>1, FS_EmptySet DEF Short
    <2>3. 1 .. Lesser(most, 0) = {}  BY DEF Lesser
    <2>4. QED  BY <2>1, <2>2, <2>3 DEF Complete, V, r
  <1>13. CASE may /\ most = 0
    <2>1. V = W /\ r = <<>>  BY <1>2, <1>3, <1>13
    <2> HIDE DEF r
    <2>2. Short(r, n) = {}  BY <2>1 DEF Short
    <2> HIDE DEF S
    <2>3. IsFiniteSet(V) /\ Cardinality(V) = c  BY <1>10, <2>1
    <2>4. 1 .. Lesser(most, c) = {}
      <3> HIDE DEF c
      <3>1. QED  BY <1>11, <1>13 DEF Lesser
    <2>5. Cardinality(V) <= most => V = {}
      <3>1. Cardinality(V) <= most => Cardinality(V) = 0
        <4> HIDE DEF c
        <4>1. QED  BY <1>11, <1>13, <2>3
      <3>2. QED  BY <2>3, <3>1, FS_EmptySet
    <2>6. QED  BY <2>2, <2>3, <2>4, <2>5 DEF Complete, V, r
  <1>14. CASE may /\ most # 0
    <2>1. V = W /\ r = FirstPaths(all, most)  BY <1>2, <1>3, <1>14
    <2> DEFINE L == Len(all)
               m == IF L < most THEN L ELSE most
    <2>2. m \in Nat /\ m <= L /\ m <= most /\ L \in Nat  BY <1>5
    <2>3. r = SubSeq(all, 1, m)  BY <2>1, Zenon DEF FirstPaths
    <2>4. Len(r) = m /\ \A i \in 1 .. m : r[i] = all[i] /\ i \in 1 .. L
      <3> HIDE DEF r, m
      <3>1. QED  BY <1>4, <2>2, <2>3 DEF L
    <2> HIDE DEF r
    <2>5. Short(r, n) = {i \in S : i <= m}
      <3>1. \A i \in 1 .. m : i <= m /\ i \in Nat  BY <2>2
      <3> HIDE DEF m
      <3>2. ASSUME NEW i \in Short(r, n)  PROVE i \in S /\ i <= m
        <4>1. i \in 1 .. m /\ Len(r[i].hops) <= n  BY <2>4, Zenon DEF Short
        <4>2. QED  BY <2>4, <3>1, <4>1, Zenon DEF Short, L
      <3>3. ASSUME NEW i \in S, i <= m  PROVE i \in Short(r, n)
        <4>1. i \in 1 .. L /\ Len(all[i].hops) <= n  BY Zenon DEF Short, L
        <4>2. i \in 1 .. m  BY <2>2, <3>3, <4>1
        <4>3. QED  BY <2>4, <4>1, <4>2, Zenon DEF Short
      <3>4. QED  BY <3>2, <3>3
    <2> HIDE DEF S
    <2>6. Short(r, n) = 1 .. Lesser(most, c)
      <3>1. S = 1 .. c  BY <1>8
      <3> HIDE DEF c
      <3>2. {i \in 1 .. c : i <= m} = 1 .. Lesser(most, c)
        BY <1>5, <1>11, <2>2 DEF Lesser
      <3>3. QED  BY <2>5, <3>1, <3>2
    <2>7. IsFiniteSet(V) /\ Cardinality(V) = c  BY <1>10, <2>1
    <2>8. \A i \in Short(r, n) : WalkOf(r[i]) \in V
      <3> SUFFICES ASSUME NEW i \in Short(r, n)  PROVE WalkOf(r[i]) \in V  OBVIOUS
      <3>1. i \in S /\ i \in 1 .. m  BY <2>4, <2>5, Zenon DEF Short
      <3>2. QED  BY <1>9, <2>1, <2>4, <3>1, Zenon
    <2>9. ASSUME c <= most, NEW w \in V  PROVE \E i \in Short(r, n) : WalkOf(r[i]) = w
      <3>1. PICK i \in S : WalkOf(all[i]) = w  BY <1>9, <2>1
      <3>2. i \in 1 .. c  BY <1>8
      <3> HIDE DEF c
      <3>3. i <= m /\ i \in 1 .. m  BY <1>11, <2>2, <2>9, <3>2
      <3>4. i \in Short(r, n)  BY <2>5, <3>3
      <3>5. r[i] = all[i]  BY <2>4, <3>3
      <3>6. QED  BY <3>1, <3>4, <3>5, Zenon
    <2> HIDE DEF c
    <2>10. QED  BY <2>6, <2>7, <2>8, <2>9, Zenon DEF Complete, V, r
  <1>15. QED  BY <1>12, <1>13, <1>14

\* enumeratePaths misses no path: of the paths within the depth bound only the
\* longest are cut off, and only when there are more than it may return.
THEOREM ShortestPathsKept == QuerySpec => []TruncationKeepsShortest
  <1>1. AnswerInv => TruncationKeepsShortest
    <2> DEFINE cfg == query.traversal
               D == cfg.maxDepth
               most == cfg.maxPaths
    <2> SUFFICES ASSUME AnswerInv, query.kind = "paths", NEW n \in 1 .. D,
                        n = 1 \/ cfg.allowSwitchSwitching
                 PROVE  Cardinality({k \in DOMAIN answer : Len(answer[k].hops) <= n})
                           = Lesser(most, Cardinality(WalksUpTo(n)))
      BY Zenon DEF TruncationKeepsShortest
    <2>1. Searchable(topo) /\ cfg \in Traversals /\ answer = EnumeratePaths(topo, src, dst, cfg)
      BY FabricAssumption DEF AnswerInv, Searchable
    <2>2. D \in Nat /\ most \in Nat  BY <2>1, ArgumentAssumption
    <2>3. n \in Nat \ {0} /\ n <= D  BY <2>2
    <2>4. answer \in Seq(AnyPath(topo, src, dst, D))  BY <2>1, <2>2, EnumeratedOK
    <2>5. Complete(answer, n, most)
      <3> HIDE DEF cfg
      <3>1. QED  BY <2>1, <2>2, <2>3, EnumeratedComplete
    <2>6. DOMAIN answer = 1 .. Len(answer)
      <3> DEFINE P == AnyPath(topo, src, dst, D)
      <3> HIDE DEF P
      <3>1. answer \in Seq(P)  BY <2>4 DEF P
      <3>2. QED  BY <3>1
    <2> DEFINE c == Lesser(most, Cardinality(WalksUpTo(n)))
    <2>7. {k \in DOMAIN answer : Len(answer[k].hops) <= n} = 1 .. c
      BY <2>5, <2>6, Zenon DEF Complete, Short
    <2>8. c \in Nat  BY <2>2, <2>5, FS_CardinalityType DEF Complete, Lesser
    <2> HIDE DEF c
    <2>9. Cardinality(1 .. c) = c  BY <2>8, FS_Interval
    <2>10. QED  BY <2>7, <2>9 DEF c
  <1>2. QED  BY <1>1, AnswersInvariant, PTL

-----------------------------------------------------------------------------
(* Reachability. *)

\* A path is degraded if and only if its walk is.
LEMMA StateOfWalk ==
    ASSUME Searchable(topo), NEW D \in Nat, NEW p \in AnyPath(topo, src, dst, D)
    PROVE  /\ Len(p.hops) \in Nat \ {0} /\ Len(p.hops) <= D
           /\ WalkFacts(WalkOf(p), Len(p.hops))
           /\ p.state = IF Clear(WalkOf(p)) THEN "UP" ELSE "DEGRADED"
           /\ \A i \in 1 .. Len(p.hops) : Passed(WalkOf(p))[i] = p.hops[i].sw
           /\ WalkLinks(WalkOf(p)) = PathLinks(p)
  <1>1. PICK m \in Nat \ {0} : /\ p \in Paths(topo, src, dst, D, m) /\ Len(p.hops) = m
                               /\ p.state = PathState(topo, p.links) /\ DOMAIN p.links = 1 .. (m + 1)
    BY InOneOfMany
  <1>2. m <= D  BY <1>1, Zenon DEF Paths
  <1>3. TakenBy(p, WalkOf(p), m)  BY <1>1, WalkTaken
  <1>4. WalkLinks(WalkOf(p)) = {p.links[i] : i \in DOMAIN p.links}  BY <1>1, <1>3, Zenon DEF TakenBy
  <1>5. p.state = IF Clear(WalkOf(p)) THEN "UP" ELSE "DEGRADED"
    <2>1. Clear(WalkOf(p)) <=> ~ \E i \in DOMAIN p.links : topo.links[p.links[i]].degraded
      BY <1>4, Zenon DEF Clear
    <2>2. QED  BY <1>1, <2>1, Zenon DEF PathState
  <1>6. QED  BY <1>1, <1>2, <1>3, <1>4, <1>5, Zenon DEF TakenBy, PathLinks

\* The partitions found last keep two devices apart.
Apart(t, s, d) ==
    /\ InCurrentPartition(t, {s}) /\ InCurrentPartition(t, {d})
    /\ LastPartition(t, {s}) # LastPartition(t, {d})

Sound(t, d) == d \in DOMAIN t.devices /\ t.devices[d].state \in {"UP", "PRESENT", "DEGRADED"}

\* What deviceReachability says of two devices, of the paths p it looked at.
Judged(t, s, d, p, r) ==
    /\ r \in {"REACHABLE", "REACHABLE_DEGRADED"} => ~ Apart(t, s, d) /\ p # <<>>
    /\ r = "REACHABLE" => \E i \in DOMAIN p : p[i].state = "UP"
    /\ r = "REACHABLE_DEGRADED" => \A i \in DOMAIN p : p[i].state # "UP"
    /\ Sound(t, s) /\ Sound(t, d) /\ ~ Apart(t, s, d) /\ p # <<>>
          => r \in {"REACHABLE", "REACHABLE_DEGRADED"}

LEMMA ReachabilityChain ==
    ASSUME NEW t, NEW s, NEW d, s # d, NEW p, p = EnumeratePaths(t, s, d, DefaultTraversal),
           NEW r, r = DeviceReachability(t, s, d)
    PROVE  Judged(t, s, d, p, r)
  <1> DEFINE anySwitchDown == \E w \in DOMAIN t.switches : t.switches[w].state \in Lost \cup Stale
             anyPortDown == \E x \in DOMAIN t.ports :
                    t.ports[x].state \in {"DOWN", "UNREACHABLE", "DISABLED"} \cup Stale
             up == \E i \in DOMAIN p : p[i].state = "UP"
             sState == t.devices[s].state
             dState == t.devices[d].state
             there == {s, d} \subseteq DOMAIN t.devices
             blocked == Apart(t, s, d)
  <1>1. r = IF ~ there THEN "INSUFFICIENT_EVIDENCE"
            ELSE IF s = d THEN "REACHABLE"
            ELSE IF sState \in Stale \/ dState \in Stale THEN "ENDPOINT_STALE"
            ELSE IF "UNSUPPORTED" \in {sState, dState} THEN "UNSUPPORTED"
            ELSE IF sState \in Lost \/ dState \in Lost THEN "UNREACHABLE"
            ELSE IF blocked THEN "PARTITION_BLOCKED"
            ELSE IF p = <<>> THEN (IF anySwitchDown THEN "SWITCH_DOWN"
                                       ELSE IF anyPortDown THEN "PORT_DOWN"
                                       ELSE "UNREACHABLE")
            ELSE IF up THEN "REACHABLE"
            ELSE "REACHABLE_DEGRADED"
    BY Zenon DEF DeviceReachability, Apart
  <1>2. Sound(t, s) /\ Sound(t, d) =>
           /\ there
           /\ sState \in {"UP", "PRESENT", "DEGRADED"} /\ dState \in {"UP", "PRESENT", "DEGRADED"}
    BY DEF Sound
  <1>3. ~ up => \A i \in DOMAIN p : p[i].state # "UP"  OBVIOUS
  <1>4. up => \E i \in DOMAIN p : p[i].state = "UP"  OBVIOUS
  <1> HIDE DEF anySwitchDown, anyPortDown, up, sState, dState, there, blocked
  <1>5. /\ r \in {"REACHABLE", "REACHABLE_DEGRADED"} => ~ blocked /\ p # <<>>
        /\ r = "REACHABLE" => up
        /\ r = "REACHABLE_DEGRADED" => ~ up
    BY <1>1
  <1>6. ASSUME there, sState \in {"UP", "PRESENT", "DEGRADED"},
               dState \in {"UP", "PRESENT", "DEGRADED"}, ~ blocked, p # <<>>
        PROVE  r \in {"REACHABLE", "REACHABLE_DEGRADED"}
    <2>1. /\ sState \notin Stale /\ dState \notin Stale /\ sState \notin Lost /\ dState \notin Lost
          /\ "UNSUPPORTED" \notin {sState, dState}
      BY <1>6 DEF Stale, Lost
    <2>2. QED  BY <1>1, <1>6, <2>1
  <1>7. Sound(t, s) /\ Sound(t, d) /\ ~ blocked /\ p # <<>>
           => r \in {"REACHABLE", "REACHABLE_DEGRADED"}
    BY <1>2, <1>6
  <1>8. QED  BY <1>5, <1>3, <1>4, <1>7, Zenon DEF Judged, blocked

\* The last partition of a device is the largest of those it is in.
LEMMA LastInside ==
    ASSUME topo \in Fabrics, NEW d
    PROVE  /\ InCurrentPartition(topo, {d}) <=> Inside(d) # {}
           /\ Inside(d) # {} => LastPartition(topo, {d}) \in Inside(d)
           /\ LastPartition(topo, {d}) = Max(Inside(d))
  <1>1. Inside(d) = {p \in CurrentPartitions(topo) : {d} \subseteq topo.partitions[p].members}
    BY DEF Inside
  <1>2. InCurrentPartition(topo, {d}) <=> Inside(d) # {}
    BY <1>1, Zenon DEF InCurrentPartition
  <1>3. LastPartition(topo, {d}) = Max(Inside(d))  BY <1>1, Zenon DEF LastPartition
  <1>4. Inside(d) \in SUBSET Int /\ IsFiniteSet(Inside(d))
    <2>1. Inside(d) \subseteq DOMAIN topo.partitions  BY DEF Inside, CurrentPartitions
    <2>2. IsFiniteSet(DOMAIN topo.partitions) /\ IsTopology(topo)  BY FabricAssumption
    <2>3. DOMAIN topo.partitions \subseteq PartitionIds  BY <2>2, Zenon DEF IsTopology, IsMap
    <2>4. PartitionIds \subseteq Int  BY IdAssumption
    <2>5. QED  BY <2>1, <2>2, <2>3, <2>4, FS_Subset
  <1> DEFINE S == Inside(d)
  <1> HIDE DEF S
  <1>5. S # {} => Max(S) \in S  BY <1>4, MinMax DEF S
  <1>6. QED  BY <1>2, <1>3, <1>5 DEF S

\* deviceReachability calls two devices reachable only over a walk and not
\* across partitions, tells a degraded connection from a healthy one, and calls
\* no pair unreachable that current switches connect and no partition separates.
THEOREM ReachabilityIsHonest == QuerySpec => []ReachabilityHonest
  <1>1. AnswerInv => ReachabilityHonest
    <2> DEFINE walks == WalksUpTo(kMaxPathDepth)
               paths == EnumeratePaths(topo, src, dst, DefaultTraversal)
               D == kMaxPathDepth
               P == AnyPath(topo, src, dst, D)
               blocked == Apart(topo, src, dst)
    <2> SUFFICES ASSUME AnswerInv, query.kind = "reachability", src # dst
                 PROVE  /\ answer \in {"REACHABLE", "REACHABLE_DEGRADED"} => walks # {} /\ ~ Split
                        /\ walks # {} /\ Inside(src) = Inside(dst)
                              => answer \in {"REACHABLE", "REACHABLE_DEGRADED"}
                        /\ answer = "REACHABLE" => \E w \in walks : Clear(w)
                        /\ answer = "REACHABLE_DEGRADED" =>
                              /\ \E w \in walks : ~ Clear(w)
                              /\ Cardinality(walks) <= kMaxCandidatePaths =>
                                    \A w \in walks : ~ Clear(w)
      BY Zenon DEF ReachabilityHonest, Reached, Undisputed, Clear
    <2>1. Searchable(topo) /\ topo \in Fabrics /\ answer = DeviceReachability(topo, src, dst)
      BY FabricAssumption DEF AnswerInv, Searchable
    <2>2. /\ D \in Nat \ {0} /\ kMaxCandidatePaths \in Nat /\ kMaxCandidatePaths >= 2
          /\ DefaultTraversal.maxDepth = D /\ DefaultTraversal.maxPaths = kMaxCandidatePaths
          /\ DefaultTraversal.allowSwitchSwitching
      BY PathLimitAssumption DEF DefaultTraversal
    <2>3. paths \in Seq(P)
      <3>1. D \in Nat /\ DefaultTraversal.maxPaths \in Nat  BY <2>2
      <3>2. QED  BY <2>1, <2>2, <3>1, EnumeratedOK
    <2>4. Complete(paths, D, kMaxCandidatePaths)
      <3>1. D \in Nat /\ D <= D  BY <2>2
      <3>2. QED  BY <2>1, <2>2, <3>1, EnumeratedComplete
    <2> HIDE DEF paths, P
    <2>5. DOMAIN paths = 1 .. Len(paths) /\ \A i \in DOMAIN paths : paths[i] \in P
      BY <2>3
    <2>6. \A i \in DOMAIN paths : /\ Len(paths[i].hops) <= D
                                  /\ paths[i].state = IF Clear(WalkOf(paths[i])) THEN "UP" ELSE "DEGRADED"
      <3>1. D \in Nat  BY <2>2
      <3>2. \A p \in P : Len(p.hops) <= D /\ p.state = IF Clear(WalkOf(p)) THEN "UP" ELSE "DEGRADED"
        BY <2>1, <3>1, StateOfWalk DEF P
      <3>3. QED  BY <2>5, <3>2
    <2>7. Short(paths, D) = DOMAIN paths  BY <2>5, <2>6 DEF Short
    <2>8. \A i \in DOMAIN paths : WalkOf(paths[i]) \in walks
      BY <2>4, <2>7, Zenon DEF Complete
    <2>9. paths = <<>> <=> walks = {}
      <3>1. DOMAIN paths = 1 .. Lesser(kMaxCandidatePaths, Cardinality(walks)) /\ IsFiniteSet(walks)
        BY <2>4, <2>7, Zenon DEF Complete
      <3> DEFINE c == Cardinality(walks)
      <3>2. c \in Nat /\ (c = 0 <=> walks = {})  BY <3>1, FS_CardinalityType, FS_EmptySet
      <3> HIDE DEF c
      <3>3. c = 0 <=> 1 .. Lesser(kMaxCandidatePaths, c) = {}  BY <2>2, <3>2 DEF Lesser
      <3>4. paths = <<>> <=> DOMAIN paths = {}
        <4>1. paths \in Seq(P) /\ Len(paths) \in Nat  BY <2>3
        <4> DEFINE n == Len(paths)
        <4> HIDE DEF n
        <4>2. 1 .. n = {} <=> n = 0
          <5>1. n \in Nat  BY <4>1 DEF n
          <5>2. QED  BY <5>1
        <4>3. Len(paths) = 0 <=> paths = <<>>  BY <4>1
        <4>4. QED  BY <2>5, <4>2, <4>3 DEF n
      <3>5. QED  BY <3>1, <3>2, <3>3, <3>4 DEF c
    <2> HIDE DEF walks
    <2>10. Judged(topo, src, dst, paths, answer)
      <3>1. src # dst /\ answer = DeviceReachability(topo, src, dst)  BY <2>1
      <3>2. paths = EnumeratePaths(topo, src, dst, DefaultTraversal)  BY DEF paths
      <3>3. QED  BY <3>1, <3>2, ReachabilityChain
    <2>11. Split => blocked
      <3>1. ASSUME Split  PROVE blocked
        <4>1. Inside(src) # {} /\ Inside(dst) # {} /\ Inside(src) \cap Inside(dst) = {}
          BY <3>1 DEF Split
        <4>2. LastPartition(topo, {src}) \in Inside(src) /\ LastPartition(topo, {dst}) \in Inside(dst)
          BY <2>1, <4>1, LastInside
        <4>3. InCurrentPartition(topo, {src}) /\ InCurrentPartition(topo, {dst})
          BY <2>1, <4>1, LastInside
        <4>4. LastPartition(topo, {src}) # LastPartition(topo, {dst})  BY <4>1, <4>2
        <4>5. QED  BY <4>3, <4>4, Zenon DEF Apart
      <3>2. QED  BY <3>1
    <2>12. ASSUME Inside(src) = Inside(dst)  PROVE ~ blocked
      <3>1. /\ LastPartition(topo, {src}) = Max(Inside(src))
            /\ LastPartition(topo, {dst}) = Max(Inside(dst))
        BY <2>1, LastInside
      <3>2. LastPartition(topo, {src}) = LastPartition(topo, {dst})  BY <2>12, <3>1
      <3>3. QED  BY <3>2, Zenon DEF Apart
    <2> HIDE DEF blocked
    <2>13. walks # {} => Fit(src) /\ Fit(dst)  BY DEF WalksUpTo, walks
    <2>14. answer \in {"REACHABLE", "REACHABLE_DEGRADED"} => walks # {} /\ ~ Split
      BY <2>9, <2>10, <2>11, Zenon DEF Judged, blocked
    <2>15. ASSUME walks # {}, Inside(src) = Inside(dst)
           PROVE  answer \in {"REACHABLE", "REACHABLE_DEGRADED"}
      BY <2>9, <2>10, <2>12, <2>13, <2>15, Zenon DEF Fit, Sound, Judged, blocked
    <2>16. ASSUME answer = "REACHABLE"  PROVE \E w \in walks : Clear(w)
      <3>1. PICK i \in DOMAIN paths : paths[i].state = "UP"  BY <2>10, <2>16, Zenon DEF Judged
      <3>2. Clear(WalkOf(paths[i]))  BY <2>6, <3>1
      <3>3. QED  BY <2>8, <3>2
    <2>17. ASSUME answer = "REACHABLE_DEGRADED"
           PROVE  /\ \E w \in walks : ~ Clear(w)
                  /\ Cardinality(walks) <= kMaxCandidatePaths => \A w \in walks : ~ Clear(w)
      <3>1. \A i \in DOMAIN paths : paths[i].state # "UP"  BY <2>10, <2>17, Zenon DEF Judged
      <3>2. \A i \in DOMAIN paths : ~ Clear(WalkOf(paths[i]))  BY <3>1, <2>6
      <3>3. DOMAIN paths # {}
        <4>1. paths # <<>>  BY <2>10, <2>17 DEF Judged
        <4>2. QED  BY <2>3, <2>5, <4>1, SMTT(40)
      <3>4. \E w \in walks : ~ Clear(w)  BY <2>8, <3>2, <3>3
      <3>5. Cardinality(walks) <= kMaxCandidatePaths => \A w \in walks : ~ Clear(w)
        BY <2>4, <2>7, <3>2, Zenon DEF Complete, walks
      <3>6. QED  BY <3>4, <3>5
    <2>18. QED  BY <2>14, <2>15, <2>16, <2>17, Zenon
  <1>2. QED  BY <1>1, AnswersInvariant, PTL
-----------------------------------------------------------------------------
(* Routes. *)

LEMMA LesserIsMin ==
    ASSUME NEW a \in Nat, NEW b \in Nat
    PROVE  Min({a, b}) = Lesser(a, b) /\ Lesser(a, b) \in Nat
           /\ Lesser(a, b) <= a /\ Lesser(a, b) <= b
  <1> DEFINE S == {a, b}
  <1>1. IsFiniteSet(S)
    <2>1. IsFiniteSet({a})  BY FS_Singleton
    <2>2. IsFiniteSet({a} \cup {b})  BY <2>1, FS_AddElement
    <2>3. {a} \cup {b} = S  OBVIOUS
    <2>4. QED  BY <2>2, <2>3
  <1>2. S \in SUBSET Int /\ S # {} /\ a \in S /\ b \in S  OBVIOUS
  <1> DEFINE m == Min(S)
  <1>3. m \in S /\ m <= a /\ m <= b
    <2> HIDE DEF S
    <2>1. QED  BY <1>1, <1>2, MinMax
  <1> HIDE DEF m
  <1>4. QED  BY <1>3 DEF m, Lesser

\* The bounds computeRoute searches with, without the modulus.
LEMMA PolicyTraversal ==
    ASSUME NEW pol \in RoutePolicy
    PROVE  /\ RouteTraversal(pol).maxPaths = Bound(pol) /\ Bound(pol) \in Nat
           /\ RouteTraversal(pol).maxDepth = Depth(pol) /\ Depth(pol) \in Nat
           /\ RouteTraversal(pol).allowSwitchSwitching
           /\ pol.maxAllowedHops \in 1 .. (U64 - 2) => Depth(pol) >= 1 /\ Bound(pol) >= 2
           /\ pol.maxAllowedHops = U64 - 1 => Bound(pol) = 0
  <1> DEFINE h == pol.maxAllowedHops
             g == (h + 1) % U64
  <1>1. h \in 0 .. (U64 - 1)  BY DEF RoutePolicy
  <1>2. /\ RouteTraversal(pol).maxPaths = Min({g, kMaxCandidatePaths})
        /\ RouteTraversal(pol).maxDepth = Min({h, kMaxPathDepth})
        /\ RouteTraversal(pol).allowSwitchSwitching
    BY DEF RouteTraversal
  <1>3. Bound(pol) = (IF h = U64 - 1 THEN 0 ELSE Lesser(h + 1, kMaxCandidatePaths))
        /\ Depth(pol) = Lesser(h, kMaxPathDepth)
    BY DEF Bound, Depth
  <1> HIDE DEF h
  <1>4. /\ h \in Nat /\ h + 1 \in Nat /\ U64 \in Nat /\ U64 > 2
        /\ kMaxCandidatePaths \in Nat /\ kMaxCandidatePaths >= 2
        /\ kMaxPathDepth \in Nat /\ kMaxPathDepth >= 1
    BY <1>1, WidthAssumption, PathLimitAssumption
  <1>5. g = IF h = U64 - 1 THEN 0 ELSE h + 1
    <2>1. CASE h = U64 - 1
      <3>1. h + 1 = U64  BY <1>4, <2>1
      <3>2. U64 % U64 = 0  BY <1>4
      <3>3. QED  BY <2>1, <3>1, <3>2
    <2>2. CASE h # U64 - 1
      <3>1. h + 1 \in 0 .. (U64 - 1)  BY <1>1, <1>4, <2>2
      <3>2. \A x \in 0 .. (U64 - 1) : x % U64 = x  BY <1>4
      <3>3. QED  BY <2>2, <3>1, <3>2
    <2>3. QED  BY <2>1, <2>2
  <1> HIDE DEF g
  <1>6. g \in Nat  BY <1>4, <1>5
  <1>7. /\ Min({g, kMaxCandidatePaths}) = Lesser(g, kMaxCandidatePaths)
        /\ Min({h, kMaxPathDepth}) = Lesser(h, kMaxPathDepth)
    BY <1>4, <1>6, LesserIsMin
  <1>8. Lesser(0, kMaxCandidatePaths) = 0  BY <1>4 DEF Lesser
  <1>9. Lesser(g, kMaxCandidatePaths) = Bound(pol)  BY <1>3, <1>5, <1>8
  <1>10. /\ Bound(pol) \in Nat /\ Depth(pol) \in Nat
         /\ h \in 1 .. (U64 - 2) => Depth(pol) >= 1 /\ Bound(pol) >= 2
         /\ h = U64 - 1 => Bound(pol) = 0
    BY <1>3, <1>4 DEF Lesser
  <1>11. QED  BY <1>2, <1>3, <1>7, <1>9, <1>10 DEF h

\* computeRoute may search if and only if nothing forbids the pair.
LEMMA GateOpen ==
    ASSUME src # dst, Fit(src), Fit(dst), NEW pol
    PROVE  GateOutcome(topo, src, dst, pol) = "SEARCH" <=> Permitted(pol)
  <1> DEFINE there == {src, dst} \subseteq DOMAIN topo.devices
             away == ~ topo.devices[src].present \/ ~ topo.devices[dst].present \/ src = dst
             old == ~ CurrentState(topo.devices[src].state) \/ ~ CurrentState(topo.devices[dst].state)
             outside == /\ CurrentPartitions(topo) # {}
                        /\ ~ InCurrentPartition(topo, {src, dst})
                        /\ pol.insidePartition
             stale == \E p \in DOMAIN topo.partitions : topo.partitions[p].state = "STALE"
  <1>1. GateOutcome(topo, src, dst, pol) =
           IF ~ there THEN "NO_ROUTE"
           ELSE IF away THEN "NO_ROUTE"
           ELSE IF old THEN "REVALIDATION_REQUIRED"
           ELSE IF outside THEN (IF stale THEN "STALE_PARTITION" ELSE "PARTITION_BLOCKED")
           ELSE "SEARCH"
    BY Zenon DEF GateOutcome
  <1>2. there /\ ~ old  BY DEF Fit, CurrentState
  <1>3. InCurrentPartition(topo, {src, dst}) <=> Inside(src) \cap Inside(dst) # {}
    BY DEF InCurrentPartition, Inside
  <1>4. Permitted(pol) <=> ~ away /\ ~ outside  BY <1>3, Zenon DEF Permitted
  <1> HIDE DEF there, away, old, outside, stale
  <1>5. QED  BY <1>1, <1>2, <1>4
\* A path may be selected if and only if its walk suits the policy, as long as
\* no port is stale; a direct path names no port that could be.
LEMMA EligibleWalk ==
    ASSUME Searchable(topo), NEW D \in Nat, NEW p \in AnyPath(topo, src, dst, D), NEW pol,
           NoStalePorts \/ Len(p.hops) = 1
    PROVE  Eligible(topo, p, pol) <=> Routable(WalkOf(p), pol)
  <1> DEFINE w == WalkOf(p)
             n == Len(p.hops)
  <1>1. /\ n \in Nat \ {0} /\ WalkFacts(w, n)
        /\ p.state = IF Clear(w) THEN "UP" ELSE "DEGRADED"
        /\ \A i \in 1 .. n : Passed(w)[i] = p.hops[i].sw
        /\ WalkLinks(w) = PathLinks(p)
    BY StateOfWalk
  <1>2. LeadsFromTo(topo, src, dst, p, n)
    <2>1. PICK m \in Nat \ {0} : LeadsFromTo(topo, src, dst, p, m)  BY PathFacts, Zenon
    <2>2. m = n  BY <2>1, Zenon DEF LeadsFromTo
    <2>3. QED  BY <2>1, <2>2
  <1>3. /\ DOMAIN p.hops = 1 .. n /\ DOMAIN p.links = 1 .. (n + 1)
        /\ \A i \in 1 .. n : Joins(topo, p.links[i + 1], p.hops[i].sw,
                   IF i = n THEN DeviceEnd(dst) ELSE SwitchEnd(p.hops[i + 1].sw))
        /\ \A i \in 1 .. (n + 1) : EdgeUsable(topo, p.links[i])
        /\ Joins(topo, p.links[1], p.hops[1].sw, DeviceEnd(src))
    BY <1>2, Zenon DEF LeadsFromTo
  <1>4. DOMAIN Passed(w) = 1 .. n  BY <1>1, Zenon DEF WalkFacts
  <1> HIDE DEF w, n
  <1>5. \A s \in HopSwitches(p) : s \in DOMAIN topo.switches
    <2> SUFFICES ASSUME NEW i \in 1 .. n  PROVE p.hops[i].sw \in DOMAIN topo.switches
      BY <1>3 DEF HopSwitches
    <2>1. PICK l, far : Joins(topo, l, p.hops[i].sw, far)  BY <1>3, Zenon
    <2>2. \A x, sw, y : Joins(topo, x, sw, y) => sw \in DOMAIN topo.switches  BY IntoFacts, Zenon
    <2>3. QED  BY <2>1, <2>2, Zenon
  <1>6. (\A s \in HopSwitches(p) : s \in DOMAIN topo.switches /\ CurrentState(topo.switches[s].state))
           <=> \A i \in DOMAIN Passed(w) : CurrentState(topo.switches[Passed(w)[i]].state)
    <2>1. HopSwitches(p) = {Passed(w)[i] : i \in DOMAIN Passed(w)}  BY <1>1, <1>3, <1>4 DEF HopSwitches
    <2>2. QED  BY <1>5, <2>1
  <1>7. ASSUME NEW l \in PathLinks(p)
        PROVE  /\ l \in DOMAIN topo.links /\ topo.links[l].state \notin Stale
               /\ topo.links[l].port \in DOMAIN topo.ports
               /\ topo.ports[topo.links[l].port].state \notin Stale
    <2>1. PICK i \in 1 .. (n + 1) : l = p.links[i]  BY <1>3 DEF PathLinks
    <2>2. EdgeUsable(topo, l)  BY <1>3, <2>1
    <2>3. l \in DOMAIN topo.links
      <3>1. CASE i = 1  BY <1>3, <2>1, <3>1, Zenon DEF Joins
      <3>2. CASE i # 1
        <4>1. i - 1 \in 1 .. n /\ (i - 1) + 1 = i  BY <1>1, <3>2
        <4>2. p.links[(i - 1) + 1] \in DOMAIN topo.links  BY <1>3, <4>1, Zenon DEF Joins
        <4>3. QED  BY <2>1, <4>1, <4>2
      <3>3. QED  BY <3>1, <3>2
    <2>4. QED  BY <2>2, <2>3 DEF EdgeUsable, TraversableState, Stale
  <1>8. \A x \in PathPorts(p) : NotStalePort(topo, x)
    <2>1. /\ PathPorts(p) \subseteq DOMAIN topo.ports
          /\ n = 1 => PathPorts(p) \subseteq {topo.links[p.links[1]].port, topo.links[p.links[2]].port}
      BY <1>1, <1>2, PortsThere
    <2>2. CASE NoStalePorts  BY <2>1, <2>2 DEF NoStalePorts, NotStalePort
    <2>3. CASE n = 1
      <3>1. p.links[1] \in PathLinks(p) /\ p.links[2] \in PathLinks(p)
        <4>1. 1 \in DOMAIN p.links /\ 2 \in DOMAIN p.links  BY <1>3, <2>3
        <4>2. QED  BY <4>1, Zenon DEF PathLinks
      <3>2. QED  BY <1>7, <2>1, <2>3, <3>1 DEF NotStalePort
    <2>4. QED  BY <2>2, <2>3 DEF n
  <1>9. (Strict(pol) => p.state # "DEGRADED") <=> (Strict(pol) => Clear(w))
    BY <1>1
  <1>10. Eligible(topo, p, pol) <=>
            /\ \A s \in HopSwitches(p) : s \in DOMAIN topo.switches /\ CurrentState(topo.switches[s].state)
            /\ Strict(pol) => p.state # "DEGRADED"
    BY <1>7, <1>8, Zenon DEF Eligible, Strict
  <1>11. Routable(w, pol) <=>
            /\ \A i \in DOMAIN Passed(w) : CurrentState(topo.switches[Passed(w)[i]].state)
            /\ Strict(pol) => Clear(w)
    BY Zenon DEF Routable, Live, Clear
  <1>12. QED  BY <1>6, <1>9, <1>10, <1>11 DEF w

\* A policy that counts switches first selects a path no longer than any other
\* candidate.
LEMMA ShortestSelected ==
    ASSUME Searchable(topo), NEW D \in Nat, NEW raw \in Seq(AnyPath(topo, src, dst, D)),
           NEW cands \in SUBSET DOMAIN raw, cands # {},
           NEW pol \in RoutePolicy, HopsFirst(pol), NEW M, Rated(M)
    PROVE  \A i \in cands : Len(BestPath(raw, cands, topo, pol, M).hops) <= Len(raw[i].hops)
  <1> DEFINE f == pol.factors
             V(i, x) == FactorValue(f[x], raw[i], topo, M)
             key(i) == RankKey(raw[i], topo, pol, M)
  <1>1. f \in Seq(RouteFactor)  BY DEF RoutePolicy
  <1>2. PICK b \in cands :
           /\ BestPath(raw, cands, topo, pol, M) = raw[b]
           /\ \A j \in cands : ~ RanksBefore(key(j), key(b))
    BY <1>1, BestChosen
  <1>3. PICK k \in DOMAIN f :
           /\ f[k] \in {"FEWER_SWITCHES", "FEWER_HOPS", "DIRECTNESS", "FAILURE_DOMAIN_DIVERSITY"}
           /\ \A j \in 1 .. (k - 1) : f[j] \in {"MEASURED_THROUGHPUT", "MEASURED_LATENCY",
                                                "FRESHNESS", "CONFIDENCE", "POLICY_PREFERENCE"}
    BY Zenon DEF HopsFirst
  <1>4. \A i \in cands : key(i).factors = [x \in DOMAIN f |-> V(i, x)]
    BY DEF RankKey
  <1>5. \A i \in cands : V(i, k) = Len(raw[i].hops)
    BY <1>3 DEF FactorValue
  <1>6. \A i \in cands : \A x \in 1 .. (k - 1) : V(i, x) = V(b, x)
    BY <1>3 DEF FactorValue
  <1>7. \A x \in 1 .. (k - 1) : x \in DOMAIN f
    <2> HIDE DEF f
    <2>1. QED  BY <1>1, <1>3
  <1>8. \A i \in cands : Len(raw[i].hops) \in Nat
    <2> SUFFICES ASSUME NEW i \in cands  PROVE Len(raw[i].hops) \in Nat  OBVIOUS
    <2> DEFINE P == AnyPath(topo, src, dst, D)
    <2>1. raw[i] \in P
      <3> HIDE DEF P
      <3>1. raw \in Seq(P)  BY DEF P
      <3>2. QED  BY <3>1
    <2>2. PICK m \in Nat \ {0} : Len(raw[i].hops) = m  BY <2>1, InOneOfMany
    <2>3. QED  BY <2>2
  <1> HIDE DEF f, V, key
  <1>9. ASSUME NEW i \in cands, Len(raw[i].hops) < Len(raw[b].hops)  PROVE FALSE
    <2> DEFINE u == key(i).factors
               v == key(b).factors
    <2>1. /\ DOMAIN u = DOMAIN f /\ DOMAIN v = DOMAIN f
          /\ \A x \in DOMAIN f : u[x] = V(i, x) /\ v[x] = V(b, x)
      BY <1>4
    <2> HIDE DEF u, v
    <2>2. u[k] < v[k]  BY <1>3, <1>5, <1>9, <2>1
    <2>3. \A x \in 1 .. (k - 1) : u[x] = v[x]  BY <1>6, <1>7, <2>1
    <2>4. LexLess(u, v)  BY <1>3, <2>1, <2>2, <2>3, Zenon DEF LexLess
    <2>5. RanksBefore(key(i), key(b))  BY <2>4, Zenon DEF RanksBefore, u, v
    <2>6. QED  BY <1>2, <2>5
  <1>10. QED  BY <1>2, <1>8, <1>9
\* What the answer to a route query says of the paths raw that were looked at
\* and the candidates among them.
RouteFound(pol, raw, cands) ==
    /\ DOMAIN raw = 1 .. Len(raw) /\ cands = Candidates(topo, raw, pol)
    /\ \A i \in DOMAIN raw : /\ raw[i] \in AnyPath(topo, src, dst, Depth(pol))
                             /\ Len(raw[i].hops) \in 1 .. Depth(pol)
    /\ \A i, j \in DOMAIN raw : i < j => raw[i].links # raw[j].links
    /\ \A n \in 1 .. Depth(pol) : Complete(raw, n, Bound(pol))
    /\ Bound(pol) = 0 => raw = <<>>
    /\ answer.outcome \in Allowed <=> GateOutcome(topo, src, dst, pol) = "SEARCH" /\ cands # {}
    /\ answer.outcome \in Allowed =>
          /\ \E i \in cands : answer.selected = raw[i]
          /\ HopsFirst(pol) => \A i \in cands : Len(answer.selected.hops) <= Len(raw[i].hops)

LEMMA RouteAnswered ==
    ASSUME AnswerInv, query.kind = "route"
    PROVE  /\ query.policy \in RoutePolicy /\ Searchable(topo)
           /\ \E raw, cands : RouteFound(query.policy, raw, cands)
  <1> DEFINE pol == query.policy
             raw == Searched(topo, src, dst, pol)
             cands == Candidates(topo, raw, pol)
             D == Depth(pol)
             P == AnyPath(topo, src, dst, D)
             cfg == RouteTraversal(pol)
  <1>1. pol \in RoutePolicy /\ Searchable(topo)
    BY FabricAssumption, ArgumentAssumption DEF AnswerInv, Searchable
  <1>2. PICK log \in MeasurementLogs : answer = ComputeRoute(topo, src, dst, pol, log, 1, topo.epoch)
    BY Zenon DEF AnswerInv
  <1> DEFINE M == MatchedMeasurements(log, src, dst)
  <1>3. Rated(M)  BY ArgumentAssumption, LogRated
  <1>4. Decides(topo, src, dst, pol, M, raw, cands, answer)  BY <1>2, DecisionMade
  <1>5. /\ cfg.maxPaths = Bound(pol) /\ Bound(pol) \in Nat
        /\ cfg.maxDepth = D /\ D \in Nat /\ cfg.allowSwitchSwitching
    BY <1>1, PolicyTraversal
  <1>6. raw = EnumeratePaths(topo, src, dst, cfg)  BY DEF Searched
  <1>7. cands \in SUBSET DOMAIN raw  BY DEF Candidates
  <1> HIDE DEF pol, raw, cands, D, cfg, M
  <1>8. raw \in Seq(P) /\ InOrder(raw)  BY <1>1, <1>5, <1>6, EnumeratedOK
  <1>9. \A n \in 1 .. D : Complete(raw, n, Bound(pol))
    <2> SUFFICES ASSUME NEW n \in 1 .. D  PROVE Complete(raw, n, Bound(pol))  OBVIOUS
    <2>1. n \in Nat \ {0} /\ n <= D  BY <1>5
    <2>2. QED  BY <1>1, <1>5, <1>6, <2>1, EnumeratedComplete
  <1>10. Bound(pol) = 0 => raw = <<>>  BY <1>5, <1>6, Zenon DEF EnumeratePaths
  <1>11. DOMAIN raw = 1 .. Len(raw) /\ \A i \in DOMAIN raw : raw[i] \in P
    <2> HIDE DEF P
    <2>1. QED  BY <1>8
  <1>12. \A i \in DOMAIN raw : Len(raw[i].hops) \in 1 .. D
    <2>1. \A p \in P : Len(p.hops) \in Nat \ {0} /\ Len(p.hops) <= D  BY <1>1, <1>5, StateOfWalk
    <2> HIDE DEF P
    <2>2. QED  BY <1>5, <1>11, <2>1
  <1>13. \A i, j \in DOMAIN raw : i < j => raw[i].links # raw[j].links
    BY <1>8, <1>11, Zenon DEF InOrder
  <1>14. ASSUME answer.outcome \in Allowed
         PROVE  /\ \E i \in cands : answer.selected = raw[i]
                /\ HopsFirst(pol) => \A i \in cands : Len(answer.selected.hops) <= Len(raw[i].hops)
    <2>1. cands # {} /\ answer.selected = BestPath(raw, cands, topo, pol, M)
      BY <1>4, <1>14, Zenon DEF Decides
    <2>2. pol.factors \in Seq(RouteFactor)  BY <1>1 DEF RoutePolicy
    <2>3. \E i \in cands : BestPath(raw, cands, topo, pol, M) = raw[i]
      <3> DEFINE N == M
                 H == RouteFactor
                 E == D
      <3>1. /\ raw \in Seq(AnyPath(topo, src, dst, E)) /\ E \in Nat
            /\ pol.factors \in Seq(H) /\ Rated(N)
        BY <1>3, <1>5, <1>8, <2>2
      <3> HIDE DEF N, H, E
      <3>2. \E i \in cands :
               /\ BestPath(raw, cands, topo, pol, N) = raw[i]
               /\ \A j \in cands : ~ RanksBefore(RankKey(raw[j], topo, pol, N), RankKey(raw[i], topo, pol, N))
        BY <1>1, <1>7, <2>1, <3>1, BestChosen
      <3>3. QED  BY <3>2 DEF N
    <2>4. HopsFirst(pol) =>
             \A i \in cands : Len(BestPath(raw, cands, topo, pol, M).hops) <= Len(raw[i].hops)
      BY <1>1, <1>3, <1>5, <1>7, <1>8, <2>1, ShortestSelected
    <2>5. QED  BY <2>1, <2>3, <2>4
  <1>15. answer.outcome \in Allowed <=> GateOutcome(topo, src, dst, pol) = "SEARCH" /\ cands # {}
    BY <1>4, Zenon DEF Decides
  <1>16. cands = Candidates(topo, raw, pol)  BY DEF cands
  <1>17. RouteFound(pol, raw, cands)
    BY <1>9, <1>10, <1>11, <1>12, <1>13, <1>14, <1>15, <1>16, Zenon DEF RouteFound, P, D
  <1>18. QED  BY <1>1, <1>17, Zenon DEF pol

\* computeRoute grants a route if and only if some walk within the bounds suits
\* the policy and no partition forbids it, and a policy that counts switches
\* first gets one of the shortest.
THEOREM RoutesAreShortest == QuerySpec => []RouteShortest
  <1>1. AnswerInv => RouteShortest
    <2> DEFINE pol == query.policy
               D == Depth(pol)
               B == Bound(pol)
               V == WalksUpTo(D)
    <2> SUFFICES ASSUME AnswerInv, query.kind = "route"
                 PROVE  /\ pol.maxAllowedHops = U64 - 1 => answer.outcome \notin Allowed
                        /\ Cardinality(V) <= B /\ NoStalePorts =>
                              /\ answer.outcome \in Allowed <=> RoutableWithin(D, pol) /\ Permitted(pol)
                              /\ answer.outcome \in Allowed /\ HopsFirst(pol) =>
                                    \A n \in 1 .. D :
                                        RoutableWithin(n, pol) => Len(answer.selected.hops) <= n
      BY Zenon DEF RouteShortest
    <2>1. pol \in RoutePolicy /\ Searchable(topo)  BY RouteAnswered
    <2>2. PICK raw, cands : RouteFound(pol, raw, cands)  BY RouteAnswered
    <2>3. /\ B \in Nat /\ D \in Nat
          /\ pol.maxAllowedHops = U64 - 1 => B = 0
      BY <2>1, PolicyTraversal
    <2> HIDE DEF pol, D, B
    <2>4. /\ DOMAIN raw = 1 .. Len(raw) /\ cands = {i \in DOMAIN raw : Eligible(topo, raw[i], pol)}
          /\ \A i \in DOMAIN raw : raw[i] \in AnyPath(topo, src, dst, D) /\ Len(raw[i].hops) \in 1 .. D
          /\ \A n \in 1 .. D : Complete(raw, n, B)
          /\ B = 0 => raw = <<>>
          /\ answer.outcome \in Allowed <=> GateOutcome(topo, src, dst, pol) = "SEARCH" /\ cands # {}
          /\ answer.outcome \in Allowed =>
                /\ \E i \in cands : answer.selected = raw[i]
                /\ HopsFirst(pol) => \A i \in cands : Len(answer.selected.hops) <= Len(raw[i].hops)
      BY <2>2, Zenon DEF RouteFound, Candidates, D, B
    <2>5. ASSUME pol.maxAllowedHops = U64 - 1  PROVE answer.outcome \notin Allowed
      <3>1. raw = <<>>  BY <2>3, <2>4, <2>5
      <3>2. cands = {}  BY <2>4, <3>1
      <3>3. QED  BY <2>4, <3>2
    <2>6. ASSUME Cardinality(V) <= B, NoStalePorts
          PROVE  /\ answer.outcome \in Allowed <=> RoutableWithin(D, pol) /\ Permitted(pol)
                 /\ answer.outcome \in Allowed /\ HopsFirst(pol) =>
                       \A n \in 1 .. D : RoutableWithin(n, pol) => Len(answer.selected.hops) <= n
      <3>1. \A i \in DOMAIN raw : Eligible(topo, raw[i], pol) <=> Routable(WalkOf(raw[i]), pol)
        BY <2>1, <2>3, <2>4, <2>6, EligibleWalk
      <3>2. ASSUME NEW n \in 1 .. D, RoutableWithin(n, pol)
            PROVE  \E i \in cands : Len(raw[i].hops) <= n
        <4>1. PICK w \in WalksUpTo(n) : Routable(w, pol)  BY <3>2, Zenon DEF RoutableWithin
        <4>2. Complete(raw, n, B) /\ Complete(raw, D, B)
          <5>1. D \in 1 .. D  BY <2>3
          <5>2. QED  BY <2>4, <5>1
        <4>3. WalksUpTo(n) \subseteq V
          <5>1. \A k \in 1 .. n : k \in 1 .. D  BY <2>3
          <5>2. QED  BY <5>1, Zenon DEF WalksUpTo
        <4>4. IsFiniteSet(V) /\ IsFiniteSet(WalksUpTo(n))  BY <4>2, Zenon DEF Complete
        <4>5. Cardinality(WalksUpTo(n)) <= B
          <5> DEFINE W == WalksUpTo(n)
          <5> HIDE DEF V, W
          <5>1. Cardinality(W) <= Cardinality(V)  BY <4>3, <4>4, FS_Subset DEF W
          <5>2. Cardinality(W) \in Nat /\ Cardinality(V) \in Nat  BY <4>4, FS_CardinalityType DEF W
          <5>3. Cardinality(W) <= B  BY <2>3, <2>6, <5>1, <5>2
          <5>4. QED  BY <5>3 DEF W
        <4>6. PICK i \in Short(raw, n) : WalkOf(raw[i]) = w
          BY <4>1, <4>2, <4>5, Zenon DEF Complete
        <4>7. i \in DOMAIN raw /\ Len(raw[i].hops) <= n  BY <2>4, Zenon DEF Short
        <4>8. Eligible(topo, raw[i], pol)  BY <3>1, <4>1, <4>6, <4>7
        <4>9. QED  BY <2>4, <4>7, <4>8
      <3>3. ASSUME NEW i \in cands  PROVE RoutableWithin(D, pol)
        <4>1. i \in DOMAIN raw /\ Routable(WalkOf(raw[i]), pol)  BY <2>4, <3>1
        <4>2. D \in 1 .. D /\ Len(raw[i].hops) <= D  BY <2>3, <2>4, <4>1
        <4>3. Complete(raw, D, B)  BY <2>4, <4>2
        <4>4. i \in Short(raw, D)  BY <2>4, <4>1, <4>2, Zenon DEF Short
        <4>5. QED  BY <4>1, <4>3, <4>4, Zenon DEF Complete, RoutableWithin
      <3>4. RoutableWithin(D, pol) => D \in 1 .. D /\ src # dst /\ Fit(src) /\ Fit(dst)
        <4>1. RoutableWithin(D, pol) => src # dst /\ Fit(src) /\ Fit(dst) /\ 1 .. D # {}
          BY Zenon DEF RoutableWithin, WalksUpTo
        <4>2. QED  BY <2>3, <4>1
      <3>5. RoutableWithin(D, pol) <=> cands # {}
        <4>1. RoutableWithin(D, pol) => cands # {}  BY <3>2, <3>4
        <4>2. QED  BY <3>3, <4>1
      <3>6. RoutableWithin(D, pol) =>
               (GateOutcome(topo, src, dst, pol) = "SEARCH" <=> Permitted(pol))
        BY <3>4, GateOpen
      <3>7. answer.outcome \in Allowed <=> RoutableWithin(D, pol) /\ Permitted(pol)
        BY <2>4, <3>5, <3>6, Zenon
      <3>8. ASSUME answer.outcome \in Allowed, HopsFirst(pol), NEW n \in 1 .. D, RoutableWithin(n, pol)
            PROVE  Len(answer.selected.hops) <= n
        <4>1. PICK i \in cands : Len(raw[i].hops) <= n  BY <3>2, <3>8
        <4>2. PICK b \in cands : answer.selected = raw[b]  BY <2>4, <3>8
        <4>3. Len(raw[b].hops) <= Len(raw[i].hops)  BY <2>4, <3>8, <4>1, <4>2
        <4>4. Len(raw[b].hops) \in Nat /\ Len(raw[i].hops) \in Nat  BY <2>3, <2>4, <4>1, <4>2
        <4>5. QED  BY <4>1, <4>2, <4>3, <4>4
      <3>9. QED  BY <3>7, <3>8
    <2>7. QED  BY <2>5, <2>6 DEF D, B, pol
  <1>2. QED  BY <1>1, AnswersInvariant, PTL
-----------------------------------------------------------------------------
(* Redundancy. *)

\* In a set of at most one element all elements are the same.
LEMMA AtMostOne ==
    ASSUME NEW S, IsFiniteSet(S), Cardinality(S) <= 1
    PROVE  \A x, y \in S : x = y
  <1> SUFFICES ASSUME NEW x \in S, NEW y \in S, x # y  PROVE FALSE
    OBVIOUS
  <1>1. IsFiniteSet({x}) /\ Cardinality({x}) = 1  BY FS_Singleton
  <1>2. Cardinality({x} \cup {y}) = 2
    <2> DEFINE A == {x}
    <2>1. y \notin A /\ IsFiniteSet(A) /\ Cardinality(A) = 1  BY <1>1
    <2> HIDE DEF A
    <2>2. Cardinality(A \cup {y}) = IF y \in A THEN Cardinality(A) ELSE Cardinality(A) + 1
      BY <2>1, FS_AddElement, Zenon
    <2>3. Cardinality(A \cup {y}) = 2  BY <2>1, <2>2
    <2>4. QED  BY <2>3 DEF A
  <1>3. {x} \cup {y} \in SUBSET S  OBVIOUS
  <1>4. Cardinality({x} \cup {y}) <= Cardinality(S)  BY <1>3, FS_Subset
  <1>5. Cardinality(S) \in Nat  BY FS_CardinalityType
  <1>6. QED  BY <1>2, <1>4, <1>5

\* A single failure is of one kind, and of one thing.
LEMMA OneFailure ==
    ASSUME Searchable(topo), Failures <= 1
    PROVE  /\ \A x, y \in NotUp(topo.switches) : x = y
           /\ \A x, y \in NotUp(topo.ports) : x = y
           /\ \A x, y \in NotUp(topo.links) : x = y
           /\ NotUp(topo.switches) # {} => NotUp(topo.ports) = {} /\ NotUp(topo.links) = {}
           /\ NotUp(topo.ports) # {} => NotUp(topo.links) = {}
  <1> DEFINE A == NotUp(topo.switches)
             B == NotUp(topo.ports)
             C == NotUp(topo.links)
  <1>1. IsFiniteSet(DOMAIN topo.switches) /\ IsFiniteSet(DOMAIN topo.links)  BY SearchableFacts
  <1>2. IsFiniteSet(DOMAIN topo.ports)
    <2>1. IsFiniteSet(PortIds)  BY IdWidthAssumption, FS_Product DEF PortIds
    <2>2. DOMAIN topo.ports \subseteq PortIds  BY Zenon DEF Searchable, IsTopology, IsMap
    <2>3. QED  BY <2>1, <2>2, FS_Subset
  <1>3. /\ A \subseteq DOMAIN topo.switches /\ B \subseteq DOMAIN topo.ports
        /\ C \subseteq DOMAIN topo.links
    BY DEF NotUp
  <1>4. Cardinality(A) + Cardinality(B) + Cardinality(C) <= 1  BY Zenon DEF Failures
  <1> HIDE DEF A, B, C
  <1>5. IsFiniteSet(A) /\ IsFiniteSet(B) /\ IsFiniteSet(C)  BY <1>1, <1>2, <1>3, FS_Subset
  <1> DEFINE a == Cardinality(A)
             b == Cardinality(B)
             c == Cardinality(C)
  <1>6. /\ a \in Nat /\ b \in Nat /\ c \in Nat
        /\ (a = 0 <=> A = {}) /\ (b = 0 <=> B = {}) /\ (c = 0 <=> C = {})
    BY <1>5, FS_CardinalityType, FS_EmptySet
  <1>7. a + b + c <= 1  BY <1>4
  <1>8. /\ a <= 1 => \A x, y \in A : x = y
        /\ b <= 1 => \A x, y \in B : x = y
        /\ c <= 1 => \A x, y \in C : x = y
    BY <1>5, AtMostOne
  <1> HIDE DEF a, b, c
  <1>9. a <= 1 /\ b <= 1 /\ c <= 1 /\ (a # 0 => b = 0 /\ c = 0) /\ (b # 0 => c = 0)
    BY <1>6, <1>7
  <1>10. QED  BY <1>6, <1>8, <1>9, Zenon DEF A, B, C

\* Nothing between switch sw and the devices of the pair has failed.
Working(sw) ==
    \A d \in {src, dst} : \A l \in LinksBetween(sw, d) :
        topo.links[l].state = "UP" /\ topo.ports[topo.links[l].port].state = "UP"

\* A single failure leaves one of two switches working, and both if it is the
\* failure of a switch.
LEMMA OneOfTwoWorks ==
    ASSUME Searchable(topo), Failures <= 1, NEW r, NEW s, r # s
    PROVE  /\ Working(r) \/ Working(s)
           /\ NotUp(topo.switches) # {} => Working(r) /\ Working(s)
  <1>1. ASSUME NEW w, NEW d, NEW l \in LinksBetween(w, d)
        PROVE  /\ l \in DOMAIN topo.links /\ topo.links[l].rootSwitch = w
               /\ topo.links[l].port \in DOMAIN topo.ports /\ topo.links[l].port[1] = w
    <2>1. l \in DOMAIN topo.links /\ topo.links[l].rootSwitch = w  BY DEF LinksBetween
    <2>2. LinkIntegrity(topo, l)  BY <2>1, Zenon DEF Searchable, CheckIntegrity
    <2>3. QED  BY <2>1, <2>2 DEF LinkIntegrity
  <1>2. ASSUME NEW w, ~ Working(w)
        PROVE  \/ \E l \in NotUp(topo.links) : topo.links[l].rootSwitch = w
               \/ \E p \in NotUp(topo.ports) : p[1] = w
    <2>1. PICK d \in {src, dst} : \E l \in LinksBetween(w, d) :
             ~ (topo.links[l].state = "UP" /\ topo.ports[topo.links[l].port].state = "UP")
      BY <1>2, Zenon DEF Working
    <2>2. PICK l \in LinksBetween(w, d) :
             ~ (topo.links[l].state = "UP" /\ topo.ports[topo.links[l].port].state = "UP")
      BY <2>1
    <2>3. QED  BY <1>1, <2>2 DEF NotUp
  <1>3. ASSUME ~ Working(r), ~ Working(s)  PROVE FALSE
    <2>1. \/ \E l \in NotUp(topo.links) : topo.links[l].rootSwitch = r
          \/ \E p \in NotUp(topo.ports) : p[1] = r
      BY <1>2, <1>3
    <2>2. \/ \E l \in NotUp(topo.links) : topo.links[l].rootSwitch = s
          \/ \E p \in NotUp(topo.ports) : p[1] = s
      BY <1>2, <1>3
    <2>3. /\ \A x, y \in NotUp(topo.ports) : x = y
          /\ \A x, y \in NotUp(topo.links) : x = y
          /\ NotUp(topo.ports) # {} => NotUp(topo.links) = {}
      BY OneFailure
    <2>4. QED  BY <2>1, <2>2, <2>3
  <1>4. ASSUME NotUp(topo.switches) # {}, NEW w  PROVE Working(w)
    <2>1. NotUp(topo.ports) = {} /\ NotUp(topo.links) = {}  BY <1>4, OneFailure
    <2>2. QED  BY <1>2, <2>1
  <1>5. QED  BY <1>3, <1>4

\* The direct walk over a working switch.
LEMMA DirectWalk ==
    ASSUME Searchable(topo), src # dst, Fit(src), Fit(dst), NEW sw, Working(sw),
           LinksBetween(sw, src) # {}, LinksBetween(sw, dst) # {}
    PROVE  \E w \in WalksUpTo(1) : topo.links[w[1]].rootSwitch = sw
  <1>1. PICK a \in LinksBetween(sw, src), b \in LinksBetween(sw, dst) : TRUE  OBVIOUS
  <1>2. Joins(topo, a, sw, DeviceEnd(src)) /\ Joins(topo, b, sw, DeviceEnd(dst))
    <2>1. ASSUME NEW d \in {src, dst}, NEW l \in LinksBetween(sw, d)
          PROVE  Joins(topo, l, sw, DeviceEnd(d))
      <3>1. /\ l \in DOMAIN topo.links /\ topo.links[l].rootSwitch = sw
            /\ topo.links[l].otherEnd = DeviceEnd(d)
        BY DEF LinksBetween
      <3>2. LinkIntegrity(topo, l)  BY <3>1, Zenon DEF Searchable, CheckIntegrity
      <3>3. topo.links[l].port \in DOMAIN topo.ports  BY <3>2, Zenon DEF LinkIntegrity
      <3>4. topo.links[l].state = "UP" /\ topo.ports[topo.links[l].port].state = "UP"
        BY Zenon DEF Working
      <3>5. EdgeUsable(topo, l)  BY <3>3, <3>4 DEF EdgeUsable, TraversableState
      <3>6. QED  BY <3>1, <3>5, Zenon DEF Joins
    <2>2. QED  BY <1>1, <2>1
  <1> DEFINE w == <<a, <<>>, b>>
  <1>3. w[1] = a /\ w[2] = <<>> /\ w[3] = b  OBVIOUS
  <1>4. topo.links[a].rootSwitch = sw /\ topo.links[b].rootSwitch = sw  BY <1>2, Zenon DEF Joins
  <1>5. a \in Into(DeviceEnd(src)) /\ b \in Into(DeviceEnd(dst))  BY <1>2, IntoFacts, Zenon
  <1>6. <<>> \in [1 .. (1 - 1) -> Trunks]
    <2>1. 1 .. (1 - 1) = {}  OBVIOUS
    <2>2. QED  BY <2>1
  <1>7. w \in Into(DeviceEnd(src)) \X [1 .. (1 - 1) -> Trunks] \X Into(DeviceEnd(dst))
    BY <1>5, <1>6
  <1> HIDE DEF w
  <1>8. DOMAIN Passed(w) = 1 .. 1 /\ Passed(w)[1] = sw
    <2>1. Passed(w) = [i \in 1 .. (Len(<<>>) + 1) |->
                         IF i = 1 THEN topo.links[a].rootSwitch ELSE topo.links[<<>>[i - 1]].otherEnd.id]
      BY <1>3, Zenon DEF Passed
    <2>2. Len(<<>>) + 1 = 1  OBVIOUS
    <2>3. QED  BY <1>4, <2>1, <2>2
  <1>9. w \in Walks(1)
    <2>1. IsInjective(Passed(w))  BY <1>8 DEF IsInjective
    <2>2. \A i \in 1 .. (1 - 1) : topo.links[w[2][i]].rootSwitch = Passed(w)[i]
      <3>1. 1 .. (1 - 1) = {}  OBVIOUS
      <3>2. QED  BY <3>1
    <2>3. topo.links[w[3]].rootSwitch = Passed(w)[1]  BY <1>3, <1>4, <1>8
    <2>4. QED  BY <1>7, <2>1, <2>2, <2>3, Zenon DEF Walks
  <1>10. w \in WalksUpTo(1)
    <2>1. 1 \in 1 .. 1  OBVIOUS
    <2>2. QED  BY <1>9, <2>1, Zenon DEF WalksUpTo
  <1>11. QED  BY <1>3, <1>4, <1>10
\* What the search returns of direct paths, for a pair two switches join: one
\* over every working switch there is room for.
LEMMA DirectEligible ==
    ASSUME Searchable(topo), NEW D \in Nat, NEW p \in AnyPath(topo, src, dst, D), Len(p.hops) = 1,
           NEW pol, ~ Strict(pol), topo.switches[p.hops[1].sw].state = "UP"
    PROVE  Eligible(topo, p, pol)
  <1>1. WalkFacts(WalkOf(p), 1) /\ Passed(WalkOf(p))[1] = p.hops[1].sw
    <2>1. /\ WalkFacts(WalkOf(p), Len(p.hops))
          /\ \A i \in 1 .. Len(p.hops) : Passed(WalkOf(p))[i] = p.hops[i].sw
      BY StateOfWalk
    <2>2. 1 \in 1 .. Len(p.hops)  OBVIOUS
    <2>3. QED  BY <2>1, <2>2
  <1>2. DOMAIN Passed(WalkOf(p)) = 1 .. 1  BY <1>1, Zenon DEF WalkFacts
  <1>3. Routable(WalkOf(p), pol)  BY <1>1, <1>2 DEF Routable, Live, Clear, CurrentState
  <1>4. QED  BY <1>3, EligibleWalk

\* Two direct paths over the same switch are the same.
LEMMA DirectApart ==
    ASSUME Searchable(topo), NEW D \in Nat,
           NEW p \in AnyPath(topo, src, dst, D), NEW q \in AnyPath(topo, src, dst, D),
           Len(p.hops) = 1, Len(q.hops) = 1, p.hops[1].sw = q.hops[1].sw,
           \A s \in DOMAIN topo.switches, d \in {src, dst} : Cardinality(LinksBetween(s, d)) <= 1
    PROVE  p.links = q.links
  <1>1. PICK m \in Nat \ {0} : p \in Paths(topo, src, dst, D, m) /\ Len(p.hops) = m
    BY InOneOfMany
  <1>2. PICK n \in Nat \ {0} : q \in Paths(topo, src, dst, D, n) /\ Len(q.hops) = n
    BY InOneOfMany
  <1>3. \A l, sw, d : Joins(topo, l, sw, DeviceEnd(d)) => l \in LinksBetween(sw, d) /\ sw \in DOMAIN topo.switches
    <2>1. \A l, sw, far : Joins(topo, l, sw, far) => sw \in DOMAIN topo.switches
      BY IntoFacts, Zenon
    <2>2. QED  BY <2>1, Zenon DEF Joins, LinksBetween
  <1>4. \A sw \in DOMAIN topo.switches, d \in {src, dst} : \A x, y \in LinksBetween(sw, d) : x = y
    <2> SUFFICES ASSUME NEW sw \in DOMAIN topo.switches, NEW d \in {src, dst}
                 PROVE  \A x, y \in LinksBetween(sw, d) : x = y
      BY Zenon
    <2>1. IsFiniteSet(DOMAIN topo.links)  BY SearchableFacts
    <2>2. LinksBetween(sw, d) \in SUBSET DOMAIN topo.links  BY DEF LinksBetween
    <2>3. IsFiniteSet(LinksBetween(sw, d))  BY <2>1, <2>2, FS_Subset
    <2>4. Cardinality(LinksBetween(sw, d)) <= 1  OBVIOUS
    <2>5. QED  BY <2>3, <2>4, AtMostOne
  <1>5. ASSUME NEW x \in {p, q}
        PROVE  /\ x.links[1] \in LinksBetween(x.hops[1].sw, src)
               /\ x.links[2] \in LinksBetween(x.hops[1].sw, dst)
               /\ x.hops[1].sw \in DOMAIN topo.switches
               /\ Len(x.hops) = 1
    <2>1. x \in AnyPath(topo, src, dst, D) /\ Len(x.hops) = 1  OBVIOUS
    <2>2. PICK k \in Nat \ {0} : LeadsFromTo(topo, src, dst, x, k)  BY <2>1, PathFacts, Zenon
    <2>3. k = 1  BY <2>1, <2>2, Zenon DEF LeadsFromTo
    <2>4. 1 \in 1 .. 1 /\ 1 + 1 = 2  OBVIOUS
    <2>5. /\ Joins(topo, x.links[1], x.hops[1].sw, DeviceEnd(src))
          /\ Joins(topo, x.links[1 + 1], x.hops[1].sw,
                   IF 1 = 1 THEN DeviceEnd(dst) ELSE SwitchEnd(x.hops[1 + 1].sw))
      BY <2>2, <2>3, <2>4, Zenon DEF LeadsFromTo
    <2>6. Joins(topo, x.links[2], x.hops[1].sw, DeviceEnd(dst))  BY <2>4, <2>5
    <2>7. QED  BY <1>3, <2>1, <2>5, <2>6
  <1>6. p.links[1] = q.links[1] /\ p.links[2] = q.links[2]  BY <1>4, <1>5
  <1> DEFINE k == p.links
             l == q.links
             L == DOMAIN topo.links
  <1>7. k \in Seq(L) /\ l \in Seq(L) /\ Len(k) = 2 /\ Len(l) = 2
    <2>1. m = 1 /\ n = 1  BY <1>1, <1>2
    <2>2. k \in Seq(L) /\ Len(k) = m + 1 /\ l \in Seq(L) /\ Len(l) = n + 1  BY <1>1, <1>2 DEF Paths
    <2> HIDE DEF k, l, L
    <2>3. QED  BY <2>1, <2>2
  <1>8. k[1] = l[1] /\ k[2] = l[2]  BY <1>6
  <1> HIDE DEF k, l, L
  <1>9. \A i \in 1 .. Len(l) : k[i] = l[i]
    <2>1. \A i \in 1 .. Len(l) : i = 1 \/ i = 2  BY <1>7
    <2>2. QED  BY <1>8, <2>1
  <1>10. k = l  BY <1>7, <1>9, SeqAlike
  <1>11. QED  BY <1>10 DEF k, l

\* Of a pair that two switches join, the direct route survives any single
\* failure, whatever the bound on the search.
THEOREM RedundancyIsKept == QuerySpec => []RedundancySurvives
  <1>1. AnswerInv => RedundancySurvives
    <2> DEFINE pol == query.policy
               D == Depth(pol)
               B == Bound(pol)
    <2> SUFFICES ASSUME AnswerInv, query.kind = "route",
                        pol.maxAllowedHops \in 1 .. (U64 - 2), ~ Strict(pol), HopsFirst(pol),
                        src # dst, Fit(src), Fit(dst), Permitted(pol), Redundant, Failures <= 1
                 PROVE  answer.outcome \in Allowed /\ Len(answer.selected.hops) = 1
      BY Zenon DEF RedundancySurvives
    <2>1. pol \in RoutePolicy /\ Searchable(topo)  BY RouteAnswered
    <2>2. PICK raw, cands : RouteFound(pol, raw, cands)  BY RouteAnswered
    <2>3. B \in Nat /\ D \in Nat /\ D >= 1 /\ B >= 2  BY <2>1, PolicyTraversal
    <2>4. GateOutcome(topo, src, dst, pol) = "SEARCH"  BY GateOpen
    <2>5. /\ ~ Strict(pol) /\ HopsFirst(pol)
          /\ \A s \in DOMAIN topo.switches, d \in {src, dst} : Cardinality(LinksBetween(s, d)) <= 1
      BY DEF Redundant
    <2> HIDE DEF pol, D, B
    <2>6. /\ DOMAIN raw = 1 .. Len(raw) /\ cands = {i \in DOMAIN raw : Eligible(topo, raw[i], pol)}
          /\ \A i \in DOMAIN raw : raw[i] \in AnyPath(topo, src, dst, D) /\ Len(raw[i].hops) \in 1 .. D
          /\ \A i, j \in DOMAIN raw : i < j => raw[i].links # raw[j].links
          /\ \A n \in 1 .. D : Complete(raw, n, B)
          /\ answer.outcome \in Allowed <=> GateOutcome(topo, src, dst, pol) = "SEARCH" /\ cands # {}
          /\ answer.outcome \in Allowed =>
                /\ \E i \in cands : answer.selected = raw[i]
                /\ HopsFirst(pol) => \A i \in cands : Len(answer.selected.hops) <= Len(raw[i].hops)
      BY <2>2, Zenon DEF RouteFound, Candidates, D, B
    <2>7. PICK r \in DOMAIN topo.switches, s \in DOMAIN topo.switches :
             r # s /\ \A w \in {r, s}, d \in {src, dst} : LinksBetween(w, d) # {}
      BY Zenon DEF Redundant
    <2>8. \A v \in {r, s} : Working(v) => \E w \in WalksUpTo(1) : topo.links[w[1]].rootSwitch = v
      BY <2>1, <2>7, DirectWalk
    <2> DEFINE V == WalksUpTo(1)
               c == Cardinality(V)
    <2>9. /\ IsFiniteSet(V) /\ Short(raw, 1) = 1 .. Lesser(B, c)
      <3>1. 1 \in 1 .. D  BY <2>3
      <3>2. Complete(raw, 1, B)  BY <2>6, <3>1
      <3>3. QED  BY <3>2, Zenon DEF Complete
    <2> HIDE DEF V
    <2>10. c \in Nat  BY <2>9, FS_CardinalityType
    <2>11. V # {} => c >= 1  BY <2>9, <2>10, FS_EmptySet
    <2>12. (\E x, y \in V : x # y) => c >= 2
      <3>1. c <= 1 => \A x, y \in V : x = y  BY <2>9, AtMostOne
      <3> HIDE DEF c
      <3>2. QED  BY <2>10, <3>1
    <2> HIDE DEF c
    <2>13. ASSUME NEW i \in 1 .. 2, i <= c
           PROVE  i \in DOMAIN raw /\ Len(raw[i].hops) = 1
      <3>1. i \in 1 .. Lesser(B, c)  BY <2>3, <2>10, <2>13 DEF Lesser
      <3>2. i \in DOMAIN raw /\ Len(raw[i].hops) <= 1  BY <2>6, <2>9, <3>1, Zenon DEF Short
      <3>3. Len(raw[i].hops) \in Nat /\ Len(raw[i].hops) >= 1  BY <2>3, <2>6, <3>2
      <3> DEFINE k == Len(raw[i].hops)
      <3>4. k \in Nat /\ k >= 1 /\ k <= 1  BY <3>2, <3>3
      <3> HIDE DEF k
      <3>5. k = 1  BY <3>4
      <3>6. QED  BY <3>2, <3>5 DEF k
    <2>14. ASSUME NEW i \in DOMAIN raw, Len(raw[i].hops) = 1
           PROVE  raw[i].hops[1].sw \in DOMAIN topo.switches
      <3>1. PICK n \in Nat \ {0} : LeadsFromTo(topo, src, dst, raw[i], n)
        BY <2>1, <2>3, <2>6, PathFacts
      <3>2. Joins(topo, raw[i].links[1], raw[i].hops[1].sw, DeviceEnd(src))
        BY <3>1, Zenon DEF LeadsFromTo
      <3>3. \A l, sw, far : Joins(topo, l, sw, far) => sw \in DOMAIN topo.switches
        BY <2>1, IntoFacts, Zenon
      <3>4. QED  BY <3>2, <3>3, Zenon
    <2>15. \E i \in DOMAIN raw : /\ Len(raw[i].hops) = 1
                                 /\ topo.switches[raw[i].hops[1].sw].state = "UP"
      <3>1. Working(r) \/ Working(s)  BY <2>1, <2>7, OneOfTwoWorks
      <3>2. V # {}  BY <2>8, <3>1 DEF V
      <3>3. 1 \in DOMAIN raw /\ Len(raw[1].hops) = 1
        <4>1. 1 \in 1 .. 2 /\ 1 <= c  BY <2>10, <2>11, <3>2
        <4>2. QED  BY <2>13, <4>1
      <3>4. CASE NotUp(topo.switches) = {}
        <4>1. topo.switches[raw[1].hops[1].sw].state = "UP"  BY <2>14, <3>3, <3>4 DEF NotUp
        <4>2. QED  BY <3>3, <4>1
      <3>5. CASE NotUp(topo.switches) # {}
        <4>1. Working(r) /\ Working(s)  BY <2>1, <2>7, <3>5, OneOfTwoWorks
        <4>2. \E x, y \in V : x # y
          <5>1. PICK x \in V : topo.links[x[1]].rootSwitch = r  BY <2>8, <4>1 DEF V
          <5>2. PICK y \in V : topo.links[y[1]].rootSwitch = s  BY <2>8, <4>1 DEF V
          <5>3. x # y  BY <2>7, <5>1, <5>2
          <5>4. QED  BY <5>3
        <4>3. 2 \in DOMAIN raw /\ Len(raw[2].hops) = 1
          <5>1. 2 \in 1 .. 2 /\ 2 <= c  BY <2>10, <2>12, <4>2
          <5>2. QED  BY <2>13, <5>1
        <4>4. raw[1].hops[1].sw # raw[2].hops[1].sw
          <5>1. raw[1].links # raw[2].links
            <6>1. 1 < 2  OBVIOUS
            <6>2. QED  BY <2>6, <3>3, <4>3, <6>1
          <5>2. raw[1] \in AnyPath(topo, src, dst, D) /\ raw[2] \in AnyPath(topo, src, dst, D)
            BY <2>6, <3>3, <4>3
          <5>3. QED  BY <2>1, <2>3, <2>5, <3>3, <4>3, <5>1, <5>2, DirectApart
        <4>5. \A x, y \in NotUp(topo.switches) : x = y  BY <2>1, OneFailure
        <4>6. \/ topo.switches[raw[1].hops[1].sw].state = "UP"
              \/ topo.switches[raw[2].hops[1].sw].state = "UP"
          BY <2>14, <3>3, <4>3, <4>4, <4>5 DEF NotUp
        <4>7. QED  BY <3>3, <4>3, <4>6
      <3>6. QED  BY <3>4, <3>5
    <2>16. PICK i \in DOMAIN raw : /\ Len(raw[i].hops) = 1
                                   /\ topo.switches[raw[i].hops[1].sw].state = "UP"
      BY <2>15
    <2>17. Eligible(topo, raw[i], pol)  BY <2>1, <2>3, <2>5, <2>6, <2>16, DirectEligible
    <2>18. i \in cands  BY <2>6, <2>16, <2>17
    <2>19. answer.outcome \in Allowed  BY <2>4, <2>6, <2>18
    <2>20. PICK b \in cands : answer.selected = raw[b]  BY <2>6, <2>19
    <2>21. Len(raw[b].hops) <= 1  BY <2>5, <2>6, <2>16, <2>18, <2>19, <2>20
    <2>22. Len(raw[b].hops) \in Nat /\ Len(raw[b].hops) >= 1  BY <2>3, <2>6, <2>20
    <2>23. Len(raw[b].hops) = 1
      <3> DEFINE k == Len(raw[b].hops)
      <3>1. k \in Nat /\ k >= 1 /\ k <= 1  BY <2>21, <2>22
      <3> HIDE DEF k
      <3>2. k = 1  BY <3>1
      <3>3. QED  BY <3>2 DEF k
    <2>24. QED  BY <2>19, <2>20, <2>23
  <1>2. QED  BY <1>1, AnswersInvariant, PTL

-----------------------------------------------------------------------------
(* The transfer of a snapshot: the lists of keys. *)

\* The order of the keys of a map, and what its keys are.
KeyBefore(kind, a, b) == IF kind = "ports" THEN PortBefore(a, b) ELSE a < b

KeyOf(kind) == IF kind = "ports" THEN Nat \X Nat ELSE Nat

\* The i-th entry of e is a key with i - 1 keys before it, if there is one.
Sorted(kind, S, e) ==
    /\ Listing(e, Cardinality(S))
    /\ \A i \in 1 .. Cardinality(S), x \in S :
          Cardinality({y \in S : KeyBefore(kind, y, x)}) = i - 1 =>
              e[i] \in S /\ Cardinality({y \in S : KeyBefore(kind, y, e[i])}) = i - 1

\* The keys of a map are written in order, each once.
LEMMA KeysListed ==
    ASSUME NEW kind, NEW S \in SUBSET KeyOf(kind), IsFiniteSet(S), NEW e, Sorted(kind, S, e)
    PROVE  Lists(e, S) /\ Len(e) = Cardinality(S)
  <1> DEFINE R == {p \in S \X S : KeyBefore(kind, p[1], p[2])}
             n == Cardinality(S)
  <1>1. \A x, y \in S : <<x, y>> \in R <=> KeyBefore(kind, x, y)  OBVIOUS
  <1>2. /\ \A x \in S : ~ KeyBefore(kind, x, x)
        /\ \A x, y, z \in S : KeyBefore(kind, x, y) /\ KeyBefore(kind, y, z) => KeyBefore(kind, x, z)
        /\ \A x, y \in S : x # y => KeyBefore(kind, x, y) \/ KeyBefore(kind, y, x)
    <2>1. CASE kind = "ports"
      <3>1. \A x \in S : x = <<x[1], x[2]>> /\ x[1] \in Nat /\ x[2] \in Nat  BY <2>1 DEF KeyOf
      <3>2. \A x, y \in S : KeyBefore(kind, x, y) <=> x[1] < y[1] \/ (x[1] = y[1] /\ x[2] < y[2])
        BY <2>1 DEF KeyBefore, PortBefore
      <3>3. \A x, y \in S : x # y => x[1] # y[1] \/ x[2] # y[2]  BY <3>1, Zenon
      <3>4. QED  BY <3>1, <3>2, <3>3
    <2>2. CASE kind # "ports"
      <3>1. S \subseteq Nat  BY <2>2 DEF KeyOf
      <3>2. QED  BY <2>2, <3>1 DEF KeyBefore
    <2>3. QED  BY <2>1, <2>2
  <1>3. StrictOrder(R, S) /\ \A x, y \in S : x # y => <<x, y>> \in R \/ <<y, x>> \in R
    <2> HIDE DEF R
    <2>1. QED  BY <1>1, <1>2, Zenon DEF StrictOrder
  <1>4. \A x \in S : Rank(R, S, x) = Cardinality({y \in S : KeyBefore(kind, y, x)})
    <2> SUFFICES ASSUME NEW x \in S
                 PROVE  Below(R, S, x) = {y \in S : KeyBefore(kind, y, x)}
      BY DEF Rank
    <2> HIDE DEF R
    <2>1. QED  BY <1>1 DEF Below
  <1> HIDE DEF R
  <1>5. ASSUME NEW i \in 1 .. n, NEW x \in S, Rank(R, S, x) = i - 1
        PROVE  e[i] \in S /\ Rank(R, S, e[i]) = i - 1
    <2>1. Cardinality({y \in S : KeyBefore(kind, y, x)}) = i - 1  BY <1>4, <1>5
    <2>2. e[i] \in S /\ Cardinality({y \in S : KeyBefore(kind, y, e[i])}) = i - 1
      BY <2>1, Zenon DEF Sorted
    <2>3. QED  BY <1>4, <2>2
  <1>6. Listing(e, n)  BY DEF Sorted
  <1> HIDE DEF n
  <1>7. QED  BY <1>3, <1>5, <1>6, RankedLists DEF n

\* The numbers of a list are written in order, each once.
Increasing(S) ==
    [i \in 1 .. Cardinality(S) |-> CHOOSE x \in S : Cardinality({y \in S : y < x}) = i - 1]

\* They list the set.
LEMMA NumbersListed ==
    ASSUME NEW S \in SUBSET Nat, IsFiniteSet(S)
    PROVE  Lists(Increasing(S), S) /\ Len(Increasing(S)) = Cardinality(S)
  <1> DEFINE e == Increasing(S)
  <1>1. S \in SUBSET KeyOf("list")  BY DEF KeyOf
  <1>2. \A x \in S : {y \in S : KeyBefore("list", y, x)} = {y \in S : y < x}  BY DEF KeyBefore
  <1>3. Sorted("list", S, e)
    <2>1. ASSUME NEW i \in 1 .. Cardinality(S), NEW x \in S,
                 Cardinality({y \in S : KeyBefore("list", y, x)}) = i - 1
          PROVE  e[i] \in S /\ Cardinality({y \in S : KeyBefore("list", y, e[i])}) = i - 1
      <3>1. Cardinality({y \in S : y < x}) = i - 1  BY <1>2, <2>1
      <3>2. e[i] = CHOOSE z \in S : Cardinality({y \in S : y < z}) = i - 1  BY DEF Increasing
      <3>3. e[i] \in S /\ Cardinality({y \in S : y < e[i]}) = i - 1  BY <3>1, <3>2
      <3>4. QED  BY <1>2, <3>3
    <2>2. Listing(e, Cardinality(S))
      <3>1. e = [i \in 1 .. Cardinality(S) |->
                    CHOOSE x \in S : Cardinality({y \in S : y < x}) = i - 1]
        BY DEF Increasing
      <3> HIDE DEF e
      <3>2. QED  BY <3>1 DEF Listing
    <2> HIDE DEF e
    <2>3. QED  BY <2>1, <2>2 DEF Sorted
  <1> HIDE DEF e
  <1>4. Lists(e, S) /\ Len(e) = Cardinality(S)  BY <1>1, <1>3, KeysListed
  <1>5. QED  BY <1>4 DEF e

-----------------------------------------------------------------------------
(* Fields. *)

\* What a field holds.
Field ==
    Nat \cup BOOLEAN \cup EntityState \cup PartitionState \cup Provenance
        \cup {"", "Device", "Switch"} \cup Workers \cup FabricIds

\* What Drop leaves.
LEMMA DropFacts ==
    ASSUME NEW X, NEW f \in Seq(X), NEW n \in Nat, n <= Len(f)
    PROVE  /\ Drop(f, n) \in Seq(X) /\ Len(Drop(f, n)) = Len(f) - n
           /\ \A k \in 1 .. (Len(f) - n) : Drop(f, n)[k] = f[n + k]
  BY DEF Drop

\* Dropping twice is dropping once.
LEMMA DropDrop ==
    ASSUME NEW X, NEW f \in Seq(X), NEW n \in Nat, NEW m \in Nat, n + m <= Len(f)
    PROVE  Drop(Drop(f, n), m) = Drop(f, n + m)
  <1> DEFINE L == Len(f)
             g == Drop(f, n)
             h == Drop(g, m)
             d == Drop(f, n + m)
  <1>1. L \in Nat /\ n <= L /\ n + m \in Nat  OBVIOUS
  <1>2. g \in Seq(X) /\ Len(g) = L - n /\ \A k \in 1 .. (L - n) : g[k] = f[n + k]
    BY <1>1, DropFacts
  <1>3. d \in Seq(X) /\ Len(d) = L - (n + m) /\ \A k \in 1 .. (L - (n + m)) : d[k] = f[(n + m) + k]
    BY <1>1, DropFacts
  <1> HIDE DEF g, d, L
  <1>4. m <= Len(g) /\ Len(g) - m = L - (n + m)
    <2>1. n + m <= L  BY DEF L
    <2>2. QED  BY <1>1, <1>2, <2>1
  <1>5. h \in Seq(X) /\ Len(h) = L - (n + m) /\ \A k \in 1 .. (L - (n + m)) : h[k] = g[m + k]
    <2>1. h \in Seq(X) /\ Len(h) = Len(g) - m /\ \A k \in 1 .. (Len(g) - m) : h[k] = g[m + k]
      BY <1>2, <1>4, DropFacts
    <2>2. QED  BY <1>4, <2>1, Zenon
  <1> HIDE DEF h
  <1>6. ASSUME NEW k \in 1 .. (L - (n + m))  PROVE h[k] = d[k]
    <2>1. m + k \in 1 .. (L - n) /\ n + (m + k) = (n + m) + k  BY <1>1
    <2>2. QED  BY <1>2, <1>3, <1>5, <2>1, Zenon
  <1>7. Len(h) = Len(d) /\ \A k \in 1 .. Len(d) : h[k] = d[k]  BY <1>3, <1>5, <1>6, Zenon
  <1>8. h = d  BY <1>3, <1>5, <1>7, SeqAlike
  <1>9. QED  BY <1>8 DEF g, h, d

\* Short tuples.
LEMMA OneField ==
    ASSUME NEW X, NEW a \in X
    PROVE  <<a>> \in Seq(X) /\ Len(<<a>>) = 1 /\ <<a>>[1] = a
  OBVIOUS

LEMMA TwoFields ==
    ASSUME NEW X, NEW a \in X, NEW b \in X
    PROVE  <<a, b>> \in Seq(X) /\ Len(<<a, b>>) = 2 /\ <<a, b>>[1] = a /\ <<a, b>>[2] = b
  OBVIOUS

LEMMA ThreeFields ==
    ASSUME NEW X, NEW a \in X, NEW b \in X, NEW c \in X
    PROVE  /\ <<a, b, c>> \in Seq(X) /\ Len(<<a, b, c>>) = 3
           /\ <<a, b, c>>[1] = a /\ <<a, b, c>>[2] = b /\ <<a, b, c>>[3] = c
  OBVIOUS

LEMMA FourFields ==
    ASSUME NEW X, NEW a \in X, NEW b \in X, NEW c \in X, NEW d \in X
    PROVE  /\ <<a, b, c, d>> \in Seq(X) /\ Len(<<a, b, c, d>>) = 4
           /\ <<a, b, c, d>>[1] = a /\ <<a, b, c, d>>[2] = b
           /\ <<a, b, c, d>>[3] = c /\ <<a, b, c, d>>[4] = d
  OBVIOUS

LEMMA FiveFields ==
    ASSUME NEW X, NEW a \in X, NEW b \in X, NEW c \in X, NEW d \in X, NEW e \in X
    PROVE  /\ <<a, b, c, d, e>> \in Seq(X) /\ Len(<<a, b, c, d, e>>) = 5
           /\ <<a, b, c, d, e>>[1] = a /\ <<a, b, c, d, e>>[2] = b
           /\ <<a, b, c, d, e>>[3] = c /\ <<a, b, c, d, e>>[4] = d /\ <<a, b, c, d, e>>[5] = e
  OBVIOUS

\* An owner is read back from its three fields.
LEMMA OwnerWritten ==
    ASSUME NEW o \in Owners
    PROVE  /\ OwnerFields(o) \in Seq(Field) /\ Len(OwnerFields(o)) = 3
           /\ \A g : g[1] = OwnerFields(o)[1] /\ g[2] = OwnerFields(o)[2] /\ g[3] = OwnerFields(o)[3]
                => OwnerIn(g) = o
  <1>1. CASE o = NoOwner
    <2>1. OwnerFields(o) = <<"", FALSE, 0>>  BY <1>1, Zenon DEF OwnerFields
    <2>2. "" \in Field /\ FALSE \in Field /\ 0 \in Field  BY DEF Field
    <2> HIDE DEF Field
    <2>3. <<"", FALSE, 0>> \in Seq(Field) /\ Len(<<"", FALSE, 0>>) = 3
      BY <2>2, ThreeFields, Zenon
    <2>4. <<"", FALSE, 0>>[2] = FALSE  OBVIOUS
    <2>5. \A g : g[2] = FALSE => OwnerIn(g) = o  BY <1>1, Zenon DEF OwnerIn
    <2>6. QED  BY <2>1, <2>3, <2>4, <2>5, Zenon
  <1>2. CASE o # NoOwner
    <2>1. OwnerFields(o) = <<o[1], TRUE, o[2]>>  BY <1>2, Zenon DEF OwnerFields
    <2>2. o[1] \in Workers /\ o[2] \in Boots /\ o = <<o[1], o[2]>>  BY <1>2 DEF Owners
    <2>3. o[1] \in Field /\ TRUE \in Field /\ o[2] \in Field  BY <2>2, IdAssumption DEF Field
    <2> DEFINE a == o[1]
               b == o[2]
    <2> HIDE DEF Field, a, b
    <2>4. <<a, TRUE, b>> \in Seq(Field) /\ Len(<<a, TRUE, b>>) = 3
      BY <2>3, ThreeFields, Zenon DEF a, b
    <2>5. <<a, TRUE, b>>[1] = a /\ <<a, TRUE, b>>[2] = TRUE /\ <<a, TRUE, b>>[3] = b  OBVIOUS
    <2>6. \A g : g[2] = TRUE => OwnerIn(g) = <<g[1], g[3]>>  BY Zenon DEF OwnerIn
    <2>7. \A g : g[1] = a /\ g[2] = TRUE /\ g[3] = b => OwnerIn(g) = o
      BY <2>2, <2>6, Zenon DEF a, b
    <2>8. QED  BY <2>1, <2>4, <2>5, <2>7, Zenon DEF a, b
  <1>3. QED  BY <1>1, <1>2

\* So is the far end of a link.
LEMMA EndWritten ==
    ASSUME NEW x \in LinkEnds
    PROVE  /\ EndFields(x) \in Seq(Field) /\ Len(EndFields(x)) = 3
           /\ \A g : g[1] = EndFields(x)[1] /\ g[2] = EndFields(x)[2] /\ g[3] = EndFields(x)[3]
                => EndIn(g) = x
  <1> DEFINE d == x.id
  <1>1. CASE x.kind = "Device"
    <2>1. EndFields(x) = <<"Device", d, 0>>  BY <1>1, Zenon DEF EndFields
    <2>2. d \in Nat /\ x = DeviceEnd(d)  BY <1>1, IdAssumption DEF LinkEnds, DeviceEnd
    <2>3. "Device" \in Field /\ d \in Field /\ 0 \in Field  BY <2>2 DEF Field
    <2> HIDE DEF d
    <2>4. /\ EndFields(x) \in Seq(Field) /\ Len(EndFields(x)) = 3
          /\ EndFields(x)[1] = "Device" /\ EndFields(x)[2] = d
      <3>1. /\ <<"Device", d, 0>> \in Seq(Field) /\ Len(<<"Device", d, 0>>) = 3
            /\ <<"Device", d, 0>>[1] = "Device" /\ <<"Device", d, 0>>[2] = d
        BY <2>3, ThreeFields
      <3>2. QED  BY <2>1, <3>1, Zenon
    <2>5. \A g : g[1] = "Device" /\ g[2] = d => EndIn(g) = x  BY <2>2, Zenon DEF EndIn
    <2>6. QED  BY <2>4, <2>5, Zenon
  <1>2. CASE x.kind # "Device"
    <2>1. x.kind = "Switch"  BY <1>2 DEF LinkEnds
    <2>2. EndFields(x) = <<"Switch", 0, d>>  BY <1>2, <2>1, Zenon DEF EndFields
    <2>3. d \in Nat /\ x = SwitchEnd(d)  BY <2>1, IdAssumption DEF LinkEnds, SwitchEnd
    <2>4. "Switch" \in Field /\ d \in Field /\ 0 \in Field  BY <2>3 DEF Field
    <2> HIDE DEF d
    <2>5. /\ EndFields(x) \in Seq(Field) /\ Len(EndFields(x)) = 3
          /\ EndFields(x)[1] = "Switch" /\ EndFields(x)[3] = d
      <3>1. /\ <<"Switch", 0, d>> \in Seq(Field) /\ Len(<<"Switch", 0, d>>) = 3
            /\ <<"Switch", 0, d>>[1] = "Switch" /\ <<"Switch", 0, d>>[3] = d
        BY <2>4, ThreeFields
      <3>2. QED  BY <2>2, <3>1, Zenon
    <2>6. "Switch" # "Device"  OBVIOUS
    <2>7. \A g : g[1] = "Switch" /\ g[3] = d => EndIn(g) = x  BY <2>3, <2>6, Zenon DEF EndIn
    <2>8. QED  BY <2>5, <2>7, Zenon
  <1>3. QED  BY <1>1, <1>2

\* The start of f is e, or of e is f.
Agree(f, e) == \A k \in 1 .. Len(e) : k <= Len(f) => f[k] = e[k]

\* The fields of a record, and what the decoder makes of them and of what
\* follows, or of a part of them.
ReadsBack(kind, id, r) ==
    LET e == encodeRecord(kind, id, r)
    IN  /\ e \in Seq(Field)
        /\ \A f \in Seq(Field) : Agree(f, e) =>
              /\ RecordWhole(kind, f) <=> Len(e) <= Len(f)
              /\ Len(e) <= Len(f) => decodeRecord(kind, f) = Taken(Len(e), id, r)

\* The same of three.
ThreeParts(e, a, b, c, l, m, n) ==
    /\ Len(e) = l + m + n
    /\ \A k \in 1 .. l : e[k] = a[k]
    /\ \A k \in 1 .. m : e[l + k] = b[k]
    /\ \A k \in 1 .. n : e[l + m + k] = c[k]

\* Three sequences are joined as two are.
LEMMA ThreeJoined ==
    ASSUME NEW X, NEW a \in Seq(X), NEW b \in Seq(X), NEW c \in Seq(X),
           NEW l \in Nat, NEW m \in Nat, NEW n \in Nat,
           l = Len(a), m = Len(b), n = Len(c), NEW e, e = Cat(Cat(a, b), c)
    PROVE  e \in Seq(X) /\ ThreeParts(e, a, b, c, l, m, n)
  <1> DEFINE d == Cat(a, b)
  <1>1. d \in Seq(X) /\ TwoParts(d, a, b, l, m)  BY TwoJoined
  <1>2. l + m \in Nat /\ e = Cat(d, c)  OBVIOUS
  <1> HIDE DEF d
  <1>3. l + m = Len(d)  BY <1>1 DEF TwoParts
  <1>4. e \in Seq(X) /\ TwoParts(e, d, c, l + m, n)  BY <1>1, <1>2, <1>3, TwoJoined, Zenon
  <1>5. Len(e) = (l + m) + n /\ \A k \in 1 .. n : e[(l + m) + k] = c[k]
    BY <1>4, Zenon DEF TwoParts
  <1>6. \A k \in 1 .. l : k \in 1 .. (l + m)  OBVIOUS
  <1>7. \A k \in 1 .. m : l + k \in 1 .. (l + m)  OBVIOUS
  <1>8. \A k \in 1 .. l : e[k] = a[k]  BY <1>1, <1>4, <1>6, Zenon DEF TwoParts
  <1>9. \A k \in 1 .. m : e[l + k] = b[k]  BY <1>1, <1>4, <1>7, Zenon DEF TwoParts
  <1>10. QED  BY <1>4, <1>5, <1>8, <1>9, Zenon DEF ThreeParts

\* e is the n fields of h, an owner and a provenance, which can be read again.
Framed(e, h, n, o, v) ==
    /\ e \in Seq(Field) /\ Len(e) = n + 4
    /\ \A f \in Seq(Field) : Agree(f, e) =>
          /\ \A k \in 1 .. n : k <= Len(f) => f[k] = h[k]
          /\ n + 4 <= Len(f) => OwnerIn(Drop(f, n)) = o /\ f[n + 4] = v

\* Every record ends with the fields of its owner and its provenance.
LEMMA RecordFields ==
    ASSUME NEW h \in Seq(Field), NEW o \in Owners, NEW v \in Provenance, NEW n \in Nat, n = Len(h),
           NEW w, w = OwnerFields(o), NEW z, z = <<v>>, NEW e, e = Cat(Cat(h, w), z)
    PROVE  Framed(e, h, n, o, v)
  <1>2. w \in Seq(Field) /\ Len(w) = 3  BY OwnerWritten
  <1>3. z \in Seq(Field) /\ Len(z) = 1 /\ z[1] = v
    <2>1. v \in Field  BY DEF Field
    <2>2. QED  BY <2>1, OneField, Zenon
  <1>4. e \in Seq(Field) /\ ThreeParts(e, h, w, z, n, 3, 1)
    <2>1. 3 \in Nat /\ 1 \in Nat /\ 3 = Len(w) /\ 1 = Len(z)  BY <1>2, <1>3
    <2>2. QED  BY <1>2, <1>3, <2>1, ThreeJoined, Zenon
  <1>5. /\ Len(e) = n + 4 /\ e[n + 4] = v
        /\ e[n + 1] = w[1] /\ e[n + 2] = w[2] /\ e[n + 3] = w[3]
    <2>1. 1 \in 1 .. 3 /\ 2 \in 1 .. 3 /\ 3 \in 1 .. 3 /\ 1 \in 1 .. 1 /\ n + 3 + 1 = n + 4
      OBVIOUS
    <2>2. QED  BY <1>3, <1>4, <2>1, Zenon DEF ThreeParts
  <1>6. ASSUME NEW f \in Seq(Field), Agree(f, e)
        PROVE  /\ \A k \in 1 .. n : k <= Len(f) => f[k] = h[k]
               /\ n + 4 <= Len(f) => OwnerIn(Drop(f, n)) = o /\ f[n + 4] = v
    <2>1. \A k \in 1 .. (n + 4) : k <= Len(f) => f[k] = e[k]  BY <1>5, <1>6, Zenon DEF Agree
    <2> DEFINE L == Len(f)
    <2>2. L \in Nat  OBVIOUS
    <2> HIDE DEF L
    <2>3. \A k \in 1 .. n : k <= L => f[k] = h[k]
      <3>1. \A k \in 1 .. n : k \in 1 .. (n + 4)  OBVIOUS
      <3>2. QED  BY <1>4, <2>1, <3>1, Zenon DEF L, ThreeParts
    <2>4. ASSUME n + 4 <= L  PROVE OwnerIn(Drop(f, n)) = o /\ f[n + 4] = v
      <3>1. /\ n + 1 \in 1 .. (n + 4) /\ n + 1 <= L
            /\ n + 2 \in 1 .. (n + 4) /\ n + 2 <= L
            /\ n + 3 \in 1 .. (n + 4) /\ n + 3 <= L
            /\ n + 4 \in 1 .. (n + 4) /\ n <= L
            /\ 1 \in 1 .. (L - n) /\ 2 \in 1 .. (L - n) /\ 3 \in 1 .. (L - n)
        BY <2>2, <2>4
      <3>2. f[n + 1] = w[1] /\ f[n + 2] = w[2] /\ f[n + 3] = w[3]
        BY <1>5, <2>1, <3>1, Zenon DEF L
      <3>3. f[n + 4] = v  BY <1>5, <2>1, <2>4, <3>1, Zenon DEF L
      <3>4. \A k \in 1 .. (L - n) : Drop(f, n)[k] = f[n + k]  BY <3>1, DropFacts DEF L
      <3>5. OwnerIn(Drop(f, n)) = o
        <4> DEFINE g == Drop(f, n)
        <4>1. g[1] = w[1] /\ g[2] = w[2] /\ g[3] = w[3]  BY <3>1, <3>2, <3>4, Zenon
        <4> HIDE DEF g
        <4>2. OwnerIn(g) = o  BY <4>1, OwnerWritten, Zenon
        <4>3. QED  BY <4>2 DEF g
      <3>6. QED  BY <3>3, <3>5
    <2>5. QED  BY <2>3, <2>4, Zenon DEF L
  <1>7. QED  BY <1>4, <1>5, <1>6, Zenon DEF Framed

\* decodeDevice reads back what encodeDevice wrote.
LEMMA DeviceReadsBack ==
    ASSUME NEW id \in Nat, NEW r \in DeviceRecord
    PROVE  ReadsBack("devices", id, r)
  <1> DEFINE h == <<id, r.present, r.state>>
             e == encodeRecord("devices", id, r)
  <1>1. /\ r = [present |-> r.present, state |-> r.state, owner |-> r.owner, provenance |-> r.provenance]
        /\ r.present \in BOOLEAN /\ r.state \in EntityState
        /\ r.owner \in Owners /\ r.provenance \in Provenance
    BY DEF DeviceRecord
  <1>2. id \in Field /\ r.present \in Field /\ r.state \in Field  BY <1>1 DEF Field
  <1>3. h \in Seq(Field) /\ Len(h) = 3 /\ h[1] = id /\ h[2] = r.present /\ h[3] = r.state
    BY <1>2, ThreeFields, Zenon
  <1>4. e = Cat(Cat(h, OwnerFields(r.owner)), <<r.provenance>>)
    BY Zenon DEF encodeRecord, encodeDevice, Cat
  <1> HIDE DEF h, e
  <1>5. Framed(e, h, 3, r.owner, r.provenance)
    <2>1. 3 \in Nat /\ 3 = Len(h)  BY <1>3
    <2>2. QED  BY <1>1, <1>3, <1>4, <2>1, RecordFields, Zenon
  <1>6. e \in Seq(Field) /\ Len(e) = 7  BY <1>5 DEF Framed
  <1>7. ASSUME NEW f \in Seq(Field), Agree(f, e)
        PROVE  /\ RecordWhole("devices", f) <=> Len(e) <= Len(f)
               /\ Len(e) <= Len(f) => decodeRecord("devices", f) = Taken(Len(e), id, r)
    <2>1. RecordWhole("devices", f) <=> Len(f) >= 7  BY DEF RecordWhole
    <2>2. decodeRecord("devices", f) = decodeDevice(f)  BY Zenon DEF decodeRecord
    <2>3. ASSUME Len(f) >= 7  PROVE decodeDevice(f) = Taken(7, id, r)
      <3>1. 3 + 4 <= Len(f) /\ \A k \in 1 .. 3 : k <= Len(f)  BY <2>3
      <3>2. /\ \A k \in 1 .. 3 : f[k] = h[k]
            /\ OwnerIn(Drop(f, 3)) = r.owner /\ f[3 + 4] = r.provenance
        BY <1>5, <1>7, <3>1, Zenon DEF Framed
      <3>3. 1 \in 1 .. 3 /\ 2 \in 1 .. 3 /\ 3 \in 1 .. 3 /\ 3 + 4 = 7  OBVIOUS
      <3>4. f[1] = id /\ f[2] = r.present /\ f[3] = r.state /\ f[7] = r.provenance
        BY <1>3, <3>2, <3>3, Zenon
      <3>5. QED  BY <1>1, <3>2, <3>4, Zenon DEF decodeDevice
    <2>4. QED  BY <1>6, <2>1, <2>2, <2>3
  <1>8. QED  BY <1>6, <1>7, Zenon DEF ReadsBack, e

\* decodeSwitch reads back what encodeSwitch wrote.
LEMMA SwitchReadsBack ==
    ASSUME NEW id \in Nat, NEW r \in SwitchRecord
    PROVE  ReadsBack("switches", id, r)
  <1> DEFINE h == <<id, r.gen, r.portCount, r.state>>
             e == encodeRecord("switches", id, r)
  <1>1. /\ r = [gen |-> r.gen, portCount |-> r.portCount, state |-> r.state,
                owner |-> r.owner, provenance |-> r.provenance]
        /\ r.gen \in Gens /\ r.portCount \in Nat /\ r.state \in EntityState
        /\ r.owner \in Owners /\ r.provenance \in Provenance
    BY DEF SwitchRecord
  <1>2. id \in Field /\ r.gen \in Field /\ r.portCount \in Field /\ r.state \in Field
    <2>1. r.gen \in Nat  BY <1>1, WidthAssumption DEF Gens
    <2>2. QED  BY <1>1, <2>1 DEF Field
  <1>3. /\ h \in Seq(Field) /\ Len(h) = 4
        /\ h[1] = id /\ h[2] = r.gen /\ h[3] = r.portCount /\ h[4] = r.state
    BY <1>2, FourFields, Zenon
  <1>4. e = Cat(Cat(h, OwnerFields(r.owner)), <<r.provenance>>)
    BY Zenon DEF encodeRecord, encodeSwitch, Cat
  <1> HIDE DEF h, e
  <1>5. Framed(e, h, 4, r.owner, r.provenance)
    <2>1. 4 \in Nat /\ 4 = Len(h)  BY <1>3
    <2>2. QED  BY <1>1, <1>3, <1>4, <2>1, RecordFields, Zenon
  <1>6. e \in Seq(Field) /\ Len(e) = 8  BY <1>5 DEF Framed
  <1>7. ASSUME NEW f \in Seq(Field), Agree(f, e)
        PROVE  /\ RecordWhole("switches", f) <=> Len(e) <= Len(f)
               /\ Len(e) <= Len(f) => decodeRecord("switches", f) = Taken(Len(e), id, r)
    <2>1. RecordWhole("switches", f) <=> Len(f) >= 8  BY DEF RecordWhole
    <2>2. decodeRecord("switches", f) = decodeSwitch(f)  BY DEF decodeRecord
    <2>3. ASSUME Len(f) >= 8  PROVE decodeSwitch(f) = Taken(8, id, r)
      <3>1. 4 + 4 <= Len(f) /\ \A k \in 1 .. 4 : k <= Len(f)  BY <2>3
      <3>2. /\ \A k \in 1 .. 4 : f[k] = h[k]
            /\ OwnerIn(Drop(f, 4)) = r.owner /\ f[4 + 4] = r.provenance
        BY <1>5, <1>7, <3>1, Zenon DEF Framed
      <3>3. 1 \in 1 .. 4 /\ 2 \in 1 .. 4 /\ 3 \in 1 .. 4 /\ 4 \in 1 .. 4 /\ 4 + 4 = 8  OBVIOUS
      <3>4. f[1] = id /\ f[2] = r.gen /\ f[3] = r.portCount /\ f[4] = r.state /\ f[8] = r.provenance
        BY <1>3, <3>2, <3>3, Zenon
      <3>5. QED  BY <1>1, <3>2, <3>4, Zenon DEF decodeSwitch
    <2>4. QED  BY <1>6, <2>1, <2>2, <2>3
  <1>8. QED  BY <1>6, <1>7, Zenon DEF ReadsBack, e

\* decodePort reads back what encodePort wrote.
LEMMA PortReadsBack ==
    ASSUME NEW id \in Nat \X Nat, NEW r \in PortRecord
    PROVE  ReadsBack("ports", id, r)
  <1> DEFINE h == <<id[1], id[2], r.gen, r.state>>
             e == encodeRecord("ports", id, r)
  <1>1. /\ r = [gen |-> r.gen, state |-> r.state, owner |-> r.owner, provenance |-> r.provenance]
        /\ r.gen \in Gens /\ r.state \in EntityState
        /\ r.owner \in Owners /\ r.provenance \in Provenance
        /\ id = <<id[1], id[2]>> /\ id[1] \in Nat /\ id[2] \in Nat
    BY DEF PortRecord
  <1>2. id[1] \in Field /\ id[2] \in Field /\ r.gen \in Field /\ r.state \in Field
    <2>1. r.gen \in Nat  BY <1>1, WidthAssumption DEF Gens
    <2>2. QED  BY <1>1, <2>1 DEF Field
  <1>3. /\ h \in Seq(Field) /\ Len(h) = 4
        /\ h[1] = id[1] /\ h[2] = id[2] /\ h[3] = r.gen /\ h[4] = r.state
    <2> DEFINE sw == id[1]
               ix == id[2]
    <2>1. sw \in Field /\ ix \in Field /\ h = <<sw, ix, r.gen, r.state>>  BY <1>2
    <2> HIDE DEF sw, ix, h
    <2>2. h \in Seq(Field) /\ Len(h) = 4 /\ h[1] = sw /\ h[2] = ix /\ h[3] = r.gen /\ h[4] = r.state
      BY <1>2, <2>1, FourFields, Zenon
    <2>3. QED  BY <2>2 DEF sw, ix
  <1>4. e = Cat(Cat(h, OwnerFields(r.owner)), <<r.provenance>>)
    BY Zenon DEF encodeRecord, encodePort, Cat
  <1> HIDE DEF h, e
  <1>5. Framed(e, h, 4, r.owner, r.provenance)
    <2>1. 4 \in Nat /\ 4 = Len(h)  BY <1>3
    <2>2. QED  BY <1>1, <1>3, <1>4, <2>1, RecordFields, Zenon
  <1>6. e \in Seq(Field) /\ Len(e) = 8  BY <1>5 DEF Framed
  <1>7. ASSUME NEW f \in Seq(Field), Agree(f, e)
        PROVE  /\ RecordWhole("ports", f) <=> Len(e) <= Len(f)
               /\ Len(e) <= Len(f) => decodeRecord("ports", f) = Taken(Len(e), id, r)
    <2>1. RecordWhole("ports", f) <=> Len(f) >= 8  BY DEF RecordWhole
    <2>2. decodeRecord("ports", f) = decodePort(f)  BY DEF decodeRecord
    <2>3. ASSUME Len(f) >= 8  PROVE decodePort(f) = Taken(8, id, r)
      <3>1. 4 + 4 <= Len(f) /\ \A k \in 1 .. 4 : k <= Len(f)  BY <2>3
      <3>2. /\ \A k \in 1 .. 4 : f[k] = h[k]
            /\ OwnerIn(Drop(f, 4)) = r.owner /\ f[4 + 4] = r.provenance
        BY <1>5, <1>7, <3>1, Zenon DEF Framed
      <3>3. 1 \in 1 .. 4 /\ 2 \in 1 .. 4 /\ 3 \in 1 .. 4 /\ 4 \in 1 .. 4 /\ 4 + 4 = 8  OBVIOUS
      <3>4. f[1] = id[1] /\ f[2] = id[2] /\ f[3] = r.gen /\ f[4] = r.state /\ f[8] = r.provenance
        BY <1>3, <3>2, <3>3, Zenon
      <3>5. QED  BY <1>1, <3>2, <3>4, Zenon DEF decodePort
    <2>4. QED  BY <1>6, <2>1, <2>2, <2>3
  <1>8. QED  BY <1>6, <1>7, Zenon DEF ReadsBack, e

\* decodeLink reads back what encodeLink wrote.
LEMMA LinkReadsBack ==
    ASSUME NEW id \in Nat, NEW r \in LinkRecord
    PROVE  ReadsBack("links", id, r)
  <1> DEFINE p == r.port
             a == <<id, r.gen, r.rootSwitch, p[1], p[2]>>
             x == EndFields(r.otherEnd)
             b == <<r.state, r.degraded>>
             h == Cat(Cat(a, x), b)
             e == encodeRecord("links", id, r)
  <1>1. /\ r = [gen |-> r.gen, rootSwitch |-> r.rootSwitch, port |-> r.port, otherEnd |-> r.otherEnd,
                state |-> r.state, degraded |-> r.degraded, owner |-> r.owner, provenance |-> r.provenance]
        /\ r.gen \in Gens /\ r.rootSwitch \in SwitchIds /\ r.state \in EntityState
        /\ r.degraded \in BOOLEAN /\ r.otherEnd \in LinkEnds
        /\ r.owner \in Owners /\ r.provenance \in Provenance /\ p \in PortIds
    BY DEF LinkRecord
  <1>2. p = <<p[1], p[2]>> /\ p[1] \in Nat /\ p[2] \in Nat  BY <1>1, IdAssumption DEF PortIds
  <1>3. /\ id \in Field /\ r.gen \in Field /\ r.rootSwitch \in Field /\ p[1] \in Field /\ p[2] \in Field
        /\ r.state \in Field /\ r.degraded \in Field
    <2>1. r.gen \in Nat  BY <1>1, WidthAssumption DEF Gens
    <2>2. r.rootSwitch \in Nat  BY <1>1, IdAssumption
    <2>3. QED  BY <1>1, <1>2, <2>1, <2>2 DEF Field
  <1>4. /\ a \in Seq(Field) /\ Len(a) = 5
        /\ a[1] = id /\ a[2] = r.gen /\ a[3] = r.rootSwitch /\ a[4] = p[1] /\ a[5] = p[2]
    <2> DEFINE sw == p[1]
               ix == p[2]
    <2>1. sw \in Field /\ ix \in Field /\ a = <<id, r.gen, r.rootSwitch, sw, ix>>  BY <1>3
    <2> HIDE DEF sw, ix, a
    <2>2. /\ a \in Seq(Field) /\ Len(a) = 5
          /\ a[1] = id /\ a[2] = r.gen /\ a[3] = r.rootSwitch /\ a[4] = sw /\ a[5] = ix
      BY <1>3, <2>1, FiveFields, Zenon
    <2>3. QED  BY <2>2 DEF sw, ix
  <1>5. b \in Seq(Field) /\ Len(b) = 2 /\ b[1] = r.state /\ b[2] = r.degraded
    BY <1>3, TwoFields, Zenon
  <1>6. x \in Seq(Field) /\ Len(x) = 3  BY <1>1, EndWritten
  <1>7. e = Cat(Cat(h, OwnerFields(r.owner)), <<r.provenance>>)
    BY Zenon DEF encodeRecord, encodeLink, Cat
  <1> HIDE DEF a, b, x, e
  <1>8. h \in Seq(Field) /\ ThreeParts(h, a, x, b, 5, 3, 2)
    <2>1. 5 \in Nat /\ 3 \in Nat /\ 2 \in Nat /\ 5 = Len(a) /\ 3 = Len(x) /\ 2 = Len(b)
      BY <1>4, <1>5, <1>6
    <2>2. QED  BY <1>4, <1>5, <1>6, <2>1, ThreeJoined, Zenon
  <1> HIDE DEF h
  <1>9. /\ Len(h) = 10
        /\ h[1] = id /\ h[2] = r.gen /\ h[3] = r.rootSwitch /\ h[4] = p[1] /\ h[5] = p[2]
        /\ h[6] = x[1] /\ h[7] = x[2] /\ h[8] = x[3] /\ h[9] = r.state /\ h[10] = r.degraded
    <2>1. Len(h) = 5 + 3 + 2  BY <1>8, Zenon DEF ThreeParts
    <2>2. \A k \in 1 .. 5 : h[k] = a[k]  BY <1>8, Zenon DEF ThreeParts
    <2>3. \A k \in 1 .. 3 : h[5 + k] = x[k]  BY <1>8, Zenon DEF ThreeParts
    <2>4. \A k \in 1 .. 2 : h[5 + 3 + k] = b[k]  BY <1>8, Zenon DEF ThreeParts
    <2>5. h[5 + 1] = x[1] /\ h[5 + 2] = x[2] /\ h[5 + 3] = x[3]  BY <2>3
    <2>6. h[5 + 3 + 1] = b[1] /\ h[5 + 3 + 2] = b[2]  BY <2>4
    <2>7. h[1] = a[1] /\ h[2] = a[2] /\ h[3] = a[3] /\ h[4] = a[4] /\ h[5] = a[5]  BY <2>2
    <2>8. QED  BY <1>4, <1>5, <2>1, <2>5, <2>6, <2>7
  <1>10. Framed(e, h, 10, r.owner, r.provenance)
    <2>1. 10 \in Nat /\ 10 = Len(h)  BY <1>9
    <2>2. QED  BY <1>1, <1>7, <1>8, <2>1, RecordFields, Zenon
  <1>11. e \in Seq(Field) /\ Len(e) = 14  BY <1>10 DEF Framed
  <1>12. ASSUME NEW f \in Seq(Field), Agree(f, e)
         PROVE  /\ RecordWhole("links", f) <=> Len(e) <= Len(f)
                /\ Len(e) <= Len(f) => decodeRecord("links", f) = Taken(Len(e), id, r)
    <2>1. RecordWhole("links", f) <=> Len(f) >= 14  BY DEF RecordWhole
    <2>2. decodeRecord("links", f) = decodeLink(f)  BY DEF decodeRecord
    <2>3. ASSUME Len(f) >= 14  PROVE decodeLink(f) = Taken(14, id, r)
      <3>1. 10 + 4 <= Len(f) /\ \A k \in 1 .. 10 : k <= Len(f)  BY <2>3
      <3>2. /\ \A k \in 1 .. 10 : f[k] = h[k]
            /\ OwnerIn(Drop(f, 10)) = r.owner /\ f[10 + 4] = r.provenance
        BY <1>10, <1>12, <3>1, Zenon DEF Framed
      <3>3. /\ f[1] = h[1] /\ f[2] = h[2] /\ f[3] = h[3] /\ f[4] = h[4] /\ f[5] = h[5]
            /\ f[6] = h[6] /\ f[7] = h[7] /\ f[8] = h[8] /\ f[9] = h[9] /\ f[10] = h[10]
        BY <3>2
      <3>4. f[10 + 4] = f[14]  OBVIOUS
      <3>5. EndIn(Drop(f, 5)) = r.otherEnd
        <4> DEFINE g == Drop(f, 5)
        <4>1. \A k \in 1 .. (Len(f) - 5) : g[k] = f[5 + k]
          <5>1. 5 \in Nat /\ 5 <= Len(f)  BY <2>3
          <5>2. QED  BY <5>1, DropFacts, Zenon
        <4>2. 1 \in 1 .. (Len(f) - 5) /\ 2 \in 1 .. (Len(f) - 5) /\ 3 \in 1 .. (Len(f) - 5)  BY <2>3
        <4> HIDE DEF g
        <4>3. g[1] = f[5 + 1] /\ g[2] = f[5 + 2] /\ g[3] = f[5 + 3]  BY <4>1, <4>2, Zenon
        <4>4. g[1] = x[1] /\ g[2] = x[2] /\ g[3] = x[3]  BY <1>9, <3>3, <4>3
        <4>5. EndIn(g) = r.otherEnd  BY <1>1, <4>4, EndWritten, Zenon DEF x
        <4>6. QED  BY <4>5 DEF g
      <3>6. <<f[4], f[5]>> = r.port  BY <1>2, <1>9, <3>3, Zenon
      <3> DEFINE own == OwnerIn(Drop(f, 10))
                 far == EndIn(Drop(f, 5))
      <3>7. decodeLink(f) = Taken(14, f[1], [gen |-> f[2], rootSwitch |-> f[3], port |-> <<f[4], f[5]>>,
                     otherEnd |-> far, state |-> f[9], degraded |-> f[10],
                     owner |-> own, provenance |-> f[14]])
        BY Zenon DEF decodeLink
      <3>8. own = r.owner /\ far = r.otherEnd /\ f[1] = id /\ f[2] = r.gen /\ f[3] = r.rootSwitch
            /\ f[9] = r.state /\ f[10] = r.degraded /\ f[14] = r.provenance
        BY <1>9, <3>2, <3>3, <3>4, <3>5, Zenon
      <3> HIDE DEF own, far
      <3>9. QED  BY <1>1, <3>6, <3>7, <3>8, Zenon
    <2>4. QED  BY <1>11, <2>1, <2>2, <2>3
  <1>13. QED  BY <1>11, <1>12, Zenon DEF ReadsBack, e

\* A sequence over S is one over every larger set.
LEMMA SeqWider ==
    ASSUME NEW S, NEW T, S \subseteq T, NEW q \in Seq(S)
    PROVE  q \in Seq(T)
  OBVIOUS

\* w is the size c of S and its elements, which can be read again.
Written(w, c, S) ==
    /\ c \in Nat /\ w \in Seq(Field) /\ Len(w) = 1 + c /\ w[1] = c
    /\ \A g : (\A k \in 1 .. (1 + c) : g[k] = w[k]) => Listed(g) = S

\* A set of numbers in a list that starts with their count.
LEMMA ListWritten ==
    ASSUME NEW S \in SUBSET Nat, IsFiniteSet(S), NEW c, c = Cardinality(S),
           NEW w, w = Cat(<<c>>, Increasing(S))
    PROVE  Written(w, c, S)
  <1> DEFINE q == Increasing(S)
  <1>1. Lists(q, S) /\ Len(q) = c  BY NumbersListed
  <1>2. c \in Nat /\ c \in Field
    <2>1. c \in Nat  BY FS_CardinalityType
    <2>2. QED  BY <2>1 DEF Field
  <1> DEFINE z == <<c>>
  <1>3. z \in Seq(Field) /\ Len(z) = 1 /\ z[1] = c  BY <1>2, OneField, Zenon
  <1>4. q \in Seq(Field)
    <2>1. S \subseteq Field  BY DEF Field
    <2>2. q \in Seq(S)  BY <1>1 DEF Lists
    <2> HIDE DEF Field
    <2> HIDE DEF q
    <2>3. QED  BY <2>1, <2>2, SeqWider, Zenon
  <1>5. w = Cat(z, q)  OBVIOUS
  <1> HIDE DEF z, q
  <1>6. w \in Seq(Field) /\ TwoParts(w, z, q, 1, c)
    <2>1. 1 \in Nat /\ 1 = Len(z) /\ c = Len(q)  BY <1>1, <1>3
    <2>2. QED  BY <1>2, <1>3, <1>4, <1>5, <2>1, TwoJoined, Zenon
  <1>7. Len(w) = 1 + c /\ w[1] = c /\ \A k \in 1 .. c : w[1 + k] = q[k]
    <2>1. 1 \in 1 .. 1  OBVIOUS
    <2>2. QED  BY <1>3, <1>6, <2>1, Zenon DEF TwoParts
  <1>8. ASSUME NEW g, \A k \in 1 .. (1 + c) : g[k] = w[k]  PROVE Listed(g) = S
    <2>1. 1 \in 1 .. (1 + c) /\ \A k \in 1 .. c : 1 + k \in 1 .. (1 + c)  BY <1>2
    <2>2. g[1] = c /\ \A k \in 1 .. c : g[1 + k] = q[k]  BY <1>7, <1>8, <2>1, Zenon
    <2>3. Listed(g) = {g[i] : i \in 2 .. (c + 1)}  BY <2>2, Zenon DEF Listed
    <2>4. /\ \A i \in 2 .. (c + 1) : i - 1 \in 1 .. c /\ 1 + (i - 1) = i
          /\ \A k \in 1 .. c : 1 + k \in 2 .. (c + 1)
      BY <1>2
    <2>5. \A k \in 1 .. c : q[k] \in S  BY <1>1, <1>2 DEF Lists
    <2>6. \A x \in S : \E k \in 1 .. c : q[k] = x  BY <1>1, Zenon DEF Lists
    <2>7. \A i \in 2 .. (c + 1) : g[i] \in S
      <3>1. ASSUME NEW i \in 2 .. (c + 1)  PROVE g[i] \in S
        <4>1. g[1 + (i - 1)] = q[i - 1] /\ q[i - 1] \in S  BY <2>2, <2>4, <2>5, Zenon
        <4>2. QED  BY <2>4, <4>1
      <3>2. QED  BY <3>1
    <2>8. ASSUME NEW x \in S  PROVE \E i \in 2 .. (c + 1) : g[i] = x
      <3>1. PICK k \in 1 .. c : q[k] = x  BY <2>6
      <3>2. g[1 + k] = x /\ 1 + k \in 2 .. (c + 1)  BY <2>2, <2>4, <3>1, Zenon
      <3>3. QED  BY <3>2
    <2>9. {g[i] : i \in 2 .. (c + 1)} = S  BY <2>7, <2>8
    <2>10. QED  BY <2>3, <2>9
  <1>9. QED  BY <1>2, <1>6, <1>7, <1>8, Zenon DEF Written

\* decodePartition reads back what encodePartition wrote, within its limits.
LEMMA PartitionReadsBack ==
    ASSUME NEW id \in Nat, NEW r \in PartitionRecord,
           Cardinality(r.members) <= kMaxDevices, Cardinality(r.switches) <= kMaxSwitches
    PROVE  ReadsBack("partitions", id, r)
  <1> DEFINE M == r.members
             S == r.switches
             c == Cardinality(M)
             d == Cardinality(S)
             ml == Cat(<<c>>, Increasing(M))
             sl == Cat(<<d>>, Increasing(S))
             a == <<id, r.gen, r.fabric>>
             b == <<r.state>>
             m == Cat(Cat(a, ml), sl)
             h == Cat(m, b)
             e == encodeRecord("partitions", id, r)
             n == 6 + c + d
  <1>1. /\ r = [gen |-> r.gen, fabric |-> r.fabric, members |-> r.members, switches |-> r.switches,
                state |-> r.state, owner |-> r.owner, provenance |-> r.provenance]
        /\ r.gen \in Gens /\ r.fabric \in FabricIds /\ M \subseteq DeviceIds /\ S \subseteq SwitchIds
        /\ r.state \in PartitionState /\ r.owner \in Owners /\ r.provenance \in Provenance
    BY DEF PartitionRecord
  <1>2. id \in Field /\ r.gen \in Field /\ r.fabric \in Field /\ r.state \in Field
    <2>1. r.gen \in Nat  BY <1>1, WidthAssumption DEF Gens
    <2>2. QED  BY <1>1, <2>1 DEF Field
  <1>3. a \in Seq(Field) /\ Len(a) = 3 /\ a[1] = id /\ a[2] = r.gen /\ a[3] = r.fabric
    BY <1>2, ThreeFields, Zenon
  <1>4. b \in Seq(Field) /\ Len(b) = 1 /\ b[1] = r.state  BY <1>2, OneField, Zenon
  <1>5. /\ M \in SUBSET Nat /\ IsFiniteSet(M) /\ S \in SUBSET Nat /\ IsFiniteSet(S)
    BY <1>1, IdAssumption, IdWidthAssumption, FS_Subset
  <1>6. e = Cat(Cat(h, OwnerFields(r.owner)), <<r.provenance>>)
    BY Zenon DEF encodeRecord, encodePartition, Cat, Ordered, Increasing
  <1> HIDE DEF a, b, e
  <1>6a. Written(ml, c, M) /\ Written(sl, d, S)  BY <1>5, ListWritten
  <1>7. /\ c \in Nat /\ ml \in Seq(Field) /\ Len(ml) = 1 + c /\ ml[1] = c
        /\ \A g : (\A k \in 1 .. (1 + c) : g[k] = ml[k]) => Listed(g) = M
    BY <1>6a, Zenon DEF Written
  <1>8. /\ d \in Nat /\ sl \in Seq(Field) /\ Len(sl) = 1 + d /\ sl[1] = d
        /\ \A g : (\A k \in 1 .. (1 + d) : g[k] = sl[k]) => Listed(g) = S
    BY <1>6a, Zenon DEF Written
  <1>8a. c \in Nat /\ d \in Nat  BY <1>7, <1>8
  <1>9. c <= kMaxDevices /\ d <= kMaxSwitches  OBVIOUS
  <1> HIDE DEF ml, sl, c, d, M, S
  <1>10. m \in Seq(Field) /\ ThreeParts(m, a, ml, sl, 3, 1 + c, 1 + d)
    <2>1. 3 \in Nat /\ 1 + c \in Nat /\ 1 + d \in Nat /\ 3 = Len(a) /\ 1 + c = Len(ml) /\ 1 + d = Len(sl)
      BY <1>3, <1>7, <1>8
    <2>2. QED  BY <1>3, <1>7, <1>8, <2>1, ThreeJoined, Zenon
  <1> HIDE DEF m
  <1>11. h \in Seq(Field) /\ TwoParts(h, m, b, 5 + c + d, 1)
    <2>1. 5 + c + d \in Nat /\ 1 \in Nat /\ 3 + (1 + c) + (1 + d) = 5 + c + d  BY <1>8a
    <2>2. Len(m) = 3 + (1 + c) + (1 + d)  BY <1>10, Zenon DEF ThreeParts
    <2>3. 5 + c + d = Len(m) /\ 1 = Len(b)  BY <1>4, <2>1, <2>2
    <2>4. QED  BY <1>4, <1>10, <2>1, <2>3, TwoJoined, Zenon
  <1> HIDE DEF h
  <1>12. /\ n \in Nat /\ Len(h) = n /\ h[1] = id /\ h[2] = r.gen /\ h[3] = r.fabric
         /\ \A k \in 1 .. (1 + c) : h[3 + k] = ml[k]
         /\ \A k \in 1 .. (1 + d) : h[(4 + c) + k] = sl[k]
         /\ h[n] = r.state
    <2>1. /\ n \in Nat /\ (5 + c + d) + 1 = n /\ 1 \in 1 .. 1
          /\ 1 \in 1 .. 3 /\ 2 \in 1 .. 3 /\ 3 \in 1 .. 3
          /\ \A k \in 1 .. 3 : k \in 1 .. (5 + c + d)
          /\ \A k \in 1 .. (1 + c) : 3 + k \in 1 .. (5 + c + d)
          /\ \A k \in 1 .. (1 + d) : (4 + c) + k \in 1 .. (5 + c + d) /\ 3 + (1 + c) + k = (4 + c) + k
      BY <1>8a
    <2>2. /\ Len(h) = (5 + c + d) + 1 /\ \A k \in 1 .. (5 + c + d) : h[k] = m[k]
          /\ \A k \in 1 .. 1 : h[(5 + c + d) + k] = b[k]
      BY <1>11, Zenon DEF TwoParts
    <2>3. /\ \A k \in 1 .. 3 : m[k] = a[k]
          /\ \A k \in 1 .. (1 + c) : m[3 + k] = ml[k]
          /\ \A k \in 1 .. (1 + d) : m[3 + (1 + c) + k] = sl[k]
      BY <1>10, Zenon DEF ThreeParts
    <2> HIDE DEF n
    <2>4. h[1] = a[1] /\ h[2] = a[2] /\ h[3] = a[3]
      <3>1. \A k \in 1 .. 3 : h[k] = a[k]  BY <2>1, <2>2, <2>3, Zenon
      <3>2. QED  BY <3>1
    <2>5. \A k \in 1 .. (1 + c) : h[3 + k] = ml[k]  BY <2>1, <2>2, <2>3, Zenon
    <2>6. \A k \in 1 .. (1 + d) : h[(4 + c) + k] = sl[k]  BY <2>1, <2>2, <2>3, Zenon
    <2>7. h[n] = b[1]  BY <2>1, <2>2, Zenon
    <2>8. QED  BY <1>3, <1>4, <2>1, <2>2, <2>4, <2>5, <2>6, <2>7, Zenon
  <1>13. Framed(e, h, n, r.owner, r.provenance)
    <2> HIDE DEF n
    <2>1. n \in Nat /\ n = Len(h)  BY <1>12
    <2>2. QED  BY <1>1, <1>6, <1>11, <2>1, RecordFields, Zenon
  <1>14. e \in Seq(Field) /\ Len(e) = n + 4  BY <1>13 DEF Framed
  <1>15. ASSUME NEW f \in Seq(Field), Agree(f, e)
         PROVE  /\ RecordWhole("partitions", f) <=> Len(e) <= Len(f)
                /\ Len(e) <= Len(f) => decodeRecord("partitions", f) = Taken(Len(e), id, r)
    <2> DEFINE L == Len(f)
    <2>1. L \in Nat  OBVIOUS
    <2>2. RecordWhole("partitions", f) <=> PartitionWhole(f)  BY DEF RecordWhole
    <2>3. decodeRecord("partitions", f) = decodePartition(f)  BY DEF decodeRecord
    <2>4. /\ \A k \in 1 .. n : k <= L => f[k] = h[k]
          /\ n + 4 <= L => OwnerIn(Drop(f, n)) = r.owner /\ f[n + 4] = r.provenance
      BY <1>13, <1>15, Zenon DEF Framed
    <2> HIDE DEF L
    <2>5. L >= 4 => f[4] = c
      <3>1. 4 \in 1 .. n /\ 1 \in 1 .. (1 + c) /\ 3 + 1 = 4  BY <1>8a
      <3>2. h[4] = c  BY <1>7, <1>12, <3>1
      <3> HIDE DEF n
      <3>3. QED  BY <2>4, <3>1, <3>2
    <2>6. L >= 5 + c => f[5 + c] = d
      <3>1. 5 + c \in 1 .. n /\ 1 \in 1 .. (1 + d) /\ (4 + c) + 1 = 5 + c  BY <1>8a
      <3>2. h[(4 + c) + 1] = sl[1]  BY <1>12, <3>1, Zenon
      <3>3. h[5 + c] = d  BY <1>8, <3>1, <3>2
      <3> HIDE DEF n
      <3>4. QED  BY <2>4, <3>1, <3>3
    <2>7. PartitionWhole(f) <=> L >= n + 4
      <3>1. PartitionWhole(f) <=> /\ L >= 4 /\ f[4] <= kMaxDevices
                                  /\ L >= 5 + f[4] /\ f[5 + f[4]] <= kMaxSwitches
                                  /\ L >= 10 + f[4] + f[5 + f[4]]
        BY Zenon DEF PartitionWhole, L
      <3>2. CASE L >= 5 + c
        <4>1. L >= 4 /\ f[4] = c  BY <1>7, <2>1, <2>5, <3>2
        <4>2. f[5 + f[4]] = d  BY <2>6, <3>2, <4>1
        <4>3. PartitionWhole(f) <=> L >= 5 + c /\ L >= 10 + c + d  BY <1>9, <3>1, <4>1, <4>2, Zenon
        <4>4. QED  BY <1>8a, <2>1, <3>2, <4>3
      <3>3. CASE ~ (L >= 5 + c)
        <4>1. ~ (L >= n + 4)  BY <1>8a, <2>1, <3>3
        <4>2. L >= 4 => ~ (L >= 5 + f[4])  BY <2>5, <3>3
        <4>3. QED  BY <3>1, <4>1, <4>2
      <3>4. QED  BY <3>2, <3>3
    <2>8. ASSUME L >= n + 4  PROVE decodePartition(f) = Taken(n + 4, id, r)
      <3> DEFINE sw == Drop(f, 4 + c)
                 rest == Drop(sw, 1 + d)
                 mem == Drop(f, 3)
      <3>1. /\ L >= 4 /\ L >= 5 + c /\ 4 + c \in Nat /\ 4 + c <= L /\ 3 \in Nat /\ 3 <= L
            /\ 1 + d \in Nat /\ (4 + c) + (1 + d) = 5 + c + d /\ 5 + c + d <= L /\ 5 + c + d \in Nat
            /\ n + 4 <= L
        BY <1>8a, <2>1, <2>8
      <3>2. f[4] = c /\ f[5 + c] = d  BY <2>5, <2>6, <3>1
      <3>3. \A k \in 1 .. (L - 3) : mem[k] = f[3 + k]  BY <3>1, DropFacts, Zenon DEF L
      <3>4. \A k \in 1 .. (L - (4 + c)) : sw[k] = f[(4 + c) + k]  BY <3>1, DropFacts, Zenon DEF L
      <3>5. rest = Drop(f, 5 + c + d)
        <4>1. (4 + c) + (1 + d) <= L  BY <3>1
        <4>2. rest = Drop(f, (4 + c) + (1 + d))
          <5> DEFINE p == 4 + c
                     q == 1 + d
          <5>1. p \in Nat /\ q \in Nat /\ p + q <= Len(f)  BY <3>1, <4>1 DEF L
          <5> HIDE DEF p, q
          <5>2. Drop(Drop(f, p), q) = Drop(f, p + q)  BY <5>1, DropDrop
          <5>3. QED  BY <5>2 DEF p, q
        <4>3. QED  BY <3>1, <4>2
      <3>6. /\ Len(rest) = L - (5 + c + d)
            /\ \A k \in 1 .. (L - (5 + c + d)) : rest[k] = f[(5 + c + d) + k]
        <4> DEFINE z == Drop(f, 5 + c + d)
        <4>1. Len(z) = L - (5 + c + d) /\ \A k \in 1 .. (L - (5 + c + d)) : z[k] = f[(5 + c + d) + k]
          BY <3>1, DropFacts, Zenon DEF L
        <4> HIDE DEF z, rest
        <4>2. rest = z  BY <3>5 DEF z
        <4>3. QED  BY <4>1, <4>2, Zenon
      <3>7. Drop(rest, 1) = Drop(f, n)
        <4>1. (5 + c + d) + 1 = n /\ (5 + c + d) + 1 <= L /\ 1 \in Nat  BY <1>8a, <2>1, <3>1
        <4>2. Drop(Drop(f, 5 + c + d), 1) = Drop(f, (5 + c + d) + 1)
          BY <3>1, <4>1, DropDrop, ZenonT(40) DEF L
        <4> HIDE DEF n
        <4>3. QED  BY <3>5, <4>1, <4>2, Zenon
      <3>8. Listed(mem) = M
        <4>1. \A k \in 1 .. (1 + c) : k \in 1 .. (L - 3) /\ 3 + k \in 1 .. n /\ 3 + k <= L
          BY <1>8a, <2>1, <3>1
        <4> HIDE DEF mem, n
        <4>2. \A k \in 1 .. (1 + c) : mem[k] = ml[k]  BY <1>12, <2>4, <3>3, <4>1, Zenon
        <4>3. QED  BY <1>7, <4>2, Zenon
      <3>9. Listed(sw) = S /\ sw[1] = d
        <4>1. \A k \in 1 .. (1 + d) : k \in 1 .. (L - (4 + c)) /\ (4 + c) + k \in 1 .. n /\ (4 + c) + k <= L
          BY <1>8a, <2>1, <3>1
        <4>2. 1 \in 1 .. (1 + d)  BY <1>8
        <4> HIDE DEF sw, n
        <4>3. \A k \in 1 .. (1 + d) : sw[k] = sl[k]  BY <1>12, <2>4, <3>4, <4>1, Zenon
        <4>4. QED  BY <1>8, <4>2, <4>3, Zenon
      <3>10. rest[1] = r.state /\ rest[5] = r.provenance
        <4>1. /\ 1 \in 1 .. (L - (5 + c + d)) /\ 5 \in 1 .. (L - (5 + c + d))
              /\ (5 + c + d) + 1 = n /\ (5 + c + d) + 5 = n + 4 /\ n \in 1 .. n /\ n <= L
          BY <1>8a, <2>1, <3>1
        <4>2. rest[1] = f[(5 + c + d) + 1] /\ rest[5] = f[(5 + c + d) + 5]
          BY <3>6, <4>1, Zenon
        <4> HIDE DEF n, rest
        <4>3. QED  BY <1>12, <2>4, <3>1, <4>1, <4>2, Zenon
      <3>11. Len(f) - Len(rest) + 5 = n + 4
        <4> HIDE DEF rest
        <4>1. L - Len(rest) + 5 = n + 4
          <5> DEFINE v == Len(rest)
          <5>1. v = L - (5 + c + d)  BY <3>6
          <5> HIDE DEF v
          <5>2. L - v + 5 = n + 4  BY <1>8a, <2>1, <5>1
          <5>3. QED  BY <5>2 DEF v
        <4>2. QED  BY <4>1 DEF L
      <3>12. f[1] = id /\ f[2] = r.gen /\ f[3] = r.fabric
        <4>1. 1 \in 1 .. n /\ 2 \in 1 .. n /\ 3 \in 1 .. n /\ 1 <= L /\ 2 <= L /\ 3 <= L
          BY <1>8a, <2>1, <3>1
        <4> HIDE DEF n
        <4>2. QED  BY <1>12, <2>4, <4>1, Zenon
      <3>13. OwnerIn(Drop(rest, 1)) = r.owner  BY <2>4, <3>1, <3>7, Zenon
      <3>14. decodePartition(f) =
                LET t == Drop(f, 4 + f[4])
                    u == Drop(t, 1 + t[1])
                IN  Taken(Len(f) - Len(u) + 5, f[1],
                      [gen |-> f[2], fabric |-> f[3], members |-> Listed(Drop(f, 3)),
                       switches |-> Listed(t), state |-> u[1],
                       owner |-> OwnerIn(Drop(u, 1)), provenance |-> u[5]])
        BY Zenon DEF decodePartition
      <3>15. decodePartition(f) = Taken(Len(f) - Len(rest) + 5, f[1],
                      [gen |-> f[2], fabric |-> f[3], members |-> Listed(mem),
                       switches |-> Listed(sw), state |-> rest[1],
                       owner |-> OwnerIn(Drop(rest, 1)), provenance |-> rest[5]])
        BY <3>2, <3>9, <3>14, Zenon
      <3> HIDE DEF rest, sw, mem, n
      <3>16. QED  BY <1>1, <3>8, <3>9, <3>10, <3>11, <3>12, <3>13, <3>15, Zenon DEF M, S
    <2> HIDE DEF n
    <2>9. QED  BY <1>14, <2>1, <2>2, <2>3, <2>7, <2>8 DEF L
  <1>16. QED  BY <1>14, <1>15, Zenon DEF ReadsBack, e

-----------------------------------------------------------------------------
(* The maps of a payload, and the payload. *)

\* The reader after b fields of G, with the map m.
At(G, b, m) == IF b <= Len(G) THEN Reader(Drop(G, b), m) ELSE Overrun

\* From its b-th field on G is e, as far as it goes.
From(G, b, e) == \A k \in 1 .. Len(e) : b + k <= Len(G) => G[b + k] = e[k]

\* The map with one key more.
WithKey(m, key, r) == [k \in DOMAIN m \cup {key} |-> IF k = key THEN r ELSE m[k]]

\* The parts of a reader.
LEMMA ReaderFacts ==
    ASSUME NEW f, NEW m
    PROVE  /\ Reader(f, m).ok = TRUE /\ Reader(f, m).rest = f /\ Reader(f, m).map = m
           /\ Overrun.ok = FALSE
  BY DEF Reader, Overrun

\* ReadRecord takes the next record, if the rest of it has arrived.
LEMMA RecordRead ==
    ASSUME NEW kind, NEW G \in Seq(Field), NEW b \in Nat, NEW m, NEW key, key \notin DOMAIN m,
           NEW r, ReadsBack(kind, key, r), NEW e, e = encodeRecord(kind, key, r), From(G, b, e)
    PROVE  ReadRecord(At(G, b, m), kind) = At(G, b + Len(e), WithKey(m, key, r))
  <1> DEFINE x == At(G, b, m)
             L == Len(G)
             w == Len(e)
             f == Drop(G, b)
  <1>1. e \in Seq(Field) /\ L \in Nat /\ w \in Nat
    <2>1. e \in Seq(Field)  BY Zenon DEF ReadsBack
    <2> HIDE DEF Field
    <2>2. QED  BY <2>1
  <1>2. ReadRecord(x, kind) =
           IF x.ok /\ RecordWhole(kind, x.rest) /\ decodeRecord(kind, x.rest).key \notin DOMAIN x.map
           THEN Reader(Drop(x.rest, decodeRecord(kind, x.rest).width),
                       WithKey(x.map, decodeRecord(kind, x.rest).key, decodeRecord(kind, x.rest).rec))
           ELSE Overrun
    BY Zenon DEF ReadRecord, WithKey
  <1>3. CASE b <= L
    <2>1. x = Reader(f, m)  BY <1>3, Zenon DEF At
    <2>2. x.ok /\ x.rest = f /\ x.map = m
      <3> DEFINE z == Reader(f, m)
      <3>1. z.ok /\ z.rest = f /\ z.map = m
        <4> HIDE DEF f
        <4>1. QED  BY DEF Reader
      <3> HIDE DEF z, x, f
      <3>2. x = z  BY <2>1 DEF z
      <3>3. QED  BY <3>1, <3>2, Zenon
    <2>3. f \in Seq(Field) /\ Len(f) = L - b /\ \A k \in 1 .. (L - b) : f[k] = G[b + k]
      BY <1>3, DropFacts
    <2> HIDE DEF x, f, Field
    <2>4. Agree(f, e)
      <3>1. \A k \in 1 .. w : k <= Len(f) => k \in 1 .. (L - b) /\ b + k <= L  BY <1>1, <1>3, <2>3
      <3>2. QED  BY <2>3, <3>1, Zenon DEF Agree, From
    <2>5. /\ RecordWhole(kind, f) <=> w <= Len(f)
          /\ w <= Len(f) => decodeRecord(kind, f) = Taken(w, key, r)
      BY <2>3, <2>4, Zenon DEF ReadsBack
    <2>6. w <= Len(f) <=> b + w <= L  BY <1>1, <1>3, <2>3
    <2>7. CASE b + w <= L
      <3>1. RecordWhole(kind, f) /\ decodeRecord(kind, f) = Taken(w, key, r)
        BY <2>5, <2>6, <2>7, Zenon
      <3>2. /\ decodeRecord(kind, f).key = key /\ decodeRecord(kind, f).width = w
            /\ decodeRecord(kind, f).rec = r
        <4> DEFINE one == Taken(w, key, r)
        <4>1. one.key = key /\ one.width = w /\ one.rec = r  BY DEF Taken
        <4> HIDE DEF one
        <4>2. decodeRecord(kind, f) = one  BY <3>1 DEF one
        <4>3. QED  BY <4>1, <4>2, Zenon
      <3>3. ReadRecord(x, kind) = Reader(Drop(f, w), WithKey(m, key, r))
        BY <1>2, <2>2, <3>1, <3>2, Zenon
      <3>4. Drop(f, w) = Drop(G, b + w)  BY <1>1, <2>7, DropDrop, Zenon DEF f
      <3>5. At(G, b + w, WithKey(m, key, r)) = Reader(Drop(G, b + w), WithKey(m, key, r))
        BY <2>7, Zenon DEF At
      <3>6. QED  BY <3>3, <3>4, <3>5, Zenon DEF x
    <2>8. CASE ~ (b + w <= L)
      <3>1. ~ RecordWhole(kind, f)  BY <2>5, <2>6, <2>8, Zenon
      <3>2. ReadRecord(x, kind) = Overrun  BY <1>2, <2>2, <3>1, Zenon
      <3>3. At(G, b + w, WithKey(m, key, r)) = Overrun  BY <2>8, Zenon DEF At
      <3>4. QED  BY <3>2, <3>3, Zenon DEF x
    <2>9. QED  BY <2>7, <2>8
  <1>4. CASE ~ (b <= L)
    <2>1. x = Overrun  BY <1>4, Zenon DEF At
    <2>2. ~ x.ok  BY <2>1, ReaderFacts, Zenon
    <2>3. ReadRecord(x, kind) = Overrun
      <3> HIDE DEF x
      <3>1. QED  BY <1>2, <2>2, Zenon
    <2>4. ~ (b + w <= L)  BY <1>1, <1>4
    <2>5. At(G, b + w, WithKey(m, key, r)) = Overrun  BY <2>4, Zenon DEF At
    <2>6. QED  BY <2>3, <2>5, Zenon
  <1>5. QED  BY <1>3, <1>4

\* s has the fields of the records of map, in the order of keys.
Fields(kind, map, keys, s, n) ==
    /\ map = [k \in DOMAIN map |-> map[k]]
    /\ Lists(keys, DOMAIN map) /\ n \in Nat /\ n = Len(keys)
    /\ \A k \in DOMAIN map : ReadsBack(kind, k, map[k])
    /\ s = [i \in 1 .. n |-> encodeRecord(kind, keys[i], map[keys[i]])]

\* What EncodeMap writes: the size and the records.
LEMMA MapWritten ==
    ASSUME NEW kind, NEW map, NEW keys, NEW s, NEW n, Fields(kind, map, keys, s, n),
           NEW F, F = FlattenSeq(s), NEW E, E = Cat(<<n>>, F)
    PROVE  /\ s \in [1 .. n -> Seq(Field)]
           /\ F \in Seq(Field) /\ Len(F) \in Nat
           /\ E \in Seq(Field) /\ TwoParts(E, <<n>>, F, 1, Len(F))
  <1>1. n \in Nat /\ n = Len(keys) /\ Lists(keys, DOMAIN map)  BY DEF Fields
  <1>2. \A i \in 1 .. n : keys[i] \in DOMAIN map  BY <1>1 DEF Lists
  <1>3. \A i \in 1 .. n : encodeRecord(kind, keys[i], map[keys[i]]) \in Seq(Field)
    <2>1. \A k \in DOMAIN map : encodeRecord(kind, k, map[k]) \in Seq(Field)
      BY Zenon DEF Fields, ReadsBack
    <2>2. QED  BY <1>2, <2>1
  <1>4. n \in Field  BY <1>1 DEF Field
  <1> HIDE DEF Field
  <1>5. s \in [1 .. n -> Seq(Field)]
    <2>1. s = [i \in 1 .. n |-> encodeRecord(kind, keys[i], map[keys[i]])]  BY DEF Fields
    <2>2. QED  BY <1>3, <2>1
  <1>6. F \in Seq(Field)  BY <1>1, <1>5, FlattenLayout, Zenon
  <1>7. Len(F) \in Nat  BY <1>6
  <1> DEFINE z == <<n>>
  <1>8. z \in Seq(Field) /\ Len(z) = 1  BY <1>4, OneField, Zenon
  <1> HIDE DEF z
  <1>9. E \in Seq(Field) /\ TwoParts(E, z, F, 1, Len(F))
    <2>1. E = Cat(z, F)  BY DEF z
    <2>2. 1 \in Nat /\ 1 = Len(z) /\ Len(F) = Len(F)  BY <1>8
    <2>3. QED  BY <1>6, <1>7, <1>8, <2>1, <2>2, TwoJoined, Zenon
  <1>10. QED  BY <1>5, <1>6, <1>7, <1>9, Zenon DEF z

\* The map with its first i keys.
Until(map, keys, i) == [k \in {keys[j] : j \in 1 .. i} |-> map[k]]

\* It grows by a key at a time,
LEMMA UntilStep ==
    ASSUME NEW map, NEW keys, NEW n \in Nat, NEW i \in 1 .. n
    PROVE  Until(map, keys, i) = WithKey(Until(map, keys, i - 1), keys[i], map[keys[i]])
  <1> DEFINE A == {keys[j] : j \in 1 .. (i - 1)}
             B == {keys[j] : j \in 1 .. i}
             u == Until(map, keys, i - 1)
  <1>1. B = A \cup {keys[i]}
    <2>1. \A j \in 1 .. i : j \in 1 .. (i - 1) \/ j = i  OBVIOUS
    <2>2. \A j \in 1 .. (i - 1) : j \in 1 .. i  OBVIOUS
    <2>3. i \in 1 .. i  OBVIOUS
    <2>4. \A x \in B : x \in A \cup {keys[i]}  BY <2>1
    <2>5. \A x \in A \cup {keys[i]} : x \in B  BY <2>2, <2>3
    <2>6. QED  BY <2>4, <2>5
  <1> HIDE DEF A, B
  <1>2. u = [k \in A |-> map[k]] /\ Until(map, keys, i) = [k \in B |-> map[k]]
    BY Zenon DEF Until, A, B
  <1>3. DOMAIN u = A /\ \A k \in A : u[k] = map[k]  BY <1>2
  <1> HIDE DEF u
  <1>4. WithKey(u, keys[i], map[keys[i]]) = [k \in B |-> IF k = keys[i] THEN map[keys[i]] ELSE u[k]]
    BY <1>1, <1>3 DEF WithKey
  <1>5. \A k \in B : (IF k = keys[i] THEN map[keys[i]] ELSE u[k]) = map[k]  BY <1>1, <1>3
  <1>6. [k \in B |-> IF k = keys[i] THEN map[keys[i]] ELSE u[k]] = [k \in B |-> map[k]]
    BY <1>5, Zenon
  <1>7. QED  BY <1>2, <1>4, <1>6 DEF u

\* from none to all, and each key is new.
LEMMA UntilEnds ==
    ASSUME NEW kind, NEW map, NEW keys, NEW s, NEW n, Fields(kind, map, keys, s, n)
    PROVE  /\ Until(map, keys, 0) = EmptyMap /\ Until(map, keys, n) = map
           /\ \A i \in 1 .. n : keys[i] \notin DOMAIN Until(map, keys, i - 1)
  <1>1. n \in Nat /\ n = Len(keys) /\ Lists(keys, DOMAIN map) /\ map = [k \in DOMAIN map |-> map[k]]
    BY Zenon DEF Fields
  <1>2. /\ \A i \in 1 .. n : keys[i] \in DOMAIN map
        /\ \A x \in DOMAIN map : \E i \in 1 .. n : keys[i] = x
        /\ \A i, j \in 1 .. n : i # j => keys[i] # keys[j]
    BY <1>1 DEF Lists
  <1>3. Until(map, keys, 0) = EmptyMap
    <2>1. {keys[j] : j \in 1 .. 0} = {}  OBVIOUS
    <2>2. [k \in {} |-> map[k]] = EmptyMap  BY DEF EmptyMap
    <2>3. QED  BY <2>1, <2>2, Zenon DEF Until
  <1>4. Until(map, keys, n) = map
    <2>1. {keys[j] : j \in 1 .. n} = DOMAIN map  BY <1>2
    <2>2. QED  BY <1>1, <2>1, Zenon DEF Until
  <1>5. ASSUME NEW i \in 1 .. n  PROVE keys[i] \notin DOMAIN Until(map, keys, i - 1)
    <2>1. DOMAIN Until(map, keys, i - 1) = {keys[j] : j \in 1 .. (i - 1)}  BY DEF Until
    <2>2. \A j \in 1 .. (i - 1) : j \in 1 .. n /\ j # i  BY <1>1
    <2>3. \A j \in 1 .. (i - 1) : keys[j] # keys[i]  BY <1>2, <2>2, Zenon
    <2>4. QED  BY <2>1, <2>3
  <1>6. QED  BY <1>3, <1>4, <1>5

\* The rest of a payload after its first field.
LEMMA TailDrop ==
    ASSUME NEW X, NEW f \in Seq(X), f # <<>>
    PROVE  Tail(f) = Drop(f, 1)
  <1> DEFINE t == Tail(f)
             d == Drop(f, 1)
             n == Len(f)
  <1>1. n \in Nat /\ n >= 1  OBVIOUS
  <1>2. t \in Seq(X) /\ Len(t) = n - 1 /\ \A k \in 1 .. (n - 1) : t[k] = f[k + 1]  OBVIOUS
  <1>3. d \in Seq(X) /\ Len(d) = n - 1 /\ \A k \in 1 .. (n - 1) : d[k] = f[1 + k]
    <2>1. 1 \in Nat /\ 1 <= Len(f)  BY <1>1
    <2>2. QED  BY <2>1, DropFacts, Zenon
  <1>4. \A k \in 1 .. (n - 1) : k + 1 = 1 + k  BY <1>1
  <1> HIDE DEF t, d, n
  <1>5. Len(t) = Len(d) /\ \A k \in 1 .. Len(d) : t[k] = d[k]  BY <1>2, <1>3, <1>4, Zenon
  <1>6. t = d  BY <1>2, <1>3, <1>5, SeqAlike, Zenon
  <1>7. QED  BY <1>6 DEF t, d

\* A map that starts in the b-th field of G is read whole, or not at all.
LEMMA MapRead ==
    ASSUME NEW kind, NEW map, NEW keys, NEW s, NEW n, Fields(kind, map, keys, s, n),
           n <= MapLimit[kind], NEW E, E = Cat(<<n>>, FlattenSeq(s)),
           NEW G \in Seq(Field), NEW b \in Nat, NEW m, From(G, b, E)
    PROVE  ReadMap(At(G, b, m), kind) = At(G, b + Len(E), map)
  <1> DEFINE F == FlattenSeq(s)
             L == Len(G)
             r == At(G, b, m)
             head == Head(r.rest)
             tail == Tail(r.rest)
             Fixed(g) == g = [i \in 0 .. head |-> IF i = 0 THEN Reader(tail, EmptyMap)
                                                  ELSE ReadRecord(g[i - 1], kind)]
             chosen == CHOOSE g : Fixed(g)
  <1>1. ReadMap(r, kind) = IF r.ok /\ r.rest # <<>> /\ head <= MapLimit[kind] THEN chosen[head] ELSE Overrun
    BY ZenonT(40) DEF ReadMap
  <1>2. n \in Nat /\ L \in Nat  BY DEF Fields
  <1>3. /\ s \in [1 .. n -> Seq(Field)] /\ F \in Seq(Field) /\ Len(F) \in Nat
        /\ E \in Seq(Field) /\ TwoParts(E, <<n>>, F, 1, Len(F))
    BY MapWritten, Zenon
  <1> HIDE DEF F
  <1>4. Len(E) = 1 + Len(F) /\ E[1] = n /\ \A k \in 1 .. Len(F) : E[1 + k] = F[k]
    <2>1. 1 \in 1 .. 1 /\ <<n>>[1] = n  OBVIOUS
    <2>2. QED  BY <1>3, <2>1, Zenon DEF TwoParts
  <1>5. CASE ~ (b <= L)
    <2>1. r = Overrun  BY <1>5, Zenon DEF At
    <2>2. ~ r.ok  BY <2>1, ReaderFacts, Zenon
    <2>3. ~ (b + Len(E) <= L)  BY <1>2, <1>3, <1>4, <1>5
    <2>4. At(G, b + Len(E), map) = Overrun  BY <2>3, Zenon DEF At
    <2>5. QED  BY <1>1, <2>2, <2>4, Zenon
  <1>6. CASE b = L
    <2> DEFINE f == Drop(G, b)
    <2>1. r = Reader(f, m)
      <3>1. b <= L  BY <1>2, <1>6
      <3>2. QED  BY <3>1, Zenon DEF At
    <2>2. f = <<>>
      <3>1. f \in Seq(Field) /\ Len(f) = L - b
        <4>1. b <= Len(G)  BY <1>2, <1>6
        <4>2. QED  BY <4>1, DropFacts, Zenon
      <3> HIDE DEF f, Field
      <3>2. QED  BY <1>2, <1>6, <3>1
    <2>3. r.rest = <<>>
      <3> DEFINE z == Reader(f, m)
      <3>1. z.rest = f  BY ReaderFacts
      <3> HIDE DEF z, r, f
      <3>2. QED  BY <2>1, <2>2, <3>1, Zenon DEF z
    <2>4. ~ (b + Len(E) <= L)  BY <1>2, <1>3, <1>4, <1>6
    <2>5. At(G, b + Len(E), map) = Overrun  BY <2>4, Zenon DEF At
    <2>6. QED  BY <1>1, <2>3, <2>5, Zenon
  <1>7. CASE b < L
    <2> DEFINE f == Drop(G, b)
    <2>1. /\ f \in Seq(Field) /\ Len(f) = L - b /\ \A k \in 1 .. (L - b) : f[k] = G[b + k]
          /\ b <= L /\ 1 \in 1 .. (L - b) /\ b + 1 <= L
      <3>1. b <= L /\ 1 \in 1 .. (L - b) /\ b + 1 <= L  BY <1>2, <1>7
      <3>2. QED  BY <3>1, DropFacts, Zenon
    <2>2. r.ok /\ r.rest = f
      <3>1. r = Reader(f, m)  BY <2>1, Zenon DEF At
      <3> DEFINE z == Reader(f, m)
      <3>2. z.ok /\ z.rest = f  BY ReaderFacts
      <3> HIDE DEF z, r, f
      <3>3. r = z  BY <3>1 DEF z
      <3>4. QED  BY <3>2, <3>3, Zenon
    <2>3. f # <<>> /\ Head(f) = f[1] /\ Tail(f) = Drop(f, 1)
      <3>1. f # <<>>
        <4> HIDE DEF f, Field
        <4>1. QED  BY <1>2, <1>7, <2>1
      <3>2. Head(f) = f[1]
        <4> HIDE DEF f, Field
        <4>1. QED  BY <2>1, <3>1
      <3>3. Tail(f) = Drop(f, 1)  BY <2>1, <3>1, TailDrop, Zenon
      <3>4. QED  BY <3>1, <3>2, <3>3
    <2>4. f[1] = n
      <3>1. G[b + 1] = E[1]
        <4>1. 1 \in 1 .. Len(E)  BY <1>3, <1>4
        <4>2. QED  BY <2>1, <4>1, Zenon DEF From
      <3>2. QED  BY <1>4, <2>1, <3>1, Zenon
    <2>5. Drop(f, 1) = Drop(G, b + 1)
      <3>1. 1 \in Nat  OBVIOUS
      <3>2. QED  BY <2>1, <3>1, DropDrop, Zenon
    <2>6. head = n /\ tail = Drop(G, b + 1) /\ r.rest # <<>>
      <3> HIDE DEF f, r
      <3>1. QED  BY <2>2, <2>3, <2>4, <2>5, Zenon
    <2> HIDE DEF f, r
    <2>7. PICK at \in [0 .. n -> Nat] : Layout(at, F, s, n)
      BY <1>2, <1>3, FlattenLayout, Zenon DEF F
    <2>7a. Until(map, keys, 0) = EmptyMap /\ Until(map, keys, n) = map  BY UntilEnds
    <2>7b. at[0] = 0 /\ at[n] = Len(F)  BY <2>7, Zenon DEF Layout
    <2> DEFINE g == [i \in 0 .. n |-> At(G, (b + 1) + at[i], Until(map, keys, i))]
    <2>8. \A i \in 0 .. n : g[i] = At(G, (b + 1) + at[i], Until(map, keys, i))  OBVIOUS
    <2>9. g = [i \in 0 .. n |-> g[i]]  OBVIOUS
    <2> HIDE DEF g
    <2>10. g[0] = Reader(tail, EmptyMap)
      <3>1. 0 \in 0 .. n /\ (b + 1) + 0 = b + 1  BY <1>2
      <3>2. g[0] = At(G, b + 1, EmptyMap)
        BY <2>8, <2>7a, <2>7b, <3>1, Zenon
      <3>3. QED  BY <2>1, <2>6, <3>2, Zenon DEF At
    <2>11. ASSUME NEW i \in 1 .. n  PROVE g[i] = ReadRecord(g[i - 1], kind)
      <3> DEFINE key == keys[i]
                 q == (b + 1) + at[i - 1]
                 u == Until(map, keys, i - 1)
                 e == encodeRecord(kind, key, map[key])
      <3>1. s[i] = e
        <4>1. s = [j \in 1 .. n |-> encodeRecord(kind, keys[j], map[keys[j]])]  BY Zenon DEF Fields
        <4>2. QED  BY <4>1
      <3>2. ReadsBack(kind, key, map[key])
        <4>1. key \in DOMAIN map  BY DEF Fields, Lists
        <4>2. QED  BY <4>1, Zenon DEF Fields
      <3>3. key \notin DOMAIN u  BY UntilEnds, Zenon
      <3>4. /\ at[i - 1] \in Nat /\ at[i] = at[i - 1] + Len(e) /\ at[i] <= Len(F)
            /\ \A k \in 1 .. Len(e) : F[at[i - 1] + k] = e[k]
        <4>1. /\ at[i - 1] \in Nat /\ at[i] = at[i - 1] + Len(s[i]) /\ at[i] <= at[n]
              /\ \A k \in 1 .. Len(s[i]) : F[at[i - 1] + k] = s[i][k]
              /\ at[n] = Len(F)
          BY <2>7, Zenon DEF Layout
        <4> HIDE DEF e
        <4>2. QED  BY <3>1, <4>1, Zenon
      <3>5. s[i] \in Seq(Field)  BY <1>3
      <3>6. Len(e) \in Nat
        <4> HIDE DEF e, Field
        <4>1. QED  BY <3>1, <3>5
      <3>7. q \in Nat /\ (b + 1) + at[i] = q + Len(e)
        <4> DEFINE l == Len(e)
                   a == at[i - 1]
                   c == at[i]
        <4>1. l \in Nat /\ a \in Nat /\ c = a + l  BY <3>4, <3>6
        <4> HIDE DEF l, a, c
        <4>2. (b + 1) + a \in Nat /\ (b + 1) + c = ((b + 1) + a) + l  BY <4>1
        <4>3. QED  BY <4>2 DEF l, a, c
      <3>8. From(G, q, e)
        <4> DEFINE l == Len(e)
                   a == at[i - 1]
                   c == at[i]
                   w == Len(F)
        <4>1. l \in Nat /\ a \in Nat /\ c = a + l /\ c <= w /\ w \in Nat  BY <1>3, <3>4, <3>6
        <4>2. Len(E) = 1 + w  BY <1>4
        <4> HIDE DEF l, a, c, w
        <4>3. \A k \in 1 .. l : /\ 1 + (a + k) \in 1 .. (1 + w) /\ a + k \in 1 .. w
                                /\ ((b + 1) + a) + k = b + (1 + (a + k))
          BY <4>1
        <4>4. ASSUME NEW k \in 1 .. l, ((b + 1) + a) + k <= L  PROVE G[((b + 1) + a) + k] = e[k]
          <5>1. b + (1 + (a + k)) <= L  BY <4>3, <4>4
          <5>2. G[b + (1 + (a + k))] = E[1 + (a + k)]  BY <4>2, <4>3, <5>1, Zenon DEF From
          <5>3. E[1 + (a + k)] = F[a + k]  BY <1>4, <4>3, Zenon DEF w
          <5>4. F[a + k] = e[k]  BY <3>4, Zenon DEF a, l
          <5>5. QED  BY <4>3, <5>2, <5>3, <5>4
        <4>5. QED  BY <4>4, Zenon DEF From, l, a
      <3> DEFINE rec == map[key]
      <3> HIDE DEF q, u, key
      <3>9. ReadRecord(At(G, q, u), kind) = At(G, q + Len(e), WithKey(u, key, map[key]))
        <4>1. e = encodeRecord(kind, key, rec) /\ ReadsBack(kind, key, rec)  BY <3>2
        <4> HIDE DEF e, rec
        <4>2. ReadRecord(At(G, q, u), kind) = At(G, q + Len(e), WithKey(u, key, rec))
          BY <3>3, <3>7, <3>8, <4>1, RecordRead, SMTT(40)
        <4>3. QED  BY <4>2 DEF rec
      <3> HIDE DEF e
      <3>10. i - 1 \in 0 .. n /\ i \in 0 .. n  BY <1>2
      <3>11. g[i - 1] = At(G, q, u)  BY <2>8, <3>10, Zenon DEF q, u
      <3>12. g[i] = At(G, (b + 1) + at[i], Until(map, keys, i))  BY <2>8, <3>10, Zenon
      <3>13. Until(map, keys, i) = WithKey(u, key, map[key])  BY <1>2, UntilStep, Zenon DEF u, key
      <3>14. QED  BY <3>7, <3>9, <3>11, <3>12, <3>13, Zenon
    <2>12. Fixed(g)
      <3>1. \A i \in 0 .. n : g[i] = IF i = 0 THEN Reader(tail, EmptyMap) ELSE ReadRecord(g[i - 1], kind)
        <4>1. \A i \in 0 .. n : i = 0 \/ (i # 0 /\ i \in 1 .. n)  BY <1>2
        <4> HIDE DEF tail
        <4>2. QED  BY <2>10, <2>11, <4>1, Zenon
      <3> HIDE DEF head, tail
      <3>2. g = [i \in 0 .. n |-> IF i = 0 THEN Reader(tail, EmptyMap) ELSE ReadRecord(g[i - 1], kind)]
        BY <2>9, <3>1, Zenon
      <3>3. QED  BY <2>6, <3>2, Zenon
    <2>13. Fixed(chosen)
      <3> HIDE DEF Fixed
      <3>1. QED  BY <2>12
    <2>14. \A i \in 0 .. n : chosen[i] = IF i = 0 THEN Reader(tail, EmptyMap)
                                          ELSE ReadRecord(chosen[i - 1], kind)
      <3> HIDE DEF head, tail, chosen
      <3>1. chosen = [i \in 0 .. n |-> IF i = 0 THEN Reader(tail, EmptyMap)
                                        ELSE ReadRecord(chosen[i - 1], kind)]
        BY <2>6, <2>13, Zenon
      <3>2. QED  BY <3>1, Zenon
    <2> HIDE DEF chosen, head, tail, Fixed
    <2> DEFINE S == {i \in Nat : i <= n => chosen[i] = g[i]}
    <2>15. 0 \in S
      <3>1. 0 \in 0 .. n  BY <1>2
      <3>2. chosen[0] = g[0]  BY <2>10, <2>14, <3>1, Zenon
      <3>3. QED  BY <3>2
    <2>16. ASSUME NEW i \in Nat, i \in S  PROVE i + 1 \in S
      <3>1. ASSUME i + 1 <= n  PROVE chosen[i + 1] = g[i + 1]
        <4>1. i <= n /\ i + 1 \in 0 .. n /\ i + 1 # 0 /\ (i + 1) - 1 = i /\ i + 1 \in 1 .. n
          BY <1>2, <3>1
        <4>2. chosen[i] = g[i]  BY <2>16, <4>1
        <4>3. chosen[i + 1] = ReadRecord(chosen[i], kind)  BY <2>14, <4>1, Zenon
        <4>4. g[i + 1] = ReadRecord(g[i], kind)
          <5> DEFINE j == i + 1
          <5>1. j \in 1 .. n /\ j - 1 = i  BY <4>1
          <5> HIDE DEF j
          <5>2. g[j] = ReadRecord(g[j - 1], kind)  BY <2>11, <5>1
          <5>3. QED  BY <5>1, <5>2 DEF j
        <4>5. QED  BY <4>2, <4>3, <4>4, Zenon
      <3>2. QED  BY <3>1
    <2>17. chosen[n] = g[n]
      <3> HIDE DEF S
      <3>1. Nat \subseteq S  BY <2>15, <2>16, SetInduction
      <3>2. n \in S  BY <1>2, <3>1
      <3>3. QED  BY <1>2, <3>2 DEF S
    <2>18. g[n] = At(G, b + Len(E), map)
      <3>1. n \in 0 .. n  BY <1>2
      <3>2. g[n] = At(G, (b + 1) + Len(F), map)
        BY <2>8, <2>7a, <2>7b, <3>1, Zenon
      <3>3. (b + 1) + Len(F) = b + Len(E)
        <4> DEFINE l == Len(F)
                   w == Len(E)
        <4>1. l \in Nat /\ w = 1 + l  BY <1>3, <1>4
        <4> HIDE DEF l, w
        <4>2. (b + 1) + l = b + w  BY <4>1
        <4>3. QED  BY <4>2 DEF l, w
      <3>4. QED  BY <3>2, <3>3, Zenon
    <2>19. ReadMap(r, kind) = chosen[n]
      <3>1. n <= MapLimit[kind]  OBVIOUS
      <3>2. QED  BY <1>1, <2>2, <2>6, <3>1, Zenon
    <2>20. QED  BY <2>17, <2>18, <2>19, Zenon DEF r
  <1>8. QED  BY <1>2, <1>5, <1>6, <1>7

\* The keys of a map in order.
KeyList(kind, S) ==
    [i \in 1 .. Cardinality(S) |->
        CHOOSE x \in S : Cardinality({y \in S : KeyBefore(kind, y, x)}) = i - 1]

\* They list its domain.
LEMMA KeyListListed ==
    ASSUME NEW kind, NEW S \in SUBSET KeyOf(kind), IsFiniteSet(S), NEW e, e = KeyList(kind, S)
    PROVE  Lists(e, S) /\ Len(e) = Cardinality(S)
  <1>1. ASSUME NEW i \in 1 .. Cardinality(S), NEW x \in S,
               Cardinality({y \in S : KeyBefore(kind, y, x)}) = i - 1
        PROVE  e[i] \in S /\ Cardinality({y \in S : KeyBefore(kind, y, e[i])}) = i - 1
    <2>1. e[i] = CHOOSE z \in S : Cardinality({y \in S : KeyBefore(kind, y, z)}) = i - 1
      BY DEF KeyList
    <2>2. QED  BY <1>1, <2>1
  <1>2. Listing(e, Cardinality(S))
    <2>1. e = [i \in 1 .. Cardinality(S) |->
                  CHOOSE x \in S : Cardinality({y \in S : KeyBefore(kind, y, x)}) = i - 1]
      BY Zenon DEF KeyList
    <2>2. QED  BY <2>1 DEF Listing
  <1>3. Sorted(kind, S, e)  BY <1>1, <1>2, Zenon DEF Sorted
  <1>4. QED  BY <1>3, KeysListed, Zenon

\* What FabricAssumption and TransferAssumption say of a map.
LEMMA TransferFacts ==
    ASSUME NEW t \in Transfers, NEW kind \in DOMAIN MapLimit
    PROVE  /\ DOMAIN t[kind] \in SUBSET KeyOf(kind) /\ IsFiniteSet(DOMAIN t[kind])
           /\ t[kind] = [k \in DOMAIN t[kind] |-> t[kind][k]]
           /\ \A k \in DOMAIN t[kind] : ReadsBack(kind, k, t[kind][k])
  <1>1. /\ IsTopology(t) /\ CheckIntegrity(t) /\ IsFiniteSet(DOMAIN t.partitions)
    BY FabricAssumption
  <1>2. /\ IsMap(t.devices, DeviceIds, DeviceRecord) /\ IsMap(t.switches, SwitchIds, SwitchRecord)
        /\ IsMap(t.ports, PortIds, PortRecord) /\ IsMap(t.links, LinkIds, LinkRecord)
        /\ IsMap(t.partitions, PartitionIds, PartitionRecord)
    BY <1>1, Zenon DEF IsTopology
  <1>3. kind \in {"devices", "switches", "ports", "links", "partitions"}  BY DEF MapLimit
  <1>4. CASE kind = "devices"
    <2>1. t[kind] \in [DOMAIN t.devices -> DeviceRecord] /\ t[kind] = t.devices
          /\ DOMAIN t.devices \subseteq DeviceIds
      BY <1>2, <1>4 DEF IsMap
    <2>2. DOMAIN t[kind] \subseteq Nat /\ IsFiniteSet(DOMAIN t[kind])
      BY <2>1, IdAssumption, IdWidthAssumption, FS_Subset
    <2>3. \A k \in DOMAIN t[kind] : ReadsBack(kind, k, t[kind][k])
      BY <1>4, <2>1, <2>2, DeviceReadsBack
    <2>4. KeyOf(kind) = Nat  BY <1>4 DEF KeyOf
    <2>5. QED  BY <2>1, <2>2, <2>3, <2>4
  <1>5. CASE kind = "switches"
    <2>1. t[kind] \in [DOMAIN t.switches -> SwitchRecord] /\ t[kind] = t.switches
          /\ DOMAIN t.switches \subseteq SwitchIds
      BY <1>2, <1>5 DEF IsMap
    <2>2. DOMAIN t[kind] \subseteq Nat /\ IsFiniteSet(DOMAIN t[kind])
      BY <2>1, IdAssumption, IdWidthAssumption, FS_Subset
    <2>3. \A k \in DOMAIN t[kind] : ReadsBack(kind, k, t[kind][k])
      BY <1>5, <2>1, <2>2, SwitchReadsBack
    <2>4. KeyOf(kind) = Nat  BY <1>5 DEF KeyOf
    <2>5. QED  BY <2>1, <2>2, <2>3, <2>4
  <1>6. CASE kind = "ports"
    <2>1. t[kind] \in [DOMAIN t.ports -> PortRecord] /\ t[kind] = t.ports
          /\ DOMAIN t.ports \subseteq SwitchIds \X PortIndexes
      BY <1>2, <1>6 DEF IsMap, PortIds
    <2>2. DOMAIN t[kind] \subseteq Nat \X Nat /\ IsFiniteSet(DOMAIN t[kind])
      <3>1. IsFiniteSet(SwitchIds \X PortIndexes)  BY IdWidthAssumption, FS_Product
      <3>2. IsFiniteSet(DOMAIN t[kind])  BY <2>1, <3>1, FS_Subset
      <3>3. SwitchIds \X PortIndexes \subseteq Nat \X Nat  BY IdAssumption
      <3>4. DOMAIN t[kind] \subseteq SwitchIds \X PortIndexes  BY <2>1
      <3>5. QED  BY <3>2, <3>3, <3>4, Zenon
    <2>3. \A k \in DOMAIN t[kind] : ReadsBack(kind, k, t[kind][k])
      BY <1>6, <2>1, <2>2, PortReadsBack
    <2>4. KeyOf(kind) = Nat \X Nat  BY <1>6 DEF KeyOf
    <2>5. QED  BY <2>1, <2>2, <2>3, <2>4
  <1>7. CASE kind = "links"
    <2>1. t[kind] \in [DOMAIN t.links -> LinkRecord] /\ t[kind] = t.links
          /\ DOMAIN t.links \subseteq LinkIds
      BY <1>2, <1>7 DEF IsMap
    <2>2. DOMAIN t[kind] \subseteq Nat /\ IsFiniteSet(DOMAIN t[kind])
      BY <2>1, IdAssumption, IdWidthAssumption, FS_Subset
    <2>3. \A k \in DOMAIN t[kind] : ReadsBack(kind, k, t[kind][k])
      BY <1>7, <2>1, <2>2, LinkReadsBack
    <2>4. KeyOf(kind) = Nat  BY <1>7 DEF KeyOf
    <2>5. QED  BY <2>1, <2>2, <2>3, <2>4
  <1>8. CASE kind = "partitions"
    <2>1. t[kind] \in [DOMAIN t.partitions -> PartitionRecord] /\ t[kind] = t.partitions
          /\ DOMAIN t.partitions \subseteq PartitionIds
      BY <1>2, <1>8 DEF IsMap
    <2>2. DOMAIN t[kind] \subseteq Nat /\ IsFiniteSet(DOMAIN t[kind])
      BY <1>1, <2>1, IdAssumption
    <2>3. ASSUME NEW k \in DOMAIN t[kind]  PROVE ReadsBack(kind, k, t[kind][k])
      <3> DEFINE r == t.partitions[k]
      <3>1. r \in PartitionRecord /\ k \in Nat  BY <2>1, <2>2
      <3>2. r.members \subseteq DOMAIN t.devices /\ r.switches \subseteq DOMAIN t.switches
        BY <1>1, <2>1 DEF CheckIntegrity, PartitionIntegrity
      <3>3. IsFiniteSet(DOMAIN t.devices) /\ IsFiniteSet(DOMAIN t.switches)
        BY <1>2, IdWidthAssumption, FS_Subset DEF IsMap
      <3>4. /\ "devices" \in DOMAIN MapLimit /\ MapLimit["devices"] = kMaxDevices
            /\ "switches" \in DOMAIN MapLimit /\ MapLimit["switches"] = kMaxSwitches
        BY DEF MapLimit
      <3>5. /\ Cardinality(DOMAIN t["devices"]) <= kMaxDevices
            /\ Cardinality(DOMAIN t["switches"]) <= kMaxSwitches
            /\ kMaxDevices \in Nat /\ kMaxSwitches \in Nat
        BY <3>4, TransferAssumption
      <3>6. /\ Cardinality(r.members) <= Cardinality(DOMAIN t.devices)
            /\ Cardinality(r.switches) <= Cardinality(DOMAIN t.switches)
            /\ Cardinality(DOMAIN t.devices) \in Nat /\ Cardinality(DOMAIN t.switches) \in Nat
            /\ Cardinality(r.members) \in Nat /\ Cardinality(r.switches) \in Nat
        BY <3>2, <3>3, FS_Subset, FS_CardinalityType
      <3>7. Cardinality(r.members) <= kMaxDevices /\ Cardinality(r.switches) <= kMaxSwitches
        BY <3>5, <3>6
      <3> HIDE DEF r
      <3>8. ReadsBack("partitions", k, r)  BY <3>1, <3>7, PartitionReadsBack
      <3>9. QED  BY <1>8, <3>8 DEF r
    <2>4. KeyOf(kind) = Nat  BY <1>8 DEF KeyOf
    <2>5. QED  BY <2>1, <2>2, <2>3, <2>4
  <1>9. QED  BY <1>3, <1>4, <1>5, <1>6, <1>7, <1>8

\* EncodeMap(t, kind), and what ReadMap makes of it.
MapTransferred(t, kind) ==
    LET E == EncodeMap(t, kind)
    IN  /\ E \in Seq(Field)
        /\ \A G \in Seq(Field) : \A b \in Nat : \A m : From(G, b, E) =>
              ReadMap(At(G, b, m), kind) = At(G, b + Len(E), t[kind])

\* Every map of a snapshot is read back.
LEMMA MapsTransferred ==
    ASSUME NEW t \in Transfers, NEW kind \in DOMAIN MapLimit
    PROVE  MapTransferred(t, kind)
  <1> DEFINE map == t[kind]
             S == DOMAIN map
             keys == KeyList(kind, S)
             n == Len(keys)
             s == [i \in 1 .. n |-> encodeRecord(kind, keys[i], map[keys[i]])]
             E == EncodeMap(t, kind)
  <1>1. Lists(keys, S) /\ n = Cardinality(S)  BY TransferFacts, KeyListListed
  <1>2. n \in Nat /\ n <= MapLimit[kind] /\ DOMAIN keys = 1 .. n
    <2> HIDE DEF keys
    <2>1. keys \in Seq(S)  BY <1>1 DEF Lists
    <2>2. QED  BY <1>1, <2>1, TransferAssumption
  <1>3. E = Cat(<<n>>, FlattenSeq(s))
    <2>1. E = <<Len(keys)>> \o FlattenSeq([i \in DOMAIN keys |-> encodeRecord(kind, keys[i], map[keys[i]])])
      BY Zenon DEF EncodeMap, Ordered, KeyList, KeyBefore
    <2> HIDE DEF keys, E
    <2>2. QED  BY <1>2, <2>1, Zenon DEF Cat
  <1>4. Fields(kind, map, keys, s, n)
    <2>1. map = [k \in DOMAIN map |-> map[k]] /\ \A k \in DOMAIN map : ReadsBack(kind, k, map[k])
      BY TransferFacts, Zenon
    <2> HIDE DEF keys, map
    <2>2. QED  BY <1>1, <1>2, <2>1, Zenon DEF Fields
  <1> HIDE DEF map, keys, n, s, E
  <1>5. E \in Seq(Field)
    <2> DEFINE F == FlattenSeq(s)
    <2>1. E = Cat(<<n>>, F)  BY <1>3
    <2> HIDE DEF F
    <2>2. QED  BY <1>3, <1>4, MapWritten
  <1>6. ASSUME NEW G \in Seq(Field), NEW b \in Nat, NEW m, From(G, b, E)
        PROVE  ReadMap(At(G, b, m), kind) = At(G, b + Len(E), map)
    <2>1. n <= MapLimit[kind] /\ E = Cat(<<n>>, FlattenSeq(s)) /\ Fields(kind, map, keys, s, n)
      BY <1>2, <1>3, <1>4
    <2>2. QED  BY <1>6, <2>1, MapRead
  <1>7. QED  BY <1>5, <1>6, Zenon DEF MapTransferred, E, map

\* e is in p, after the first b elements.
Holds(p, b, e) ==
    /\ b \in Nat /\ Len(e) \in Nat /\ Len(p) \in Nat /\ b + Len(e) <= Len(p)
    /\ \A k \in 1 .. Len(e) : p[b + k] = e[k]

\* What is appended later moves nothing.
LEMMA StillInside ==
    ASSUME NEW X, NEW p \in Seq(X), NEW e, NEW b, Holds(p, b, e), NEW q \in Seq(X),
           NEW r, r = Cat(p, q)
    PROVE  Holds(r, b, e)
  <1> DEFINE l == Len(p)
             m == Len(q)
             w == Len(e)
  <1>1. l \in Nat /\ m \in Nat  OBVIOUS
  <1>2. TwoParts(r, p, q, l, m)  BY <1>1, TwoJoined
  <1>3. b \in Nat /\ w \in Nat /\ b + w <= l /\ \A k \in 1 .. w : p[b + k] = e[k]
    BY Zenon DEF Holds
  <1>4. Len(r) = l + m /\ \A k \in 1 .. l : r[k] = p[k]  BY <1>2, Zenon DEF TwoParts
  <1> HIDE DEF l, m
  <1>5. Len(r) \in Nat /\ b + w <= Len(r)
    <2> HIDE DEF w
    <2>1. l + m \in Nat /\ b + w <= l + m  BY <1>1, <1>3
    <2>2. QED  BY <1>4, <2>1
  <1>6. \A k \in 1 .. w : b + k \in 1 .. l
    <2> HIDE DEF w
    <2>1. QED  BY <1>1, <1>3
  <1>7. \A k \in 1 .. w : r[b + k] = e[k]  BY <1>3, <1>4, <1>6, Zenon
  <1>8. QED  BY <1>3, <1>5, <1>7, Zenon DEF Holds

\* r is p and then q.
Joined(r, p, q) ==
    r \in Seq(Field) /\ Len(r) = Len(p) + Len(q) /\ Len(r) \in Nat /\ Holds(r, Len(p), q)

\* Appending q to p puts q after p.
LEMMA AtItsEnd ==
    ASSUME NEW p \in Seq(Field), NEW q \in Seq(Field), NEW r, r = Cat(p, q)
    PROVE  Joined(r, p, q)
  <1> DEFINE l == Len(p)
             m == Len(q)
  <1>1. l \in Nat /\ m \in Nat  OBVIOUS
  <1>2. r \in Seq(Field) /\ TwoParts(r, p, q, l, m)  BY <1>1, TwoJoined
  <1>3. Len(r) = l + m /\ \A k \in 1 .. m : r[l + k] = q[k]  BY <1>2, Zenon DEF TwoParts
  <1>4. l + m \in Nat /\ l + m <= l + m
    <2> HIDE DEF l, m
    <2>1. QED  BY <1>1
  <1>5. Holds(r, l, q)
    <2>1. Len(r) \in Nat /\ l + m <= Len(r)
      <3> HIDE DEF l, m
      <3>1. QED  BY <1>3, <1>4
    <2>2. QED  BY <1>1, <1>3, <2>1, Zenon DEF Holds
  <1>6. Len(r) \in Nat  BY <1>3, <1>4
  <1>7. QED  BY <1>2, <1>3, <1>5, <1>6, Zenon DEF Joined

\* G is p, or is cut short, or goes on after it.
Starts(G, p) == \A k \in 1 .. Len(p) : k <= Len(G) => G[k] = p[k]

\* So what p holds, G has as far as it goes.
LEMMA StillFrom ==
    ASSUME NEW p, NEW G \in Seq(Field), Starts(G, p),
           NEW b, NEW e, Holds(p, b, e)
    PROVE  From(G, b, e)
  <1> DEFINE w == Len(e)
             l == Len(p)
  <1>1. b \in Nat /\ w \in Nat /\ l \in Nat /\ b + w <= l /\ \A k \in 1 .. w : p[b + k] = e[k]
    BY Zenon DEF Holds
  <1>2. \A k \in 1 .. w : b + k \in 1 .. l
    <2> HIDE DEF l, w
    <2>1. QED  BY <1>1
  <1>3. QED  BY <1>1, <1>2, Zenon DEF From, Starts

\* The same of a reader with a name.
LEMMA ReaderParts ==
    ASSUME NEW f, NEW m, NEW x, x = Reader(f, m)
    PROVE  x.ok /\ x.rest = f /\ x.map = m
  BY DEF Reader

\* A map is read where the one before it ends.
LEMMA NextMap ==
    ASSUME NEW t \in Transfers, NEW kind \in DOMAIN MapLimit, NEW E, E = EncodeMap(t, kind),
           NEW p, NEW G \in Seq(Field), Starts(G, p),
           NEW b, Holds(p, b, E), NEW m, NEW x, x = At(G, b, m)
    PROVE  ReadMap(x, kind) = At(G, b + Len(E), t[kind])
  <1>1. From(G, b, E)  BY StillFrom, Zenon
  <1>2. b \in Nat  BY DEF Holds
  <1>3. QED  BY <1>1, <1>2, MapsTransferred, Zenon DEF MapTransferred

\* decodeTopologyPayload reads a payload that is whole and refuses any other start of it.
LEMMA PayloadReads ==
    ASSUME NEW t \in Transfers, NEW P, P = encodeTopologyPayload(t),
           NEW G \in Seq(Field), Starts(G, P)
    PROVE  /\ P \in Seq(Field)
           /\ decodeTopologyPayload(G) = IF Len(G) = Len(P) THEN t ELSE IntegrityFailure
  <1> DEFINE h == <<t.id, t.topologyGen, t.epoch, t.provenance>>
             D == EncodeMap(t, "devices")
             S == EncodeMap(t, "switches")
             O == EncodeMap(t, "ports")
             L == EncodeMap(t, "links")
             Q == EncodeMap(t, "partitions")
             p1 == Cat(h, D)
             p2 == Cat(p1, S)
             p3 == Cat(p2, O)
             p4 == Cat(p3, L)
             p5 == Cat(p4, Q)
  <1>1. P = p5  BY Zenon DEF encodeTopologyPayload, Cat
  <1>2. /\ "devices" \in DOMAIN MapLimit /\ "switches" \in DOMAIN MapLimit
        /\ "ports" \in DOMAIN MapLimit /\ "links" \in DOMAIN MapLimit
        /\ "partitions" \in DOMAIN MapLimit
    BY DEF MapLimit
  <1>3. /\ D \in Seq(Field) /\ S \in Seq(Field) /\ O \in Seq(Field)
        /\ L \in Seq(Field) /\ Q \in Seq(Field)
    BY <1>2, MapsTransferred, Zenon DEF MapTransferred
  <1>4. IsTopology(t) /\ CheckIntegrity(t)  BY FabricAssumption
  <1>5. t = [id |-> t.id, topologyGen |-> t.topologyGen, epoch |-> t.epoch, provenance |-> t.provenance,
             devices |-> t.devices, switches |-> t.switches, ports |-> t.ports, links |-> t.links,
             partitions |-> t.partitions]
        /\ t.id \in Nat /\ t.topologyGen \in Gens /\ t.epoch \in Nat /\ t.provenance \in Provenance
    BY <1>4 DEF IsTopology
  <1>6. t.id \in Field /\ t.topologyGen \in Field /\ t.epoch \in Field /\ t.provenance \in Field
    <2>1. t.topologyGen \in Nat  BY <1>5, WidthAssumption DEF Gens
    <2>2. QED  BY <1>5, <2>1 DEF Field
  <1> HIDE DEF Field
  <1>7. /\ h \in Seq(Field) /\ Len(h) = 4 /\ h[1] = t.id /\ h[2] = t.topologyGen
        /\ h[3] = t.epoch /\ h[4] = t.provenance
    BY <1>6, FourFields, Zenon
  <1> HIDE DEF h, D, S, O, L, Q
  <1>8. p1 \in Seq(Field) /\ Len(p1) = Len(h) + Len(D) /\ Holds(p1, Len(h), D)
    <2>1. Joined(p1, h, D)  BY <1>3, <1>7, AtItsEnd
    <2>2. QED  BY <2>1, Zenon DEF Joined
  <1>9. Holds(p1, 0, h)
    <2>1. Holds(h, 0, h)
      <3>1. 0 \in Nat /\ Len(h) \in Nat /\ 0 + Len(h) <= Len(h)  BY <1>7
      <3>2. \A k \in 1 .. Len(h) : 0 + k = k  OBVIOUS
      <3>3. QED  BY <3>1, <3>2, Zenon DEF Holds
    <2>2. QED  BY <1>3, <1>7, <2>1, StillInside, Zenon
  <1> HIDE DEF p1
  <1>10. p2 \in Seq(Field) /\ Len(p2) = Len(p1) + Len(S) /\ Holds(p2, Len(p1), S)
    <2>1. Joined(p2, p1, S)  BY <1>3, <1>8, AtItsEnd
    <2>2. QED  BY <2>1, Zenon DEF Joined
  <1>11. Holds(p2, 0, h) /\ Holds(p2, Len(h), D)
    BY <1>3, <1>8, <1>9, StillInside, Zenon
  <1> HIDE DEF p2
  <1>12. p3 \in Seq(Field) /\ Len(p3) = Len(p2) + Len(O) /\ Holds(p3, Len(p2), O)
    <2>1. Joined(p3, p2, O)  BY <1>3, <1>10, AtItsEnd
    <2>2. QED  BY <2>1, Zenon DEF Joined
  <1>13. Holds(p3, 0, h) /\ Holds(p3, Len(h), D) /\ Holds(p3, Len(p1), S)
    BY <1>3, <1>10, <1>11, StillInside, Zenon
  <1> HIDE DEF p3
  <1>14. p4 \in Seq(Field) /\ Len(p4) = Len(p3) + Len(L) /\ Holds(p4, Len(p3), L)
    <2>1. Joined(p4, p3, L)  BY <1>3, <1>12, AtItsEnd
    <2>2. QED  BY <2>1, Zenon DEF Joined
  <1>15. /\ Holds(p4, 0, h) /\ Holds(p4, Len(h), D) /\ Holds(p4, Len(p1), S)
         /\ Holds(p4, Len(p2), O)
    BY <1>3, <1>12, <1>13, StillInside, Zenon
  <1> HIDE DEF p4
  <1>16. P \in Seq(Field) /\ Len(P) \in Nat /\ Len(P) = Len(p4) + Len(Q) /\ Holds(P, Len(p4), Q)
    <2>1. Joined(P, p4, Q)  BY <1>1, <1>3, <1>14, AtItsEnd
    <2>2. QED  BY <2>1, Zenon DEF Joined
  <1>17. /\ Holds(P, 0, h) /\ Holds(P, Len(h), D) /\ Holds(P, Len(p1), S)
         /\ Holds(P, Len(p2), O) /\ Holds(P, Len(p3), L)
    BY <1>1, <1>3, <1>14, <1>15, StillInside, Zenon
  <1> HIDE DEF p5
  <1> DEFINE start == IF Len(G) < 4 THEN Overrun ELSE Reader(Drop(G, 4), EmptyMap)
             d == ReadMap(start, "devices")
             s == ReadMap(d, "switches")
             o == ReadMap(s, "ports")
             l == ReadMap(o, "links")
             q == ReadMap(l, "partitions")
             u == [id |-> G[1], topologyGen |-> G[2], epoch |-> G[3], provenance |-> G[4],
                   devices |-> d.map, switches |-> s.map, ports |-> o.map, links |-> l.map,
                   partitions |-> q.map]
  <1>18. decodeTopologyPayload(G) = IF q.ok /\ q.rest = <<>> /\ CheckIntegrity(u) THEN u ELSE IntegrityFailure
    BY Zenon DEF decodeTopologyPayload
  <1>19. start = At(G, Len(h), EmptyMap)
    <2>1. Len(G) < 4 <=> ~ (4 <= Len(G))  OBVIOUS
    <2>2. QED  BY <1>7, <2>1, Zenon DEF At
  <1> HIDE DEF start
  <1>20. d = At(G, Len(p1), t["devices"])
    <2>1. D = EncodeMap(t, "devices")  BY DEF D
    <2>2. d = At(G, Len(h) + Len(D), t["devices"])  BY <1>2, <1>8, <1>17, <1>19, <2>1, NextMap
    <2>3. QED  BY <1>8, <2>2, Zenon
  <1> HIDE DEF d
  <1>21. s = At(G, Len(p2), t["switches"])
    <2>1. S = EncodeMap(t, "switches")  BY DEF S
    <2>2. s = At(G, Len(p1) + Len(S), t["switches"])  BY <1>2, <1>10, <1>17, <1>20, <2>1, NextMap
    <2>3. QED  BY <1>10, <2>2, Zenon
  <1> HIDE DEF s
  <1>22. o = At(G, Len(p3), t["ports"])
    <2>1. O = EncodeMap(t, "ports")  BY DEF O
    <2>2. o = At(G, Len(p2) + Len(O), t["ports"])  BY <1>2, <1>12, <1>17, <1>21, <2>1, NextMap
    <2>3. QED  BY <1>12, <2>2, Zenon
  <1> HIDE DEF o
  <1>23. l = At(G, Len(p4), t["links"])
    <2>1. L = EncodeMap(t, "links")  BY DEF L
    <2>2. l = At(G, Len(p3) + Len(L), t["links"])  BY <1>2, <1>14, <1>17, <1>22, <2>1, NextMap
    <2>3. QED  BY <1>14, <2>2, Zenon
  <1> HIDE DEF l
  <1>24. q = At(G, Len(P), t["partitions"])
    <2>1. Q = EncodeMap(t, "partitions")  BY DEF Q
    <2>2. q = At(G, Len(p4) + Len(Q), t["partitions"])  BY <1>2, <1>16, <1>17, <1>23, <2>1, NextMap
    <2>3. QED  BY <1>16, <2>2, Zenon
  <1> HIDE DEF q
  <1>25. Len(G) \in Nat  OBVIOUS
  <1>26. CASE Len(G) = Len(P)
    <2>1. /\ Len(h) <= Len(p1) /\ Len(p1) <= Len(p2) /\ Len(p2) <= Len(p3)
          /\ Len(p3) <= Len(p4) /\ Len(p4) <= Len(P) /\ 4 <= Len(P)
      <3>1. /\ Len(h) = 4 /\ Len(D) \in Nat /\ Len(S) \in Nat /\ Len(O) \in Nat
            /\ Len(L) \in Nat /\ Len(Q) \in Nat
            /\ Len(p1) \in Nat /\ Len(p2) \in Nat /\ Len(p3) \in Nat /\ Len(p4) \in Nat
        BY <1>3, <1>7, <1>8, <1>10, <1>12, <1>14, SMTT(40)
      <3> DEFINE a1 == Len(D)
                 a2 == Len(S)
                 a3 == Len(O)
                 a4 == Len(L)
                 a5 == Len(Q)
                 b0 == Len(h)
                 b1 == Len(p1)
                 b2 == Len(p2)
                 b3 == Len(p3)
                 b4 == Len(p4)
                 b5 == Len(P)
      <3>2. /\ b0 = 4 /\ a1 \in Nat /\ a2 \in Nat /\ a3 \in Nat /\ a4 \in Nat /\ a5 \in Nat
            /\ b1 \in Nat /\ b2 \in Nat /\ b3 \in Nat /\ b4 \in Nat /\ b5 \in Nat
            /\ b1 = b0 + a1 /\ b2 = b1 + a2 /\ b3 = b2 + a3 /\ b4 = b3 + a4 /\ b5 = b4 + a5
        BY <1>8, <1>10, <1>12, <1>14, <1>16, <3>1, Zenon
      <3> HIDE DEF a1, a2, a3, a4, a5, b0, b1, b2, b3, b4, b5
      <3>3. b0 <= b1 /\ b1 <= b2 /\ b2 <= b3 /\ b3 <= b4 /\ b4 <= b5 /\ 4 <= b5  BY <3>2
      <3>4. QED  BY <3>3 DEF b0, b1, b2, b3, b4, b5
    <2>2. /\ Len(p1) <= Len(G) /\ Len(p2) <= Len(G) /\ Len(p3) <= Len(G) /\ Len(p4) <= Len(G)
          /\ Len(P) <= Len(G) /\ 4 <= Len(P)
      <3>1. Len(p1) \in Nat /\ Len(p2) \in Nat /\ Len(p3) \in Nat /\ Len(p4) \in Nat
        BY <1>8, <1>10, <1>12, <1>14
      <3> DEFINE b1 == Len(p1)
                 b2 == Len(p2)
                 b3 == Len(p3)
                 b4 == Len(p4)
                 b5 == Len(P)
      <3>2. /\ b1 \in Nat /\ b2 \in Nat /\ b3 \in Nat /\ b4 \in Nat /\ b5 \in Nat /\ 4 <= b5
            /\ b1 <= b2 /\ b2 <= b3 /\ b3 <= b4 /\ b4 <= b5 /\ Len(G) = b5
        BY <1>16, <1>26, <2>1, <3>1, Zenon
      <3> HIDE DEF b1, b2, b3, b4, b5
      <3>3. b1 <= b5 /\ b2 <= b5 /\ b3 <= b5 /\ b4 <= b5 /\ b5 <= b5 /\ 4 <= b5  BY <3>2
      <3>4. QED  BY <3>2, <3>3, Zenon DEF b1, b2, b3, b4, b5
    <2>3. /\ d = Reader(Drop(G, Len(p1)), t.devices) /\ s = Reader(Drop(G, Len(p2)), t.switches)
          /\ o = Reader(Drop(G, Len(p3)), t.ports) /\ l = Reader(Drop(G, Len(p4)), t.links)
          /\ q = Reader(Drop(G, Len(P)), t.partitions)
      BY <1>20, <1>21, <1>22, <1>23, <1>24, <2>2, Zenon DEF At
    <2>4. d.map = t.devices /\ s.map = t.switches /\ o.map = t.ports /\ l.map = t.links
      BY <2>3, ReaderParts
    <2>5. q.ok /\ q.rest = Drop(G, Len(P)) /\ q.map = t.partitions
      BY <2>3, ReaderParts
    <2>6. q.rest = <<>>
      <3> DEFINE f == Drop(G, Len(P))
      <3>1. f \in Seq(Field) /\ Len(f) = Len(G) - Len(P)  BY <1>16, <2>2, DropFacts, Zenon
      <3> HIDE DEF f
      <3>2. Len(f) = 0  BY <1>16, <1>26, <3>1
      <3>3. f = <<>>  BY <3>1, <3>2
      <3>4. QED  BY <2>5, <3>3, Zenon DEF f
    <2>7. G[1] = t.id /\ G[2] = t.topologyGen /\ G[3] = t.epoch /\ G[4] = t.provenance
      <3>1. /\ 1 \in 1 .. Len(P) /\ 2 \in 1 .. Len(P) /\ 3 \in 1 .. Len(P) /\ 4 \in 1 .. Len(P)
            /\ 1 <= Len(G) /\ 2 <= Len(G) /\ 3 <= Len(G) /\ 4 <= Len(G)
            /\ 0 + 1 = 1 /\ 0 + 2 = 2 /\ 0 + 3 = 3 /\ 0 + 4 = 4
            /\ 1 \in 1 .. 4 /\ 2 \in 1 .. 4 /\ 3 \in 1 .. 4 /\ 4 \in 1 .. 4
        BY <1>16, <1>26, <2>2
      <3>2. \A k \in 1 .. 4 : P[0 + k] = h[k]  BY <1>7, <1>17, Zenon DEF Holds
      <3>3. P[1] = h[1] /\ P[2] = h[2] /\ P[3] = h[3] /\ P[4] = h[4]  BY <3>1, <3>2
      <3>4. G[1] = P[1] /\ G[2] = P[2] /\ G[3] = P[3] /\ G[4] = P[4]  BY <3>1, Zenon DEF Starts
      <3>5. QED  BY <1>7, <3>3, <3>4, Zenon
    <2>8. u = t  BY <1>5, <2>4, <2>5, <2>7, Zenon
    <2> HIDE DEF u
    <2>9. QED  BY <1>4, <1>16, <1>18, <1>26, <2>5, <2>6, <2>8, Zenon
  <1>27. CASE Len(G) # Len(P)
    <2>1. ~ (q.ok /\ q.rest = <<>>)
      <3>1. CASE Len(P) <= Len(G)
        <4> DEFINE f == Drop(G, Len(P))
        <4>1. q = Reader(f, t["partitions"])  BY <1>24, <3>1, Zenon DEF At
        <4>2. q.rest = f  BY <4>1, ReaderFacts, Zenon
        <4>3. f \in Seq(Field) /\ Len(f) = Len(G) - Len(P)  BY <1>16, <3>1, DropFacts, Zenon
        <4> HIDE DEF f
        <4>4. Len(f) # 0  BY <1>16, <1>25, <1>27, <4>3
        <4>5. f # <<>>  BY <4>4
        <4>6. QED  BY <4>2, <4>5, Zenon
      <3>2. CASE ~ (Len(P) <= Len(G))
        <4>1. q = Overrun  BY <1>24, <3>2, Zenon DEF At
        <4>2. QED  BY <4>1, ReaderFacts, Zenon
      <3>3. QED  BY <3>1, <3>2
    <2> HIDE DEF u
    <2>2. QED  BY <1>16, <1>18, <1>27, <2>1, Zenon
  <1>28. QED  BY <1>26, <1>27

\* Whatever part of it arrives, a snapshot comes out of its payload as it went
\* in, or the payload is refused: decodeTopologyPayload undoes
\* encodeTopologyPayload and takes nothing else that starts, or ends, like it.
THEOREM PayloadsArriveWhole == QuerySpec => []PayloadWholeOrRefused
  <1>1. AnswerInv => PayloadWholeOrRefused
    <2> SUFFICES ASSUME AnswerInv, query.kind = "decode"
                 PROVE  answer = IF query.fields = Len(Payload) THEN topo ELSE IntegrityFailure
      BY Zenon DEF PayloadWholeOrRefused
    <2> DEFINE n == query.fields
               P == encodeTopologyPayload(topo)
               G == IF n > Len(P) THEN Append(P, 0) ELSE SubSeq(P, 1, n)
    <2>1. topo \in Transfers /\ n \in 0 .. (Len(P) + 1) /\ answer = decodeTopologyPayload(G)
      BY Zenon DEF AnswerInv, Arrived
    <2>2. Payload = P  BY DEF Payload
    <2> HIDE DEF n, P
    <2>3. P \in Seq(Field)
      <3> DEFINE E == <<>>
      <3>1. E \in Seq(Field) /\ Starts(E, P)  BY DEF Starts
      <3> HIDE DEF E
      <3>2. QED  BY <2>1, <3>1, PayloadReads DEF P
    <2>4. 0 \in Field /\ Len(P) \in Nat
      <3>1. 0 \in Field  BY DEF Field
      <3> HIDE DEF Field
      <3>2. QED  BY <2>3, <3>1
    <2> HIDE DEF Field
    <2>5. G \in Seq(Field) /\ Len(G) = n /\ \A k \in 1 .. Len(P) : k <= Len(G) => G[k] = P[k]
      <3>1. CASE n > Len(P)
        <4> DEFINE A == Append(P, 0)
        <4>1. A \in Seq(Field) /\ Len(A) = Len(P) + 1 /\ \A k \in 1 .. Len(P) : A[k] = P[k]
          BY <2>3, <2>4
        <4>2. n = Len(P) + 1  BY <2>1, <2>4, <3>1
        <4>3. G = A  BY <3>1
        <4> HIDE DEF A, G
        <4>4. QED  BY <4>1, <4>2, <4>3
      <3>2. CASE ~ (n > Len(P))
        <4> DEFINE B == SubSeq(P, 1, n)
        <4>1. n \in 0 .. Len(P)  BY <2>1, <2>4, <3>2
        <4>2. B \in Seq(Field) /\ Len(B) = n /\ \A k \in 1 .. n : B[k] = P[k]  BY <2>3, <4>1
        <4>3. G = B  BY <3>2
        <4> HIDE DEF B, G
        <4>4. \A k \in 1 .. Len(P) : k <= n => k \in 1 .. n  BY <4>1
        <4>5. QED  BY <4>2, <4>3, <4>4
      <3>3. QED  BY <3>1, <3>2
    <2> HIDE DEF G
    <2>6. Starts(G, P)  BY <2>5, Zenon DEF Starts
    <2>7. decodeTopologyPayload(G) = IF Len(G) = Len(P) THEN topo ELSE IntegrityFailure
      BY <2>1, <2>5, <2>6, PayloadReads DEF P
    <2>8. QED  BY <2>1, <2>2, <2>5, <2>7, Zenon DEF n
  <1>2. QED  BY <1>1, AnswersInvariant, PTL
=============================================================================
