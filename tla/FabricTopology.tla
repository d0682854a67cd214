--------------------------- MODULE FabricTopology ---------------------------
(***************************************************************************)
(* The immutable topology snapshot of NVSwitch Fabric (topology.h,         *)
(* topology.cpp, records.h, state.h): its records, its referential         *)
(* integrity, the bounded enumeration of switch-mediated paths, device     *)
(* reachability and fabric health.  Everything here is a pure operator on  *)
(* a snapshot value t; FabricRegistry gives snapshots their life cycle.    *)
(*                                                                         *)
(* A std::map is a function whose DOMAIN is the set of present ids.  Ids   *)
(* are numbers because the maps are ordered and the order decides which    *)
(* path and which partition is looked at first.  (workerKnown, worker,     *)
(* workerBoot) is one value, owner: NoOwner or <<worker, boot>>.  Vendor   *)
(* strings, nominal capacities and evidence sources are left out: no       *)
(* operation modelled here reads them.                                     *)
(***************************************************************************)
EXTENDS Integers, Sequences, FiniteSets, SequencesExt

CONSTANTS
    DeviceIds, SwitchIds, LinkIds, PartitionIds,  \* id spaces, sets of numbers
    PortIndexes,         \* port numbers a record may carry
    FabricIds,           \* fabric names
    Workers, Boots,      \* worker names and worker boot numbers
    U64,                 \* 2^64: the modulus of the uint64_t counters
    kMaxDevices, kMaxSwitches, kMaxPorts, kMaxLinks, kMaxPartitions,
    kMaxPortsPerSwitch, kMaxCandidatePaths, kMaxPathDepth

ASSUME IdAssumption ==
    /\ DeviceIds \subseteq Nat
    /\ SwitchIds \subseteq Nat
    /\ LinkIds \subseteq Nat
    /\ PartitionIds \subseteq Nat
    /\ PortIndexes \subseteq Nat
    /\ Boots \subseteq Nat

\* Device, switch and link ids and port indexes are fixed-width integers
\* (identity.h); partitions are named by strings.
ASSUME IdWidthAssumption ==
    /\ IsFiniteSet(DeviceIds) /\ IsFiniteSet(SwitchIds)
    /\ IsFiniteSet(LinkIds) /\ IsFiniteSet(PortIndexes)

ASSUME WidthAssumption == U64 \in Nat /\ U64 > 2

ASSUME PathLimitAssumption ==
    /\ kMaxPortsPerSwitch \in Nat
    /\ kMaxCandidatePaths \in Nat /\ kMaxCandidatePaths >= 2
    /\ kMaxPathDepth \in Nat \ {0}

-----------------------------------------------------------------------------
(* Records. *)

EntityState == {"UNKNOWN", "PRESENT", "ABSENT", "SUPPORTED", "UNSUPPORTED",
                "UP", "DOWN", "DEGRADED", "DISABLED", "UNREACHABLE",
                "PARTITIONED", "STALE", "REVALIDATION_REQUIRED", "INCOMPATIBLE"}

PartitionState == {"ACTIVE", "INACTIVE", "RECONFIGURING",
                   "REVALIDATION_REQUIRED", "STALE", "UNSUPPORTED"}

Provenance == {"REAL", "SYNTHETIC", "UNSUPPORTED"}

Gens == 0 .. (U64 - 1)

\* Gen::next: uint64_t addition.
NextGen(g) == IF g + 1 = U64 THEN 0 ELSE g + 1

Larger(a, b) == IF a < b THEN b ELSE a

NoOwner == <<>>
Owners == {NoOwner} \cup (Workers \X Boots)

PortIds == SwitchIds \X PortIndexes

DeviceEnd(d) == [kind |-> "Device", id |-> d]
SwitchEnd(s) == [kind |-> "Switch", id |-> s]
LinkEnds == [kind : {"Device"}, id : DeviceIds] \cup [kind : {"Switch"}, id : SwitchIds]

DeviceRecord == [present : BOOLEAN, state : EntityState,
                 owner : Owners, provenance : Provenance]

SwitchRecord == [gen : Gens, portCount : Nat, state : EntityState,
                 owner : Owners, provenance : Provenance]

PortRecord == [gen : Gens, state : EntityState,
               owner : Owners, provenance : Provenance]

LinkRecord == [gen : Gens, rootSwitch : SwitchIds, port : PortIds,
               otherEnd : LinkEnds, state : EntityState, degraded : BOOLEAN,
               owner : Owners, provenance : Provenance]

PartitionRecord == [gen : Gens, fabric : FabricIds,
                    members : SUBSET DeviceIds, switches : SUBSET SwitchIds,
                    state : PartitionState,
                    owner : Owners, provenance : Provenance]

\* m is a map from some of the keys in S to values in T.
IsMap(m, S, T) == m \in [DOMAIN m -> T] /\ DOMAIN m \subseteq S

IsTopology(t) ==
    /\ t \in [id : Nat, topologyGen : Gens, epoch : Nat, provenance : Provenance,
              devices : {t.devices}, switches : {t.switches}, ports : {t.ports},
              links : {t.links}, partitions : {t.partitions}]
    /\ IsMap(t.devices, DeviceIds, DeviceRecord)
    /\ IsMap(t.switches, SwitchIds, SwitchRecord)
    /\ IsMap(t.ports, PortIds, PortRecord)
    /\ IsMap(t.links, LinkIds, LinkRecord)
    /\ IsMap(t.partitions, PartitionIds, PartitionRecord)

EmptyMap == [x \in {} |-> x]

-----------------------------------------------------------------------------
(* Integrity: checkIntegrity.  Keys are unique and equal to the record's id *)
(* by construction of the maps.                                             *)

PortIntegrity(t, p) ==
    /\ p[1] \in DOMAIN t.switches
    /\ p[2] < kMaxPortsPerSwitch

LinkIntegrity(t, l) ==
    LET rec == t.links[l] IN
    /\ rec.rootSwitch \in DOMAIN t.switches
    /\ rec.port \in DOMAIN t.ports
    /\ rec.port[1] = rec.rootSwitch
    /\ IF rec.otherEnd.kind = "Device"
         THEN rec.otherEnd.id \in DOMAIN t.devices
         ELSE rec.otherEnd.id \in DOMAIN t.switches

PartitionIntegrity(t, p) ==
    /\ t.partitions[p].members \subseteq DOMAIN t.devices
    /\ t.partitions[p].switches \subseteq DOMAIN t.switches

CheckIntegrity(t) ==
    /\ \A p \in DOMAIN t.ports : PortIntegrity(t, p)
    /\ \A l \in DOMAIN t.links : LinkIntegrity(t, l)
    /\ \A p \in DOMAIN t.partitions : PartitionIntegrity(t, p)

-----------------------------------------------------------------------------
(* Path enumeration. *)

TraversableState(s) == s \in {"UP", "DEGRADED"}

\* A link whose port is missing has port state DOWN.
EdgeUsable(t, l) ==
    /\ TraversableState(t.links[l].state)
    /\ t.links[l].port \in DOMAIN t.ports
    /\ TraversableState(t.ports[t.links[l].port].state)

\* The elements of S in the strict total order Less.
Ordered(S, Less(_, _)) ==
    [i \in 1 .. Cardinality(S) |->
        CHOOSE x \in S : Cardinality({y \in S : Less(y, x)}) = i - 1]

\* Edges sort by (port, link): port ids compare by switch, then by index.
EdgeBefore(t, k, l) ==
    LET p == t.links[k].port
        q == t.links[l].port
    IN  \/ p[1] < q[1]
        \/ p[1] = q[1] /\ p[2] < q[2]
        \/ p = q /\ k < l

\* The sorted adjacency lists, of which the code skips the edges it does not
\* take.  Two links on the same port have no order in a device's list
\* (std::sort on equal keys), here the smaller id goes first.
InEdgeOrder(t, edges) == Ordered(edges, LAMBDA k, l : EdgeBefore(t, k, l))

SwitchEdges(t, s) == {l \in DOMAIN t.links : t.links[l].rootSwitch = s}
DeviceEdges(t, d) == {l \in DOMAIN t.links : t.links[l].otherEnd = DeviceEnd(d)}

UnknownPort == <<>>

\* A path, or a prefix of one, is a sequence of hops and the links taken.
Entering(sw, in) == [sw |-> sw, inPort |-> in, outPort |-> UnknownPort, exit |-> "none"]

\* p leaves its last switch over link l.
Leaving(t, p, l, exit) ==
    [hops  |-> [p.hops EXCEPT ![Len(p.hops)] =
                  [@ EXCEPT !.outPort = t.links[l].port, !.exit = exit]],
     links |-> Append(p.links, l)]

HopSwitches(p) == {p.hops[i].sw : i \in DOMAIN p.hops}

CurrentSwitch(p) == p.hops[Len(p.hops)].sw

\* The port through which nxt is entered from cur: that of the first reverse
\* half link, usable or not, and unknown when there is none.
InboundPort(t, nxt, cur) ==
    LET back == {l \in SwitchEdges(t, nxt) : t.links[l].otherEnd = SwitchEnd(cur)}
    IN  IF back = {} THEN UnknownPort ELSE t.links[InEdgeOrder(t, back)[1]].port

SeedPaths(t, src) ==
    LET edges == InEdgeOrder(t, {l \in DeviceEdges(t, src) : EdgeUsable(t, l)})
    IN  [i \in DOMAIN edges |->
            [hops  |-> <<Entering(t.links[edges[i]].port[1], t.links[edges[i]].port)>>,
             links |-> <<edges[i]>>]]

\* A path visits a switch at most once.
\* Defect: only the switch just left is remembered.
Visited_LastOnly(p, s) == s = CurrentSwitch(p)
Visited(p, s) == s \in HopSwitches(p)

\* The prefixes that extend p by one switch, in edge order.
Extensions(t, p, cfg) ==
    LET Takes(l) == /\ EdgeUsable(t, l)
                    /\ t.links[l].otherEnd.kind = "Switch"
                    /\ cfg.allowSwitchSwitching
                    /\ ~ Visited(p, t.links[l].otherEnd.id)
                    /\ Len(p.hops) < cfg.maxDepth
        edges == InEdgeOrder(t, {l \in SwitchEdges(t, CurrentSwitch(p)) : Takes(l)})
        Step(l) == LET nxt == t.links[l].otherEnd.id
                       q   == Leaving(t, p, l, "switch")
                   IN  [q EXCEPT !.hops = Append(@,
                            Entering(nxt, InboundPort(t, nxt, CurrentSwitch(p))))]
    IN  [i \in DOMAIN edges |-> Step(edges[i])]

\* A path is degraded when one of its links is.
\* Defect: only the last link is looked at.
PathState_LastLink(t, links) == IF t.links[links[Len(links)]].degraded THEN "DEGRADED" ELSE "UP"
PathState(t, links) ==
    IF \E i \in DOMAIN links : t.links[links[i]].degraded THEN "DEGRADED" ELSE "UP"

\* The paths that end at dst straight from p, in edge order.
Completions(t, p, dst) ==
    LET Ends(l) == EdgeUsable(t, l) /\ t.links[l].otherEnd = DeviceEnd(dst)
        edges == InEdgeOrder(t, {l \in SwitchEdges(t, CurrentSwitch(p)) : Ends(l)})
        Finish(l) == LET q == Leaving(t, p, l, "device")
                     IN  [hops |-> q.hops, links |-> q.links, state |-> PathState(t, q.links)]
    IN  [i \in DOMAIN edges |-> Finish(edges[i])]

\* The frontier is a FIFO, so prefixes are expanded level by level, and the
\* search stops once maxPaths paths are found: the result is a prefix of all
\* the paths in breadth-first order.
AllPaths(t, src, dst, cfg) ==
    LET depth == Cardinality(DOMAIN t.switches) + 1
        level[n \in 1 .. depth] ==
            IF n = 1 THEN SeedPaths(t, src)
            ELSE LET prev == level[n - 1]
                 IN  FlattenSeq([i \in DOMAIN prev |-> Extensions(t, prev[i], cfg)])
        found(n) == LET lv == level[n]
                    IN  FlattenSeq([i \in DOMAIN lv |-> Completions(t, lv[i], dst)])
    IN  FlattenSeq([n \in 1 .. depth |-> found(n)])

\* Defect: stops one path early.
FirstPaths_OneShort(all, n) == SubSeq(all, 1, IF Len(all) < n THEN Len(all) ELSE n - 1)
FirstPaths(all, n) == SubSeq(all, 1, IF Len(all) < n THEN Len(all) ELSE n)

PathEndpointStates == {"UP", "PRESENT", "DEGRADED"}

EnumeratePaths(t, src, dst, cfg) ==
    IF /\ cfg.maxPaths # 0 /\ cfg.maxDepth # 0
       /\ src \in DOMAIN t.devices /\ dst \in DOMAIN t.devices
       /\ t.devices[src].state \in PathEndpointStates
       /\ t.devices[dst].state \in PathEndpointStates
       /\ src # dst
      THEN FirstPaths(AllPaths(t, src, dst, cfg), cfg.maxPaths)
      ELSE <<>>

DefaultTraversal == [maxPaths |-> kMaxCandidatePaths, maxDepth |-> kMaxPathDepth,
                     allowSwitchSwitching |-> TRUE]

-----------------------------------------------------------------------------
(* Reachability and health. *)

Stale == {"STALE", "REVALIDATION_REQUIRED"}
Lost  == {"DOWN", "ABSENT", "UNREACHABLE"}

\* Partitions whose observation is not stale.
CurrentPartitions(t) == {p \in DOMAIN t.partitions : t.partitions[p].state \notin Stale}

\* Every matching partition overwrites the one found before it.
LastPartition(t, S) == Max({p \in CurrentPartitions(t) : S \subseteq t.partitions[p].members})

InCurrentPartition(t, S) == \E p \in CurrentPartitions(t) : S \subseteq t.partitions[p].members

\* The code's last test, REVALIDATION_REQUIRED when some switch is stale, is
\* never reached: a stale switch already counts as anySwitchDown.
DeviceReachability(t, src, dst) ==
    LET s == t.devices[src].state
        d == t.devices[dst].state
        anySwitchDown == \E w \in DOMAIN t.switches : t.switches[w].state \in Lost \cup Stale
        anyPortDown == \E p \in DOMAIN t.ports :
                          t.ports[p].state \in {"DOWN", "UNREACHABLE", "DISABLED"} \cup Stale
        blocked == /\ InCurrentPartition(t, {src})
                   /\ InCurrentPartition(t, {dst})
                   /\ LastPartition(t, {src}) # LastPartition(t, {dst})
        paths == EnumeratePaths(t, src, dst, DefaultTraversal)
    IN  IF ~ {src, dst} \subseteq DOMAIN t.devices THEN "INSUFFICIENT_EVIDENCE"
        ELSE IF src = dst THEN "REACHABLE"
        ELSE IF s \in Stale \/ d \in Stale THEN "ENDPOINT_STALE"
        ELSE IF "UNSUPPORTED" \in {s, d} THEN "UNSUPPORTED"
        ELSE IF s \in Lost \/ d \in Lost THEN "UNREACHABLE"
        ELSE IF blocked THEN "PARTITION_BLOCKED"
        ELSE IF paths = <<>> THEN (IF anySwitchDown THEN "SWITCH_DOWN"
                                   ELSE IF anyPortDown THEN "PORT_DOWN"
                                   ELSE "UNREACHABLE")
        ELSE IF \E i \in DOMAIN paths : paths[i].state = "UP" THEN "REACHABLE"
        ELSE "REACHABLE_DEGRADED"

\* Defect: only ports an operator has disabled count as failed.
PortFailed_DisabledOnly(t) == \E p \in DOMAIN t.ports : t.ports[p].state = "DISABLED"

PortFailed(t) ==
    \E p \in DOMAIN t.ports : t.ports[p].state \in {"DOWN", "UNREACHABLE", "DISABLED"}

\* The links are not looked at.
FabricHealth(t) ==
    LET SwitchIn(S)    == \E x \in DOMAIN t.switches   : t.switches[x].state \in S
        PortIn(S)      == \E x \in DOMAIN t.ports      : t.ports[x].state \in S
        DeviceIn(S)    == \E x \in DOMAIN t.devices    : t.devices[x].state \in S
        PartitionIn(S) == \E x \in DOMAIN t.partitions : t.partitions[x].state \in S
    IN  IF SwitchIn(Lost) THEN "SWITCH_FAILURE"
        ELSE IF PortFailed(t) THEN "PORT_FAILURE"
        ELSE IF DeviceIn(Lost) THEN "ENDPOINT_FAILURE"
        ELSE IF \/ PartitionIn({"RECONFIGURING"} \cup Stale)
                \/ SwitchIn(Stale) \/ PortIn(Stale) \/ DeviceIn(Stale)
             THEN "REVALIDATION_REQUIRED"
        ELSE IF SwitchIn({"DEGRADED"}) \/ PortIn({"DEGRADED"}) THEN "DEGRADED"
        ELSE "HEALTHY"
=============================================================================
