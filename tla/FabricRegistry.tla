--------------------------- MODULE FabricRegistry ---------------------------
(***************************************************************************)
(* The registry (fabric_registry.h, fabric_registry.cpp): the current      *)
(* snapshot, replaced copy-on-write by every mutation under the exclusive  *)
(* lock; the bounded logs of measurements and decisions; and the route     *)
(* and scan calls, which run in several critical sections and meet other   *)
(* mutations in between.                                                   *)
(*                                                                         *)
(* A mutation computes a candidate topology, validates it against the      *)
(* current one and publishes it, or returns an error and changes nothing:  *)
(* an error is a step that is not taken.  Callers are the threads that are *)
(* inside route() or scanBackend().                                        *)
(***************************************************************************)
EXTENDS FabricRoute

CONSTANTS
    kMaxMeasurements, kMaxHistory,
    Callers,             \* threads that call route() and scanBackend()
    Epochs,              \* arguments of setEpoch
    Queries, Policies,   \* arguments of route: <<source, destination>>, policy
    DeviceInputs, SwitchInputs, PortInputs, LinkInputs, PartitionInputs,
                         \* <<id, record>> arguments of the add and publish calls
    StateInputs,         \* arguments of the set...State calls
    RestartGens,         \* arguments of restartSwitch
    MeasurementInputs, CongestionInputs,
    BulkEdits,           \* arguments of applyBulk
    Backends,            \* backends that can be bound
    NoBackend,
    BackendProvenance,   \* what capabilities() of a backend reports
    BackendScans,        \* what scan() of a backend may return
    MaxVersion,          \* bound on the number of published snapshots
    MaxDecisions         \* bound on the number of route calls

ASSUME LimitAssumption ==
    /\ kMaxDevices \in Nat /\ kMaxSwitches \in Nat /\ kMaxPorts \in Nat
    /\ kMaxLinks \in Nat /\ kMaxPartitions \in Nat
    /\ kMaxMeasurements \in Nat \ {0} /\ kMaxHistory \in Nat
    /\ MaxVersion \in Nat /\ MaxDecisions \in Nat

MeasurementKind == {"REAL_GPU_PEER_TRANSFER_NVSWITCH_TOPOLOGY_PRESENT", "REAL_GPU_PEER_TRANSFER",
                    "REAL_GPU_SINGLE_DEVICE", "SYNTHETIC_FIXTURE", "UNSUPPORTED"}

Measurement == [id : Nat, source : DeviceIds, destination : DeviceIds, matched : BOOLEAN,
                kind : MeasurementKind,
                throughput : Nat, latency : Nat, owner : Owners]

IsBulkEdit(e) ==
    /\ IsMap(e.devices, DeviceIds, DeviceRecord)
    /\ IsMap(e.switches, SwitchIds, SwitchRecord)
    /\ IsMap(e.ports, PortIds, PortRecord)
    /\ IsMap(e.links, LinkIds, LinkRecord)
    /\ IsMap(e.partitions, PartitionIds, PartitionRecord)

ASSUME InputAssumption ==
    /\ Epochs \subseteq Nat
    /\ Policies \subseteq RoutePolicy
    /\ \A x \in DeviceInputs : x \in DeviceIds \X DeviceRecord
    /\ \A x \in SwitchInputs : x \in SwitchIds \X SwitchRecord
    /\ \A x \in PortInputs : x \in PortIds \X PortRecord
    /\ \A x \in LinkInputs : x \in LinkIds \X LinkRecord
    /\ \A x \in PartitionInputs : x \in PartitionIds \X PartitionRecord
    /\ StateInputs \subseteq EntityState
    /\ RestartGens \subseteq Gens
    /\ \A m \in MeasurementInputs : m \in Measurement
    /\ \A links \in CongestionInputs : IsMap(links, LinkIds, BOOLEAN)
    /\ \A e \in BulkEdits : IsBulkEdit(e)

ASSUME BackendAssumption ==
    /\ NoBackend \notin Backends
    /\ BackendProvenance \in [Backends -> Provenance]
    /\ \A b \in Backends : \A e \in BackendScans[b] : IsBulkEdit(e)

VARIABLES
    current,             \* current_: the published snapshot
    nextSnapshotId, version, epoch,
    measurements,        \* measurements_
    decisionLog,         \* decisionLog_
    nextDecisionId,      \* nextDecisionId_; nextObservationId_ is always equal
    nextMeasurementId,
    backend,             \* backend_
    callers,             \* progress of each route() or scanBackend() call
    revoked              \* history: generations that an operation has revoked

snapshotVars == <<current, nextSnapshotId, version, revoked>>
logVars      == <<decisionLog, nextDecisionId>>
measureVars  == <<measurements, nextMeasurementId>>
callVars     == <<callers, backend>>
regVars      == <<current, nextSnapshotId, version, epoch, measurements, decisionLog,
                  nextDecisionId, nextMeasurementId, backend, callers, revoked>>

Idle == [pc |-> "idle"]

InitialTopology ==
    [id |-> 1, topologyGen |-> 0, epoch |-> 0, provenance |-> "UNSUPPORTED",
     devices |-> EmptyMap, switches |-> EmptyMap, ports |-> EmptyMap,
     links |-> EmptyMap, partitions |-> EmptyMap]

Revocations == [switches : SUBSET (SwitchIds \X Gens), ports : SUBSET (PortIds \X Gens),
                partitions : SUBSET (PartitionIds \X Gens)]

NothingRevoked == [switches |-> {}, ports |-> {}, partitions |-> {}]

RegInit ==
    /\ current = InitialTopology
    /\ nextSnapshotId = 2
    /\ version = 0
    /\ epoch = 0
    /\ measurements = <<>>
    /\ decisionLog = <<>>
    /\ nextDecisionId = 1
    /\ nextMeasurementId = 1
    /\ backend = NoBackend
    /\ callers = [c \in Callers |-> Idle]
    /\ revoked = NothingRevoked

-----------------------------------------------------------------------------
(* Validation and publication. *)

FinalProvenance(t) ==
    LET Some(m, p) == \E x \in DOMAIN m : m[x].provenance = p
        Holds(p) == \/ Some(t.devices, p) \/ Some(t.switches, p) \/ Some(t.ports, p)
                    \/ Some(t.links, p) \/ Some(t.partitions, p)
    IN  IF Holds("SYNTHETIC") THEN "SYNTHETIC" ELSE IF Holds("REAL") THEN "REAL" ELSE "UNSUPPORTED"

WithinLimits(t) ==
    /\ Cardinality(DOMAIN t.devices) <= kMaxDevices
    /\ Cardinality(DOMAIN t.switches) <= kMaxSwitches
    /\ Cardinality(DOMAIN t.ports) <= kMaxPorts
    /\ Cardinality(DOMAIN t.links) <= kMaxLinks
    /\ Cardinality(DOMAIN t.partitions) <= kMaxPartitions

NoGenDecreased(old, new) == \A x \in DOMAIN old \cap DOMAIN new : new[x].gen >= old[x].gen

GenerationsKept(old, new) ==
    /\ NoGenDecreased(old.switches, new.switches)
    /\ NoGenDecreased(old.ports, new.ports)
    /\ NoGenDecreased(old.links, new.links)
    /\ NoGenDecreased(old.partitions, new.partitions)
    /\ new.topologyGen >= old.topologyGen

\* Defects: a check of validateCandidate is missing.
ValidSuccessor_Dangling(old, cand) == WithinLimits(cand) /\ GenerationsKept(old, cand)
ValidSuccessor_Rollback(old, cand) == CheckIntegrity(cand) /\ WithinLimits(cand)

ValidSuccessor(old, cand) ==
    /\ CheckIntegrity(cand)
    /\ WithinLimits(cand)
    /\ GenerationsKept(old, cand)

ValidateCandidate(cand) == ValidSuccessor(current, cand)

PublishedAs(cand, id, ep) ==
    [cand EXCEPT !.id = id, !.epoch = ep, !.provenance = FinalProvenance(cand)]

Published(cand) == PublishedAs(cand, nextSnapshotId, epoch)

\* revs: the generations this operation takes authority from.  A revocation
\* is remembered for as long as the entity stays in the topology.
Remembered(revs, t) ==
    [switches   |-> {r \in revoked.switches \cup revs.switches : r[1] \in DOMAIN t.switches},
     ports      |-> {r \in revoked.ports \cup revs.ports : r[1] \in DOMAIN t.ports},
     partitions |-> {r \in revoked.partitions \cup revs.partitions : r[1] \in DOMAIN t.partitions}]

Commit(cand, revs) ==
    /\ version < MaxVersion
    /\ ValidateCandidate(cand)
    /\ current' = Published(cand)
    /\ nextSnapshotId' = nextSnapshotId + 1
    /\ version' = version + 1
    /\ revoked' = Remembered(revs, cand)

Mutate(cand, revs) ==
    /\ Commit(cand, revs)
    /\ UNCHANGED <<epoch, measureVars, logVars, callVars>>

Advance(t) == [t EXCEPT !.topologyGen = NextGen(@)]

\* Maps: insert or overwrite one entry, and erase the entries in S.
Put(m, k, v) == [x \in DOMAIN m \cup {k} |-> IF x = k THEN v ELSE m[x]]
Erase(m, S) == [x \in DOMAIN m \ S |-> m[x]]

-----------------------------------------------------------------------------
(* Devices and switches. *)

AddDevice(id, rec) ==
    /\ id \notin DOMAIN current.devices
    /\ Cardinality(DOMAIN current.devices) < kMaxDevices
    /\ Mutate(Advance([current EXCEPT !.devices = Put(@, id, rec)]), NothingRevoked)

WithoutDevice(t, id) ==
    Advance([t EXCEPT !.devices = Erase(@, {id}),
                      !.links = Erase(@, {l \in DOMAIN @ : @[l].otherEnd = DeviceEnd(id)})])

RemoveDevice(id) ==
    /\ id \in DOMAIN current.devices
    /\ Mutate(WithoutDevice(current, id), NothingRevoked)

AddSwitch(id, rec) ==
    /\ id \notin DOMAIN current.switches
    /\ Cardinality(DOMAIN current.switches) < kMaxSwitches
    /\ Mutate(Advance([current EXCEPT !.switches = Put(@, id, rec)]), NothingRevoked)

\* Defect: links that end at the switch stay.
WithoutSwitch_KeepsInbound(t, id) ==
    Advance([t EXCEPT !.switches = Erase(@, {id}),
                      !.ports = Erase(@, {p \in DOMAIN @ : p[1] = id}),
                      !.links = Erase(@, {l \in DOMAIN @ : @[l].rootSwitch = id})])

WithoutSwitch(t, id) ==
    Advance([t EXCEPT !.switches = Erase(@, {id}),
                      !.ports = Erase(@, {p \in DOMAIN @ : p[1] = id}),
                      !.links = Erase(@, {l \in DOMAIN @ : \/ @[l].rootSwitch = id
                                                          \/ @[l].otherEnd = SwitchEnd(id)})])

RemoveSwitch(id) ==
    /\ id \in DOMAIN current.switches
    /\ Mutate(WithoutSwitch(current, id), NothingRevoked)

SwitchFailure == {"DOWN", "UNREACHABLE", "STALE", "REVALIDATION_REQUIRED", "ABSENT"}

\* A record entering one of the failing states advances its generation.
\*
\* Defect: it does not.
Entered_SameGen(rec, state, failing) == [rec EXCEPT !.state = state]

Entered(rec, state, failing) ==
    [rec EXCEPT !.state = state, !.gen = IF state \in failing THEN NextGen(@) ELSE @]

SetSwitchState(id, state) ==
    /\ id \in DOMAIN current.switches
    /\ LET old == current.switches[id]
           cand == [current EXCEPT !.switches = Put(@, id, Entered(old, state, SwitchFailure))]
           revs == IF state \in SwitchFailure THEN {<<id, old.gen>>} ELSE {}
       IN  Mutate(Advance(cand), [NothingRevoked EXCEPT !.switches = revs])

RestartSwitch(id, newGen) ==
    /\ id \in DOMAIN current.switches
    /\ newGen >= current.switches[id].gen
    /\ LET old == current.switches[id]
           new == [old EXCEPT !.gen = newGen, !.state = "REVALIDATION_REQUIRED"]
           revs == IF newGen > old.gen THEN {<<id, old.gen>>} ELSE {}
       IN  Mutate(Advance([current EXCEPT !.switches = Put(@, id, new)]),
                  [NothingRevoked EXCEPT !.switches = revs])

-----------------------------------------------------------------------------
(* Ports and links. *)

\* Adding port <<s, i>> raises the port count of switch s to cover i.
WithPort(t, id, rec) ==
    LET sw == t.switches[id[1]]
        n  == IF id[2] >= sw.portCount THEN id[2] + 1 ELSE sw.portCount
    IN  Advance([t EXCEPT !.switches = Put(@, id[1], [sw EXCEPT !.portCount = n]),
                          !.ports = Put(@, id, rec)])

AddPort(id, rec) ==
    /\ id[1] \in DOMAIN current.switches
    /\ id \notin DOMAIN current.ports
    /\ Cardinality(DOMAIN current.ports) < kMaxPorts
    /\ id[2] < kMaxPortsPerSwitch
    /\ Mutate(WithPort(current, id, rec), NothingRevoked)

WithoutPort(t, id) ==
    Advance([t EXCEPT !.ports = Erase(@, {id}),
                      !.links = Erase(@, {l \in DOMAIN @ : @[l].port = id})])

RemovePort(id) ==
    /\ id \in DOMAIN current.ports
    /\ Mutate(WithoutPort(current, id), NothingRevoked)

PortFailure == SwitchFailure \cup {"DISABLED"}

SetPortState(id, state) ==
    /\ id \in DOMAIN current.ports
    /\ LET old == current.ports[id]
           cand == [current EXCEPT !.ports = Put(@, id, Entered(old, state, PortFailure))]
           revs == IF state \in PortFailure THEN {<<id, old.gen>>} ELSE {}
       IN  Mutate(Advance(cand), [NothingRevoked EXCEPT !.ports = revs])

\* The early returns of addLink repeat the integrity checks on this link.
AddLink(id, rec) ==
    /\ id \notin DOMAIN current.links
    /\ Cardinality(DOMAIN current.links) < kMaxLinks
    /\ LET cand == [current EXCEPT !.links = Put(@, id, rec)]
       IN  LinkIntegrity(cand, id) /\ Mutate(Advance(cand), NothingRevoked)

RemoveLink(id) ==
    /\ id \in DOMAIN current.links
    /\ Mutate(Advance([current EXCEPT !.links = Erase(@, {id})]), NothingRevoked)

LinkFailure == {"DOWN", "STALE", "REVALIDATION_REQUIRED", "UNREACHABLE"}

SetLinkState(id, state, degraded) ==
    /\ id \in DOMAIN current.links
    /\ LET new == [Entered(current.links[id], state, LinkFailure) EXCEPT !.degraded = degraded]
       IN  Mutate(Advance([current EXCEPT !.links = Put(@, id, new)]), NothingRevoked)

-----------------------------------------------------------------------------
(* Partitions. *)

PartitionChanged(old, new) ==
    old.members # new.members \/ old.fabric # new.fabric \/ old.state # new.state

\* The record publishPartition stores for argument rec.
StoredPartition(t, id, rec) ==
    IF id \notin DOMAIN t.partitions
      THEN [rec EXCEPT !.gen = IF @ = 0 THEN 1 ELSE @]
      ELSE LET old == t.partitions[id]
               top == Larger(old.gen, rec.gen)
           IN  [rec EXCEPT !.gen = IF PartitionChanged(old, rec) THEN NextGen(top) ELSE top]

PublishPartition(id, rec) ==
    /\ id \in DOMAIN current.partitions \/ Cardinality(DOMAIN current.partitions) < kMaxPartitions
    /\ LET new == StoredPartition(current, id, rec)
           cand == [current EXCEPT !.partitions = Put(@, id, new)]
           revs == IF /\ id \in DOMAIN current.partitions
                      /\ PartitionChanged(current.partitions[id], rec)
                     THEN {<<id, current.partitions[id].gen>>} ELSE {}
       IN  /\ PartitionIntegrity(cand, id)
           /\ Mutate(Advance(cand), [NothingRevoked EXCEPT !.partitions = revs])

RemovePartition(id) ==
    /\ id \in DOMAIN current.partitions
    /\ Mutate(Advance([current EXCEPT !.partitions = Erase(@, {id})]), NothingRevoked)

MarkPartitionStale(id) ==
    /\ id \in DOMAIN current.partitions
    /\ LET old == current.partitions[id]
           fresh == old.state # "STALE"
           new == [old EXCEPT !.state = "STALE", !.gen = IF fresh THEN NextGen(@) ELSE @]
           revs == IF fresh THEN {<<id, old.gen>>} ELSE {}
       IN  Mutate(Advance([current EXCEPT !.partitions = Put(@, id, new)]),
                  [NothingRevoked EXCEPT !.partitions = revs])

-----------------------------------------------------------------------------
(* Measurements and congestion. *)

\* Append to a log that holds at most limit entries, dropping the oldest.
Pushed(log, x, limit) ==
    IF Len(log) < limit THEN Append(log, x) ELSE Append(Tail(log), x)

PublishMeasurement(m) ==
    /\ nextMeasurementId <= MaxDecisions
    /\ measurements' = Pushed(measurements,
                              [m EXCEPT !.matched = TRUE,
                                        !.id = IF @ = 0 THEN nextMeasurementId ELSE @],
                              kMaxMeasurements)
    /\ nextMeasurementId' = IF m.id = 0 THEN nextMeasurementId + 1 ELSE nextMeasurementId
    /\ UNCHANGED <<snapshotVars, epoch, logVars, callVars>>

\* Only degraded links change state; no generation advances.
Congested(t, links) ==
    [t EXCEPT !.links = [l \in DOMAIN t.links |->
        IF l \in DOMAIN links
          THEN [t.links[l] EXCEPT !.degraded = links[l],
                                  !.state = IF links[l] THEN "DEGRADED" ELSE @]
          ELSE t.links[l]]]

PublishCongestion(links) == Mutate(Advance(Congested(current, links)), NothingRevoked)

\* The decision is appended first; an entry too many drops the oldest.
\*
\* Defect: one entry too many stays.
Logged_OneMore(d) ==
    LET log == Append(decisionLog, d)
    IN  IF Len(log) > kMaxHistory + 1 THEN Tail(log) ELSE log

Logged(d) ==
    LET log == Append(decisionLog, d)
    IN  IF Len(log) > kMaxHistory THEN Tail(log) ELSE log

RecordDecision(d) ==
    /\ decisionLog' = Logged(d)
    /\ UNCHANGED <<snapshotVars, epoch, measureVars, nextDecisionId, callVars>>

-----------------------------------------------------------------------------
(* Fencing, expiry and revalidation: the same update on all five maps. *)

\* The records S of a map enter a state, their generations kept or advanced.
Moved(m, S, state) == [x \in DOMAIN m |-> IF x \in S THEN [m[x] EXCEPT !.state = state] ELSE m[x]]
Fenced(m, S) ==
    [x \in DOMAIN m |-> IF x \in S THEN [m[x] EXCEPT !.state = "REVALIDATION_REQUIRED",
                                                     !.gen = NextGen(@)]
                                   ELSE m[x]]

OwnedBy(m, owner) == {x \in DOMAIN m : m[x].owner = owner}

OwnedGens(m, owner) == {<<x, m[x].gen>> : x \in OwnedBy(m, owner)}

Owns(t, owner) ==
    \/ OwnedBy(t.devices, owner) # {} \/ OwnedBy(t.switches, owner) # {}
    \/ OwnedBy(t.ports, owner) # {} \/ OwnedBy(t.links, owner) # {}
    \/ OwnedBy(t.partitions, owner) # {}

\* Devices have no generation of their own.
FencedTopology(t, owner) ==
    [t EXCEPT !.switches = Fenced(@, OwnedBy(@, owner)), !.ports = Fenced(@, OwnedBy(@, owner)),
              !.links = Fenced(@, OwnedBy(@, owner)), !.partitions = Fenced(@, OwnedBy(@, owner)),
              !.devices = Moved(@, OwnedBy(@, owner), "REVALIDATION_REQUIRED"),
              !.topologyGen = IF Owns(t, owner) THEN NextGen(@) ELSE @]

FenceRevocations(t, owner) ==
    [switches |-> OwnedGens(t.switches, owner), ports |-> OwnedGens(t.ports, owner),
     partitions |-> OwnedGens(t.partitions, owner)]

InvalidateForWorker(owner) ==
    Mutate(FencedTopology(current, owner), FenceRevocations(current, owner))

\* Defect: what a worker published survives the restart.
Dynamic_RealOnly(rec) == rec.provenance = "REAL"
Dynamic(rec) == rec.owner # NoOwner \/ rec.provenance = "REAL"

Expired(m) == Moved(m, {x \in DOMAIN m : Dynamic(m[x])}, "REVALIDATION_REQUIRED")

ExpiredTopology(t) ==
    Advance([t EXCEPT !.switches = Expired(@), !.ports = Expired(@), !.links = Expired(@),
                      !.partitions = Expired(@), !.devices = Expired(@)])

Unmatched(log) == [i \in DOMAIN log |-> [log[i] EXCEPT !.matched = FALSE]]

\* The measurements lose their match whether or not the candidate is valid.
ExpireDynamicEvidence ==
    /\ measurements' = Unmatched(measurements)
    /\ IF ValidateCandidate(ExpiredTopology(current))
         THEN Commit(ExpiredTopology(current), NothingRevoked)
         ELSE UNCHANGED snapshotVars
    /\ UNCHANGED <<epoch, nextMeasurementId, logVars, callVars>>

Revalidated(m, state) == Moved(m, {x \in DOMAIN m : m[x].state \in Stale}, state)

RevalidatedTopology(t) ==
    Advance([t EXCEPT !.switches = Revalidated(@, "UP"), !.ports = Revalidated(@, "UP"),
                      !.links = Revalidated(@, "UP"), !.devices = Revalidated(@, "UP"),
                      !.partitions = Revalidated(@, "ACTIVE")])

RevalidateAll == Mutate(RevalidatedTopology(current), NothingRevoked)

-----------------------------------------------------------------------------
(* Bulk edits, backends and the epoch. *)

Overlay(m, e) == [x \in DOMAIN m \cup DOMAIN e |-> IF x \in DOMAIN e THEN e[x] ELSE m[x]]

\* Records are overwritten as they come: their generations are checked, not
\* advanced.
BulkTopology(t, e) ==
    Advance([t EXCEPT !.devices = Overlay(@, e.devices), !.switches = Overlay(@, e.switches),
                      !.ports = Overlay(@, e.ports), !.links = Overlay(@, e.links),
                      !.partitions = Overlay(@, e.partitions)])

ApplyBulk(e) == Mutate(BulkTopology(current, e), NothingRevoked)

BindBackend(b) ==
    /\ backend' = b
    /\ UNCHANGED <<snapshotVars, epoch, measureVars, logVars, callers>>

\* scanBackend reads the backend under the shared lock and scans it with no
\* lock held; the backend may be replaced before the scan is applied.
ScanStart(c) ==
    /\ callers[c] = Idle
    /\ backend # NoBackend
    /\ BackendProvenance[backend] # "UNSUPPORTED"
    /\ callers' = [callers EXCEPT ![c] = [pc |-> "scanning", backend |-> backend]]
    /\ UNCHANGED <<snapshotVars, epoch, measureVars, logVars, backend>>

\* The backend returns an error: NVML is not initialized, or a device is gone.
ScanFails(c) ==
    /\ callers[c].pc = "scanning"
    /\ callers' = [callers EXCEPT ![c] = Idle]
    /\ UNCHANGED <<snapshotVars, epoch, measureVars, logVars, backend>>

\* applyBackendScan; a rejected scan changes nothing.
ScanApply(c, e) ==
    /\ callers[c].pc = "scanning"
    /\ e \in BackendScans[callers[c].backend]
    /\ callers' = [callers EXCEPT ![c] = Idle]
    /\ IF ValidateCandidate(BulkTopology(current, e))
         THEN Commit(BulkTopology(current, e), NothingRevoked)
         ELSE UNCHANGED snapshotVars
    /\ UNCHANGED <<epoch, measureVars, logVars, backend>>

SetEpoch(e) ==
    /\ epoch' = e
    /\ UNCHANGED <<snapshotVars, measureVars, logVars, callVars>>

-----------------------------------------------------------------------------
(* route(): three critical sections.  The unlocked read of epoch_ belongs to *)
(* the second: nothing between the two depends on it.                        *)

RouteSnapshot(c, src, dst, policy) ==
    /\ callers[c] = Idle
    /\ nextDecisionId <= MaxDecisions
    /\ callers' = [callers EXCEPT ![c] =
          [pc |-> "snapped", src |-> src, dst |-> dst, policy |-> policy,
           snap |-> current, measurements |-> measurements]]
    /\ UNCHANGED <<snapshotVars, epoch, measureVars, logVars, backend>>

\* Defect: the id is read and not advanced.
RouteCompute_SameId(c) ==
    /\ callers[c].pc = "snapped"
    /\ LET k == callers[c]
           d == ComputeRoute(k.snap, k.src, k.dst, k.policy, k.measurements, nextDecisionId, epoch)
       IN  callers' = [callers EXCEPT ![c] =
              [pc |-> "computed", policy |-> k.policy, snap |-> k.snap, decision |-> d]]
    /\ UNCHANGED <<snapshotVars, epoch, measureVars, logVars, backend>>

RouteCompute(c) ==
    /\ callers[c].pc = "snapped"
    /\ LET k == callers[c]
           d == ComputeRoute(k.snap, k.src, k.dst, k.policy, k.measurements, nextDecisionId, epoch)
       IN  callers' = [callers EXCEPT ![c] =
              [pc |-> "computed", policy |-> k.policy, snap |-> k.snap, decision |-> d]]
    /\ nextDecisionId' = nextDecisionId + 1
    /\ UNCHANGED <<snapshotVars, epoch, measureVars, decisionLog, backend>>

RouteLog(c) ==
    /\ callers[c].pc = "computed"
    /\ decisionLog' = Logged(callers[c].decision)
    /\ callers' = [callers EXCEPT ![c] = Idle]
    /\ UNCHANGED <<snapshotVars, epoch, measureVars, nextDecisionId, backend>>

-----------------------------------------------------------------------------

DeviceOps ==
    \/ \E x \in DeviceInputs : AddDevice(x[1], x[2])
    \/ \E id \in DeviceIds : RemoveDevice(id)

SwitchOps ==
    \/ \E x \in SwitchInputs : AddSwitch(x[1], x[2])
    \/ \E id \in SwitchIds : RemoveSwitch(id)
    \/ \E id \in SwitchIds, s \in StateInputs : SetSwitchState(id, s)
    \/ \E id \in SwitchIds, g \in RestartGens : RestartSwitch(id, g)

PortOps ==
    \/ \E x \in PortInputs : AddPort(x[1], x[2])
    \/ \E id \in PortIds : RemovePort(id)
    \/ \E id \in PortIds, s \in StateInputs : SetPortState(id, s)

LinkOps ==
    \/ \E x \in LinkInputs : AddLink(x[1], x[2])
    \/ \E id \in LinkIds : RemoveLink(id)
    \/ \E id \in LinkIds, s \in StateInputs, b \in BOOLEAN : SetLinkState(id, s, b)
    \/ \E links \in CongestionInputs : PublishCongestion(links)

PartitionOps ==
    \/ \E x \in PartitionInputs : PublishPartition(x[1], x[2])
    \/ \E id \in PartitionIds : RemovePartition(id)
    \/ \E id \in PartitionIds : MarkPartitionStale(id)

EvidenceOps ==
    \/ \E m \in MeasurementInputs : PublishMeasurement(m)
    \/ \E owner \in Workers \X Boots : InvalidateForWorker(owner)
    \/ ExpireDynamicEvidence
    \/ RevalidateAll

BulkOps ==
    \/ \E e \in BulkEdits : ApplyBulk(e)
    \/ \E b \in Backends : BindBackend(b)
    \/ \E e \in Epochs : SetEpoch(e)
    \/ \E c \in Callers : ScanStart(c) \/ ScanFails(c)
    \/ \E c \in Callers, e \in UNION {BackendScans[b] : b \in Backends} : ScanApply(c, e)

RouteOps ==
    \/ \E c \in Callers, q \in Queries, p \in Policies : RouteSnapshot(c, q[1], q[2], p)
    \/ \E c \in Callers : RouteCompute(c)
    \/ \E c \in Callers : RouteLog(c)
    \/ \E i \in DOMAIN decisionLog : RecordDecision(decisionLog[i])

RegNext == \/ DeviceOps \/ SwitchOps \/ PortOps \/ LinkOps \/ PartitionOps
           \/ EvidenceOps \/ BulkOps \/ RouteOps

RegSpec == RegInit /\ [][RegNext]_regVars

-----------------------------------------------------------------------------
(* Properties. *)

\* Type correctness: the published snapshot, the counters and the logs have
\* their types, and each log respects its bound (limits.h).
TypeOK ==
    /\ IsTopology(current)
    /\ nextSnapshotId \in Nat
    /\ version \in 0 .. MaxVersion
    /\ epoch \in Nat
    /\ measurements \in Seq(Measurement) /\ Len(measurements) <= kMaxMeasurements
    /\ decisionLog \in Seq({decisionLog[i] : i \in DOMAIN decisionLog})
    /\ Len(decisionLog) <= kMaxHistory
    /\ nextDecisionId \in Nat \ {0}
    /\ nextMeasurementId \in Nat \ {0}
    /\ backend \in Backends \cup {NoBackend}
    /\ DOMAIN callers = Callers
    /\ revoked \in Revocations

\* No published snapshot refers to an entity it does not hold: a port has its
\* switch; a link has its port, that port's switch and its far end; a
\* partition has all its members and switches.  The removals must erase what
\* depends on the entity they remove, or be refused.
Integrity ==
    /\ \A p \in DOMAIN current.ports : p[1] \in DOMAIN current.switches
    /\ \A l \in DOMAIN current.links :
          LET rec == current.links[l] IN
          /\ rec.port \in DOMAIN current.ports
          /\ rec.rootSwitch = rec.port[1]
          /\ \/ \E d \in DOMAIN current.devices : rec.otherEnd = DeviceEnd(d)
             \/ \E s \in DOMAIN current.switches : rec.otherEnd = SwitchEnd(s)
    /\ \A q \in DOMAIN current.partitions :
          /\ current.partitions[q].members \subseteq DOMAIN current.devices
          /\ current.partitions[q].switches \subseteq DOMAIN current.switches

\* No step lowers the generation of a switch, port, link or partition that
\* stays in the topology, nor that of the topology: bulk edits, scans and
\* counter wrap-around included.
GenerationsMonotone == [][GenerationsKept(current, current')]_regVars

\* The cascades of the removals erase enough: only a partition that names the
\* entity, or the exhausted topology counter, can make validation refuse to
\* remove a device, a switch or a port.
CascadesSuffice ==
    current.topologyGen + 1 < U64 =>
        /\ \A d \in DOMAIN current.devices :
              \/ \E q \in DOMAIN current.partitions : d \in current.partitions[q].members
              \/ ValidateCandidate(WithoutDevice(current, d))
        /\ \A s \in DOMAIN current.switches :
              \/ \E q \in DOMAIN current.partitions : s \in current.partitions[q].switches
              \/ ValidateCandidate(WithoutSwitch(current, s))
        /\ \A p \in DOMAIN current.ports : ValidateCandidate(WithoutPort(current, p))

\* The decisions some thread or the log still holds.
HeldDecisions ==
    {decisionLog[i] : i \in DOMAIN decisionLog}
        \cup {callers[c].decision : c \in {k \in Callers : callers[k].pc = "computed"}}

RestsOnRevoked(d) ==
    \/ \E r \in revoked.switches : r[1] \in DOMAIN d.switchGens /\ d.switchGens[r[1]] = r[2]
    \/ \E r \in revoked.ports : r[1] \in DOMAIN d.portGens /\ d.portGens[r[1]] = r[2]
    \/ <<d.partition, d.partitionGen>> \in revoked.partitions

\* A route decision loses its authority for good when a switch or port it
\* crosses is failed, restarted into a new generation or fenced with its
\* worker, or when its partition is changed or marked stale: not even a
\* decision computed from a snapshot taken before the failure and logged
\* after it, and not even once the entity is UP again.
RevokedNeverAuthoritative ==
    \A d \in HeldDecisions : RestsOnRevoked(d) => ~ StillAuthoritative(d, current)

\* Why: every revoked generation is behind the entity's current one.
Behind(R, m) == \A r \in R : r[1] \in DOMAIN m /\ m[r[1]].gen > r[2]

RevokedBehind ==
    /\ Behind(revoked.switches, current.switches)
    /\ Behind(revoked.ports, current.ports)
    /\ Behind(revoked.partitions, current.partitions)

\* The path of a granted decision is one the snapshot really offers: it leads
\* from source to destination, link by link, over switches that are all
\* different and none of them lost or stale, out of usable ports over usable
\* links, within the hop limit and, when asked for, inside one partition.
PathOffered(t, d, policy) ==
    LET hops == d.selected.hops
        links == d.selected.links
        n == Len(hops)
        Ends(l, far, sw) == t.links[l].otherEnd = far /\ t.links[l].rootSwitch = sw
        FarEnd(i) == IF i = n THEN DeviceEnd(d.destination) ELSE SwitchEnd(hops[i + 1].sw)
    IN  /\ n >= 1 /\ n <= policy.maxAllowedHops /\ Len(links) = n + 1
        /\ Ends(links[1], DeviceEnd(d.source), hops[1].sw)
        /\ \A i \in 1 .. n : /\ Ends(links[i + 1], FarEnd(i), hops[i].sw)
                             /\ hops[i].outPort = t.links[links[i + 1]].port
                             /\ t.switches[hops[i].sw].state \notin Lost \cup Stale
        /\ \A i \in DOMAIN links : EdgeUsable(t, links[i])
        /\ Cardinality(HopSwitches(d.selected)) = n
        /\ policy.insidePartition /\ CurrentPartitions(t) # {}
              => \E q \in CurrentPartitions(t) :
                    {d.source, d.destination} \subseteq t.partitions[q].members

RouteSound ==
    \A c \in Callers : LET k == callers[c] IN
        k.pc = "computed" /\ k.decision.outcome \in Allowed
            => PathOffered(k.snap, k.decision, k.policy)

\* Decision ids are unique across concurrent route calls: no two calls in
\* progress share one, and none is already in the log.
DecisionIdsDistinct ==
    LET Done(c) == callers[c].pc = "computed" IN
    \A c \in Callers : Done(c) =>
        /\ \A k \in Callers \ {c} : Done(k) => callers[k].decision.id # callers[c].decision.id
        /\ \A i \in DOMAIN decisionLog : decisionLog[i].id # callers[c].decision.id

-----------------------------------------------------------------------------
(* What the documentation says and the code does not do. *)

\* A stale partition observation fails closed: a caller that asks to stay
\* inside a partition gets no route when the only partition that holds both
\* endpoints is stale.
StalePartitionFailsClosed ==
    \A c \in Callers : LET k == callers[c] IN
        /\ k.pc = "computed" /\ k.policy.insidePartition
        /\ k.decision.outcome \in Allowed
        /\ \E q \in DOMAIN k.snap.partitions :
              {k.decision.source, k.decision.destination} \subseteq k.snap.partitions[q].members
        => InCurrentPartition(k.snap, {k.decision.source, k.decision.destination})
=============================================================================
