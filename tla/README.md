# NVSwitch Fabric: a TLA+ model, its checks and its proofs

The modules in this directory model the control logic of NVSwitch Fabric: the
copy-on-write topology registry, the path search and route governance that read
its snapshots, the backends, the state file, and the coordinator that worker
processes talk to over TCP, with its threads and its framing. TLC checks them on
small instances; TLAPS proves the safety properties for every instance, and liveness
stays with TLC (section 4). `PROJECT.json` lists the components, runs,
mutants, findings, hazards and theorems, and maps every definition to the lines
it translates.

## 1. The system

| Component | State | Operations | What is hard about it |
|---|---|---|---|
| **Records and identities** (`records.h`, `identity.h`, `state.h`, `generation.h`) | none | typed ids, states, 64-bit generations with `next()` | generations wrap |
| **Topology snapshot** (`topology.cpp`) | immutable maps of devices, switches, ports, links, partitions; topology generation | `checkIntegrity`, `enumeratePaths`, `deviceReachability`, `fabricHealth` | a bounded breadth-first search; three judgements of the same states by three pieces of code |
| **Route governance** (`route.cpp`, `path.cpp`) | none; a decision captures the generations it rests on | `computeRoute`, `routeDecisionStillAuthoritative` | a decision outlives its snapshot and is judged against another one |
| **Registry** (`fabric_registry.cpp`) | the current snapshot, id counters, epoch, bounded measurement and decision logs, bound backend | 14 edits of single entities, fencing of a worker, expiry, revalidation, bulk edits, scans, `route` | `route` and `scanBackend` give the lock up between their parts |
| **State file** (`persistence.cpp`) | `path` and `path.tmp` | `serializeToFile`, `deserializeFromFile`, the payload's encoding | several threads save at once; the disk fails unnoticed; the process is killed at any point |
| **Coordinator** (`coordinator.cpp`) | live sockets, thread objects, highest and active boot per worker, one registry, one state file | start, stop, accept; REGISTER, PUBLISH_TOPOLOGY, PUBLISH_MEASUREMENT, QUERY_ROUTE; fencing at the end of a connection; restore after a restart | one thread per connection; old and new incarnations of a worker overlap; workers and the coordinator die; stop races all of them |
| **Worker** (`worker.cpp`) | one connection, identity and boot | connect, publish, query, close | dies with frames in flight; waits for answers without a timeout |
| **Transport, wire codec** (`transport.cpp`, `wire.cpp`) | receive buffer and a sticky error per stream; the lazily filled CRC table | `encodeFrame`, `feed`, `sendAll`, `recvSome` | TCP cuts the stream anywhere; the header is trusted before its CRC is checked |
| **Backends** (`backends/*`) | the synthetic scan, NVML's device count | `capabilities`, `scan` | a scan takes time, may fail, and may be out of date when applied |

Interaction: the handler thread of a connection calls the coordinator's registry
(`applyBulk`, `publishMeasurement`, `route`, `invalidateForWorker`) for each frame
`feed` has put together, and saves it after a topology; the registry validates every candidate with the snapshot's `checkIntegrity`
and publishes a new snapshot; `route` runs `computeRoute` on the snapshot it took.
Threads meet in the registry's `shared_mutex`, in the coordinator's `authMutex_`
and `liveMutex_`, and, with no lock at all, in the state file and in `crc32`'s
table.

What makes each part correct: snapshots never dangle and generations never go
back (registry); a path found is real and no shorter one is lost (search); a
granted route is offered by its snapshot, and authority that was taken never
returns (route and registry together); evidence that counts as current has a live
publisher, across deaths, reconnects and restarts (coordinator); stop leaves
nothing running (its threads); frames arrive in order, whole or not at all, and an
answer is the answer to the query that waits (transport and worker); a saved state
can be read back (state file).

## 2. Modules

```
FabricTopology     records, integrity, path search, reachability, health  (operators)
  FabricBackends   synthetic scenarios, NVML scans                        (operators)
  TopologyCodec    the payload of a snapshot                              (operators)
  FabricRoute      computeRoute, routeDecisionStillAuthoritative          (operators)
    FabricRoute_proofs      what search and ranking return
    RouteCodec     policies and decisions on the wire                     (operators)
      FabricQueries  one snapshot, one query       -> MCQueries
        FabricQueries_proofs    (extends FabricRoute_proofs)
    FabricRegistry the registry                    -> MCRegistry
      FabricRegistry_proofs     (extends FabricRoute_proofs)
      Coordinator  connections, workers, restarts  -> MCCoordinator
        Coordinator_proofs      (extends FabricRegistry_proofs)
StateFile          serializeToFile against threads, disk errors and kills
  StateFile_proofs                         (Coordinator instantiates StateFile)
CoordinatorThreads start, stop, accept loop, handler threads, crc32's table
  CoordinatorThreads_proofs
FrameChannel       what one direction of a connection promises  (abstract)
FrameCodec         a frame and how feed judges its buffer                 (operators)
  FrameStream      sendAll, recvSome, feed; implements FrameChannel
    FrameStream_proofs
  WorkerSession    a worker and its handler        -> MCWorkerSession
                   (instantiates FrameStream for each direction)
    WorkerSession_proofs   (instantiates FrameStream_proofs for each direction)
```

**FabricTopology.** A snapshot is a record of five functions from ids to records.
A record keeps what some guard reads: state, generation, provenance, owner
(`workerKnown`, `worker`, `workerBoot` as one value, `NoOwner` when unknown), the
ends of a link, members and switches of a partition, `portCount`. `Gens` is
`0 .. U64 - 1` and `NextGen` wraps, so overflow is in reach of small instances.
`AllPaths` is the breadth-first frontier of `enumeratePaths` written level by
level as a recursive function: the code's queue is first in, first out, so the
paths of a level come out in the order of their parents. `EdgeBefore` is the order
of the adjacency lists, and `InEdgeOrder` the sorted list of the edges the search
takes from a node. Partition ids are numbers because the code depends on the
map's order (the last matching partition wins).

**FabricBackends.** `buildSyntheticScan` gives, scenario by scenario, the port
counts of the switches and the wires; `Wired` makes the records of it. The runs
take their fabrics from here, so they are the ones the program's own worker
publishes. The NVML backend sees devices only.

**TopologyCodec, RouteCodec.** A payload is a sequence of fields in the order the
code writes them; the decoders take it apart field by field, with the code's
counts, limits, duplicate checks and end test. The bytes of a field are left out.

**FabricRoute.** `GateOutcome` is the chain of early returns, `RouteTraversal` the
bounds taken from the policy, `Eligible` the hard filters, `RankKey` what the
comparator reads of a candidate (its factors and its canonical key), `RanksBefore`
the comparator, `BestPath` the front of the sorted list, `Granted` the decision with
its captured generations. Doubles are integers. `StillAuthoritative` has one conjunct
for endpoints, partition, switches and ports. Explanations and rejected
candidates are left out. The test for UNSUPPORTED endpoints (`route.cpp:149`) is
not modelled: the two lines before it already return.

**FabricRegistry.** Variables are the members of the class; `callers` holds the
progress of each thread inside `route` or `scanBackend`. One action per mutation;
each ends in `Commit`, which is `validateCandidate`, `finalizeProvenance` and the
publication. An operation that returns an error without changing anything is not
enabled. `RouteSnapshot`, `RouteCompute`, `RouteLog` are the three critical
sections of `route`; `ScanStart`, then `ScanApply` or `ScanFails`, the two ends of
`scanBackend`.
`revoked` is a history variable: the (entity, generation) pairs from which an
operation took authority: a state that is a failure, a restart, a fencing, a
partition change or a stale mark. It forgets an entity that is removed.

**FabricQueries.** One snapshot of a family and one query, compared with reference
definitions that know nothing of the search: the set of walks over injective
sequences of switches, with one usable link for each hop; or one transfer of the
snapshot, or of a query, through its encoding.

**StateFile.** One action per system call of `writeFileAtomic`: opening and
truncating, closing, removing, renaming; `DiskFails` is an open or a write that
fails, which nobody notices; `Killed` is the death of the process. `trouble` is a
history of what went wrong since the last call that ran alone and whole. The
file system is that of the supported build (README: MSVC): an open file cannot be
renamed and a rename does not replace. A file is a snapshot or `Torn`; magic,
version and the two CRCs of `deserialize` tell the two apart. `mixed` marks calls
that had `path.tmp` open together; what such a call leaves is either outcome.

**Coordinator.** Extends the registry: its callers are the connection slots. A
connection has the peer's identity and epoch, the frames not yet handled, the
identity it registered (`owner`), and whether the peer has gone, waits for an
answer, or its handler is saving. `HandleRegister`, `HandlePublish` (with
`Stamped`, then `SaveSnapshot` and the steps of the state file),
`HandleMeasurement`, `HandleQuery` / `ComputeAnswer` / `SendAnswer`, `LeaveLoop`
(fencing) and `Release` are `handleConnection`; `Disconnect` is the worker's death,
which may lose the frames not received yet; `Restart` is a kill followed by
`coordinatorMain`: restore, expire, start. `unfenced` is a history variable: the
incarnations whose fencing `invalidateForWorker` refused, as it does when one of
their records has the largest generation. HELLO and PING change nothing.

**CoordinatorThreads.** The same process seen from its threads: `start`, the steps
of `stop` (`StopBegin` to `StopJoin`), `acceptLoop` (`AcceptTest`, `AcceptOne`,
`PushLive`, `Spawn`, and the ways it ends) and `handleConnection` reduced to where
it blocks (`HandlerRecv`, `HandlerSent`) and what it does on its way out (`Fence`,
`EraseLive`, `HandlerClose`). A socket is open or not; closing it wakes whoever is
blocked on it, as on the supported build. `Crc32Fill` is the race on the table:
each thread that finds the flag unset fills all of it, entry by entry.

**FrameCodec, FrameStream, WorkerSession.** A unit of the stream stands for a
header field, a payload byte or a CRC. `Recv`, `ParseFrame`, `ParseWait` and
`ParseError` are the turns of `feed`; the coordinator acts on every frame (`Take`),
`recvFrame` on the first one only (`TakeFront`). `WorkerSession` joins two streams:
the worker's calls, `HandlerTake` with its answers, resets and a `Fault` that
replaces a unit on the wire. `Coordinator` takes from it what it assumes of its
connections: whole frames, in order, that may end early.

## 3. Runs

Passing runs:

| Run | Shows | Instance and why it is enough |
|---|---|---|
| `life` | snapshots never dangle (`Integrity`), removals cascade far enough (`CascadesSuffice`), no step lowers a generation (`GenerationsMonotone`) | two switches, one device, two links (one between the switches), one partition, five mutations from the empty registry; `U64` = 6, so restarts reach the last generation and wrap; ports at their limit; bulk edits owned by a worker that is fenced |
| `auth` | what a route grants is a path its snapshot offers (`RouteSound`); a decision that rests on a revoked generation never has authority again (`RevokedNeverAuthoritative`), because that generation is behind (`RevokedBehind`); bounds of the logs (`TypeOK`) | the scenario with one switch between two devices, inside a partition, four mutations: enough to publish, fail, bring back and change again around the three steps of one route call, or around the two ends of a scan of the synthetic backend or of NVML, which may fail |
| `queries` | `PathsSound`, `TruncationKeepsShortest`, `RouteShortest`, `RedundancySurvives`, `ReachabilityHonest`, `HealthyMeansNoFailure`, `QueryTypeOK`; `PayloadWholeOrRefused` and `RemoteRouteAgrees` | every synthetic scenario and an NVML scan, each whole, owned by a worker, and with every single switch, port or link down or stale; meshes, lines and stars of up to three switches, with parallel links, missing, degraded and failed links, ports and switches; path bounds 1, 2, 3 and 8 with every depth from 1 to 3, hop limits 1, 2, 6 and the largest integer; disjoint, overlapping and one-sided partitions; payloads cut at every field |
| `statefile` | torn files need overlapping calls or a failing disk (`TornNeedsTrouble`); a call that ran alone is durable except in the window between remove and rename, and the file is never older than it (`SerialDurable`); `FileTypeOK` | two threads, two contents, any number of saves, disk failures and kills |
| `fence` | the connection limit holds (`CoordTypeOK`), one connection per incarnation (`UniqueIncarnation`), current evidence has a live publisher (`OwnersLive`), no publication brings revoked authority back (`RevokedNeverAuthoritative`), ids are distinct across handlers (`DecisionIdsDistinct`) | two incarnations of a worker, three connections of which `kMaxConnections` = 2 fit, three frames in any order, deaths with frames in flight; a topology may carry the largest generation, where fencing is refused: `OwnersLive` exempts the incarnations this happened to (`unfenced`), whoever comes to own that record later; slots are symmetric |
| `live` | after a kill and restart at any point, of a save too: what is on disk restores (`RestoreValid`), nothing restored counts as current (`OwnersLive`), a dead worker's evidence is eventually fenced (`DeadWorkerFenced`), a registered worker's query is eventually answered (`QueryAnswered`) | `CoordFairSpec`, two incarnations, two connections at a time, one restart, each with either epoch, no symmetry; the fabric published has a partition in place of links, since liveness does not depend on the answer |
| `frames` | both directions implement `FrameChannel` (`StreamsInOrder`); an answer belongs to the query that gets it (`AnswersMatch`); without corruption every request arrives (`RequestsArrive`) and every query of a registered worker returns (`QueryReturns`); `recvFrame` drops nothing (`SessionTypeOK`) | HELLO, REGISTER and two calls; every way to cut the stream, a receive buffer smaller than two frames, a reset at any point, one corrupted unit: a wrong magic, type or length, or a length over the limit; the frames are exactly the `Messages` of a worker and its handler |
| `threads` | stop returns (`StopReturns`) with nothing left running, open or unfenced (`StopComplete`), no socket is closed twice (`ClosedOnce`), the limit holds (`ThreadsTypeOK`), a peer is accepted or turned away (`ConnectServed`), `crc32` never computes with a partial table (`CrcTableWhole`) | one start, more connections than the limit, a failing accept, after which `ConnectServed` promises nothing, a CRC table of one entry, peers that talk, fall silent or go; deadlock is checked; more starts and larger tables are left to the proofs, for safety |

Bounds: `MaxVersion`, `MaxDecisions` (registry), `MaxAccepts`, `MaxFrames`,
`MaxInbox`, `MaxRestarts` (coordinator), `MaxCalls`, `MaxFaults` (session) and
`MaxConns`, `MaxStarts`, `MaxAcceptErrors` (threads) stop counters that the code leaves
unbounded; the `kMax...` constants are the code's own limits, made small.
`CHECK_DEADLOCK FALSE` wherever those bounds let the system come to rest; the
state file and thread runs need no such exception and check deadlock.

Fairness: weak fairness of each handler thread. The code justifies it: the
operating system schedules every thread, the locks are held for bounded work and
never nested the other way round, and a handler blocks only in `recv`, which is
the case in which `Handler(c)` is not enabled (no frame and no end of stream).
Workers, kills and restarts have no fairness. `sendAll` to a peer that stops
reading without closing could block; in `Coordinator` the peer reads or goes. In
`CoordinatorThreads` such a peer exists, and stop must return all the same; there
the accept thread, each handler and the caller of stop are weakly fair, peers and
failing accepts are not. In `WorkerSession` the worker's and the handler's threads
are weakly fair and the network delivers what they send; calls, closing and faults
are not fair.

Runs that show a disagreement between code and documentation:

| Run | Documentation | Code |
|---|---|---|
| `stale_partition` | README: "A stale partition observation fails closed." | when all partitions are stale the gate is skipped and the route granted |
| `stale_boot` | `coordinator.h`: a stale boot "cannot mutate state" | only REGISTER looks at the boot; the older connection goes on publishing |
| `save_durable` | README: "durable ... knowledge; conservative recovery" | remove then rename through a shared `path.tmp` |
| `partition_gate` | comment at `topology.cpp:250`: "if there is an active partition containing src, dst must be a member of the same partition, otherwise blocked" | `deviceReachability` compares partitions only when both devices are in one, so a device outside all of them is reachable |

Smaller disagreements met while modelling, which have no run:

- `computeRoute` asks for at most `maxAllowedHops + 1` paths and filters those
  (`route.cpp:184`), so an eligible path behind dead ones may not be seen although
  "Hard filters run first". `RouteShortest` is therefore about searches that did
  not reach the bound, and `RedundancySurvives` about one failure. For the largest
  `maxAllowedHops` the bound wraps to 0 and no route is ever granted.
- The measured factors are the same for every path of a pair (`bestFor`,
  `route.cpp:275`), so throughput and latency rank nothing, although the README
  (139-140) says that eligible candidates are ranked by "measured throughput/latency".
  `DecisionAlike` in `FabricRoute_proofs` shows for every fabric and policy that two
  logs lead to the same outcome and path.
- `routeDecisionStillAuthoritative` compares no links (`route.cpp:325`), so a route
  keeps its authority when its link goes down, against the comment in `route.h`.
- `applyBulk` replaces a partition under the same generation
  (`fabric_registry.cpp:414`), although "a changed membership/state must advance
  the gen."; routes granted before keep their authority.
- Fencing a worker one of whose records has the largest generation is refused as a
  whole, and the refusal is discarded (`coordinator.cpp:222`).
- In overlapping partitions `deviceReachability`, which remembers the last partition
  of each device, may say PARTITION_BLOCKED for a pair that `computeRoute` grants.
  The run `queries` has such fabrics; no property says that the two agree, and
  `ReachabilityHonest` demands reachability only of devices in the same partitions.
- `deviceReachability` does not ask whether a device is present, although its first
  comment (`topology.cpp:220`) says that both endpoints must be.
- `feed` waits for a whole frame before it checks the header's CRC
  (`transport.cpp:102`); a corrupted length leaves both sides waiting, with no
  timeout. `decodeFrame` checks in the other order.
- A query with more than 24 factors, or from a worker whose registration was
  refused, is never answered.
- An accept that fails ends the accept loop while the coordinator stays up;
  `kMaxThreads` is used nowhere and `threads_` grows until stop.
- The path search ignores the state of switches, so `deviceReachability` may say
  REACHABLE through a DOWN switch, although the README (104-105) says
  that "Reachability accounts for endpoint, switch, port/link, partition, and topology
  generations, operational state"; `computeRoute` filters such paths afterwards.
- The port by which a path enters a switch is tested for staleness only
  (`route.cpp:219`); `RouteSound` speaks of outgoing ports.
- `fabricHealth` looks at no link, though the README lists degraded links.
- `publishPartition` computes `max + 1`, which wraps to 0 for the largest
  generation and passes validation over a stored 0; hence `Headroom` below.
- `restoreFromAndRevalidate` does not advance the epoch its comment speaks of.

Every property has a mutant: a definition next to the one it replaces, marked
"Defect" and named `<definition>_<what is wrong>`, under which TLC finds the
property violated.

## 4. Proofs

All theorems hold for every value of the constants that satisfies the named
assumptions of the modules: ids and port indexes are finitely many, as
fixed-width integers are; the width of a generation leaves room for more than two
values (`WidthAssumption`); what callers, workers and backends hand in is typed
and otherwise arbitrary.

**FabricRoute_proofs.** What `enumeratePaths` and `computeRoute` return on a typed
snapshot that passed `checkIntegrity`. The search is a recursive function bound by
a LET; `EnumeratedOK` first shows that the function over the levels exists and then,
by induction over the levels, that every prefix in the frontier is a walk over
links of the snapshot that enters no switch twice, and that no two of a level are
alike, because each adjacency list holds an edge once and `FlattenSeq` keeps the
lists apart. Completeness is the converse, by the same induction: `Follows` says that
a prefix takes the first switches of a given walk, `PrefixFound` that each level holds
the prefix that does, `EndFound` that the level after the last switch completes it,
and `AllFound` that the walk is among the paths, unless the depth ends before it.
`RanksOrdered` shows that the comparator is a strict order on the candidates (the
canonical key breaks every tie), so `BestChosen`: there is a best candidate, and it is
one of them. `BestAlike`: measured rates are the same for all
candidates of a pair and move nothing. `DecisionMade` puts these together for
`computeRoute`: which outcome it reports, and that a granted route is the best of the
candidates; `DecisionSound` and `DecisionAlike` follow. Two induction principles are
proved from the library's well-foundedness of the numbers, with the property given as a
set.

**FabricRegistry_proofs.** `TypeCorrect`, `IntegrityCorrect`,
`GenerationsNeverDecrease`, `DecisionIdsUnique`, `CascadesErasedEnough`,
`GrantedRoutesSound` and, under `Headroom`, `RevokedStaysBehind` and
`RevocationIsFinal`. The inductive invariant `RegInv` has three parts: `SnapshotOK`
(the current snapshot is well-typed, passes `checkIntegrity` and, under `Headroom`,
every revoked generation is behind), `LogsOK` (types and bounds of the counters and
logs) and `IdsOK` (ids in the log and in calls are below the counter, and
`DecisionIdsDistinct`). `DecisionIdsDistinct` alone is not inductive: nothing in it
says that the next id is new. Every mutation ends in `Commit`; `CommitSound` proves
once that publishing a well-typed edit keeps `SnapshotOK` and lowers no generation,
and one lemma per operation shows that its edit is well-typed.

`CascadesErasedEnough` needs the counts in `SnapshotOK`: a removal leaves fewer
records, so it stays within the limits, and what it leaves refers to nothing that
went. `GrantedRoutesSound` is about three steps of `route` with other threads'
mutations between them: `CallsOK` says that the snapshot a call holds was valid when
it was taken, and that a decision computed from it is offered by it; a snapshot is
never changed, so no mutation can disturb this. `RevocationIsFinal` follows from
`RevokedBehind`: an operation that takes authority from generation g publishes
g + 1, validation refuses to go back, and `StillAuthoritative` wants the captured
generation itself. `Headroom` says that no caller publishes a partition with the
largest generation; without it the wrap described above breaks the invariant.

**FabricQueries_proofs.** `QueryTypeCorrect`, `EnumeratedPathsSound`,
`RemoteAnswerAgrees`, `HealthAgreesWithReachability` and,
since the search misses nothing, `ShortestPathsKept`, `ReachabilityIsHonest`,
`RoutesAreShortest` and `RedundancyIsKept`; and `PayloadsArriveWhole`.
The properties read a state that holds a query and its answer; `AnswerInv` says that
the answer is what the function returns for the arguments of the query, and the rest
is `FabricRoute_proofs`, or, for `HealthAgreesWithReachability`, that
`deviceReachability` blames a switch or a port only for a state `fabricHealth`
reports. `RemoteAnswerAgrees` follows a
policy and a decision through their encodings: a policy `decode` accepts is the one
that was sent, and the worker reads a selected path exactly where one was selected,
since the canonical key of a path is never empty.
`ArgumentAssumption` types the arguments.

`ShortestPathsKept` to `RedundancyIsKept` compare the search with the walks. `PathsAreWalks` and `WalkFound` make
the paths of a search without a bound and the walks correspond one to one (`WalkTaken`,
`SameWalk`): a path takes one walk, and `AllFound` finds each walk. Hence
`EnumeratedComplete`: `enumeratePaths` returns as many paths as there are walks, or as
many as its bound allows, and none of those left out is shorter than one returned.
`ReachabilityIsHonest` adds what `deviceReachability` makes of the states of links
(`StateOfWalk`) and partitions (`LastInside`: it keeps the last of those a device is
in, so devices in the same partitions keep the same one). `RoutesAreShortest` follows a walk
through the bounds of the policy, the hard filters and the ranking: an `EligibleWalk`
within bounds that were not reached is a candidate, and no candidate ranks before the
one chosen. `RedundancyIsKept` is a count: two switches that join a pair give two walks
of one hop; one failure breaks at most one of them (`OneFailure`); the search looks at
`maxAllowedHops + 1` >= 2 paths, shortest first, so both are among them. Two assumptions
are for these theorems: a snapshot has finitely many partitions, and
`kMaxCandidatePaths` is at least 2 (`limits.h`: 65536).

`PayloadsArriveWhole` proves that `decodeTopologyPayload` undoes
`encodeTopologyPayload`, for every snapshot and wherever its payload is cut. It is
built from below. `OwnerWritten`, `EndWritten` and `ListWritten` read back the parts of
a record, and one lemma per record type (`DeviceReadsBack` to `PartitionReadsBack`)
the record: a decoder that looks at any start of it, and at whatever follows, takes
exactly its fields or finds that they have not all arrived. The length of a partition
depends on two counts inside it, which may be cut off themselves. `KeysListed` says
that a map is written in the order of its keys, each once, so that the decoder never
finds a key twice, and `FlattenLayout` where each record starts. `MapRead` is the
induction over the records of a map: after i of them the reader stands where the i-th
ends, with the first i keys, or has overrun. `PayloadReads` follows the five maps and
ends with the tests that nothing is left and that `checkIntegrity` holds.
`TransferAssumption` says that a snapshot that is encoded is within the limits on the
numbers of entities; the registry publishes no other (`validateCandidate`), and a
decoder refuses what exceeds them.

**StateFile_proofs.** `FileTypeCorrect`, `TearingNeedsTrouble` and
`SerialSavesDurable`, from the invariant `FileInv`: the types, `CleanInv` (a
clean call, alone and with a working disk, is the only one inside; its snapshot
is in `path.tmp` once written, and `path` is absent once removed) and
`TroubleInv` (without overlap or disk failure every call is clean, the file is
not torn and, unless the process was killed between remove and rename, it is
the last saved snapshot or a call is between the two). Neither property is
inductive alone: what rename installs is what `path.tmp` held steps before.

**Coordinator_proofs.** `CoordTypeCorrect`, `IncarnationsUnique`,
`EvidenceHasLiveOwner`, `RestoreSucceeds`, and the registry's `AnswerIdsUnique`,
`AnsweredRoutesSound` and, under `Headroom`, `WorkersRestoreNoAuthority` for the
registry that handlers share and restarts replace. `CoordInv` has a part for each
thing they share:

- `BootInv`: types of connections and boot maps with `UniqueIncarnation`, whose last
  conjunct (a serving connection with the highest boot holds the active boot) makes
  it inductive.
- `RouteInv`: a handler inside `route` is served and has its frame still before it,
  so that nothing else of that connection happens meanwhile.
- `LiveInv`: the limit on connections, for any finite set of slots.
- `EvidenceInv`: the snapshot is valid and the owner of each record that counts as
  current is served, or is exempt (`OwnersLive`). Publishing stamps the records with
  the publisher, which is served; fencing happens in the step in which the handler
  stops serving its owner and, by `UniqueIncarnation`, no other handler serves it. The
  exemption must be a history of refusals (`unfenced`): the record with the largest
  generation, which made the registry refuse, may since have been taken over by another
  incarnation, and the others of the dead one stay current.
- `DiskInv`: `path`, `path.tmp` and the calls inside `serializeToFile` hold snapshots
  that passed validation, or are torn. Hence `RestoreSucceeds`: restoring over the
  empty registry and expiring are valid edits: the snapshot was whole, the empty
  registry has no generation to go below, expiry changes states only, and the topology
  generation, which starts at 0, can advance twice (this is what `U64 > 2` is for).

`CoordinatorAssumption` wants room for the two mutations of a restart.
`SharedRegistryInvariance` carries `RegInv` over to `CoordSpec`, and `CallsShared`
`CallsOK`: each handler step is a registry operation, a stutter of the registry, or a
restart, which establishes both anew.

**CoordinatorThreads_proofs.** `ThreadsTypeCorrect`, `StopLeavesNothing`,
`SocketsClosedOnce` and `CrcTableIsWhole`, for any number of connections. In
`ThreadsInv`, `StagesInv` says what the accept loop can still do at each stage of
stop, `SocketsInv` which thread a socket belongs to, `JoinableInv` that every running
handler is in `threads_` or in the list stop is joining, `CrcInv` that whoever fills
the table has filled all below its index, `LimitInv` that there is room between the
test of the limit and the push. `StopComplete` alone is not inductive: it speaks of
the end, and depends on what stop had waited for.

**FrameStream_proofs.** `StreamImplementsChannel`: one direction implements
`FrameChannel`, for all frames, buffer sizes, cuts and corruptions. The invariant
`StreamInv` says that there is a layout, the place in the stream where each frame
starts, under which buffer, wire and unsent rest, joined, are unit by unit the
encodings of the frames not parsed yet, or garbage, until the receiver has seen an
error. A frame that `feed` accepts in spite of garbage has the right CRC, and so is
the frame that was sent. `CodecAssumption` says that garbage is no CRC.

**WorkerSession_proofs.** `SessionImplementsChannels` instantiates that proof for
both directions; the steps of worker and handler are steps of the two streams.
`NothingDropped` and `AnswersAreOwn` need `OneUnderWay`: at most one query is waiting
or has its answer under way, and when a query failed no answer comes any more, so
that the next call cannot read a late one.

Model-checked only:

- liveness (`DeadWorkerFenced`, `QueryAnswered`, `RequestsArrive`, `QueryReturns`,
  `StopReturns`, `ConnectServed`): fairness is out of the prover's reach.

Every safety invariant and action property of a passing run is proved.

## 5. Not modelled

- Bytes: integers and strings are single fields, CRC32 is collision free, and a
  file whose magic, version or CRC is wrong is torn.
- Name resolution, `listen` and Winsock initialisation (`transport.cpp`), HELLO and
  PING (no state), `decodeFrame` (used by tests only).
- NVML itself and CUDA measurement (`cuda_measurement.cpp`, `cuda_kernel.cu`):
  hardware access without protocol state.
- Texts: explanations, rejection reasons, health observations; time stamps.
- `error.h`, `version.h`: values. Command line tools, examples, benchmarks, tests:
  callers without state of their own.

## 6. Plan

Done: topology, routes and registry; backends; state file and codecs; coordinator,
workers and restarts; threads; frames and sessions; queries against reference
definitions; by proof, the safety of the registry, the file, the coordinator, its
threads, the streams and the sessions, the soundness and completeness of search and
ranking, and the transfer of a snapshot through its payload.
To do:

- An abstract specification of authority (entities with a generation and a set of
  grants; failing an entity withdraws its grants) that `FabricRegistry`
  implements, by proof.
