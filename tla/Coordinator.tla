---------------------------- MODULE Coordinator -----------------------------
(***************************************************************************)
(* The coordinator process (coordinator.h, coordinator.cpp) around its     *)
(* registry: the accept loop, one handler thread per connection, the boot  *)
(* numbers that fence worker incarnations, the state file, and being       *)
(* killed and started again.  The peers are what worker.cpp makes of them: *)
(* a worker registers once when it connects, then sends frames, and waits  *)
(* for the answer to a route query before it sends anything else.          *)
(*                                                                         *)
(* Callers are connection slots: a slot is the handler thread of one       *)
(* connection at a time.  TCP delivers the frames of a connection in       *)
(* order, up to the last one received before a worker died; PING, HELLO    *)
(* and frames that do not decode change nothing and are left out.          *)
(***************************************************************************)
EXTENDS FabricRegistry

CONSTANTS
    kMaxConnections,
    NoFile, Torn,        \* see StateFile
    MaxInbox,            \* bound on the frames in flight on a connection
    MaxAccepts,          \* bound on the connections accepted
    MaxFrames,           \* bound on the frames sent after registration
    MaxRestarts          \* bound on how often the process is killed

ASSUME CoordinatorAssumption ==
    /\ kMaxConnections \in Nat /\ MaxInbox \in Nat /\ MaxAccepts \in Nat
    /\ MaxFrames \in Nat /\ MaxRestarts \in Nat
    /\ NoFile # Torn
    /\ IsFiniteSet(Callers)
    /\ MaxVersion >= 2                     \* a restart mutates twice

VARIABLES
    conns,               \* the connections: socket, peer and handler locals
    maxBoot,             \* maxBoot_: the highest boot seen of each worker
    activeBoot,          \* activeBoot_: the boot of its active connection
    unfenced,            \* history: the incarnations whose fencing was refused
    file, tmp, writers, saved, trouble,
    accepted, sent, restarts

Disk == INSTANCE StateFile WITH Writers <- Callers, Contents <- {}

diskVars  == <<file, tmp, writers, saved, trouble>>
bootVars  == <<maxBoot, activeBoot, unfenced>>
boundVars == <<accepted, sent, restarts>>
coordVars == <<regVars, conns, bootVars, diskVars, boundVars>>

\* phase "open": the handler reads frames; "fenced": it has left the loop and
\* revoked, but its socket still counts as live.
Closed == [phase |-> "closed", peer |-> NoOwner, epoch |-> 0, owner |-> NoOwner,
           inbox |-> <<>>, gone |-> FALSE, waiting |-> FALSE, saving |-> FALSE]

CoordInit ==
    /\ RegInit
    /\ conns = [c \in Callers |-> Closed]
    /\ maxBoot = EmptyMap
    /\ activeBoot = EmptyMap
    /\ unfenced = {}
    /\ Disk!FileInit
    /\ accepted = 0 /\ sent = 0 /\ restarts = 0

Live == {c \in Callers : conns[c].phase # "closed"}

-----------------------------------------------------------------------------
(* The peers. *)

Register == [type |-> "REGISTER"]
Frames ==
    {[type |-> "PUBLISH_TOPOLOGY", topo |-> e] : e \in BulkEdits}
    \cup {[type |-> "PUBLISH_MEASUREMENT", measurement |-> m] : m \in MeasurementInputs}
    \cup {[type |-> "QUERY_ROUTE", pair |-> q, policy |-> p] : q \in Queries, p \in Policies}

\* acceptLoop and Worker::connect; a connection over the limit is closed
\* again at once.
\*
\* Defect: it is not.
Accept_NoLimit(c, peer, ep) ==
    /\ accepted < MaxAccepts
    /\ conns[c].phase = "closed"
    /\ conns' = [conns EXCEPT ![c] =
          [Closed EXCEPT !.phase = "open", !.peer = peer, !.epoch = ep, !.inbox = <<Register>>]]
    /\ accepted' = accepted + 1
    /\ UNCHANGED <<regVars, bootVars, diskVars, sent, restarts>>

Accept(c, peer, ep) ==
    /\ accepted < MaxAccepts
    /\ conns[c].phase = "closed"
    /\ Cardinality(Live) < kMaxConnections
    /\ conns' = [conns EXCEPT ![c] =
          [Closed EXCEPT !.phase = "open", !.peer = peer, !.epoch = ep, !.inbox = <<Register>>]]
    /\ accepted' = accepted + 1
    /\ UNCHANGED <<regVars, bootVars, diskVars, sent, restarts>>

\* The peer waits for the answer to a query.
Queued(conn, f) == [conn EXCEPT !.inbox = Append(@, f), !.waiting = f.type = "QUERY_ROUTE"]

Send(c, f) ==
    /\ sent < MaxFrames
    /\ conns[c].phase = "open" /\ ~ conns[c].gone /\ ~ conns[c].waiting
    /\ Len(conns[c].inbox) < MaxInbox
    /\ conns' = [conns EXCEPT ![c] = Queued(@, f)]
    /\ sent' = sent + 1
    /\ UNCHANGED <<regVars, bootVars, diskVars, accepted, restarts>>

\* The end of the stream after n more frames.
HungUp(conn, n) == [conn EXCEPT !.gone = TRUE, !.waiting = FALSE, !.inbox = SubSeq(@, 1, n)]

\* The worker dies or closes its socket; a reset loses the frames that have
\* not been received yet.
Disconnect(c) ==
    /\ conns[c].phase = "open" /\ ~ conns[c].gone
    /\ \E n \in 0 .. Len(conns[c].inbox) :
          /\ callers[c] # Idle => n > 0
          /\ conns' = [conns EXCEPT ![c] = HungUp(@, n)]
    /\ UNCHANGED <<regVars, bootVars, diskVars, boundVars>>

-----------------------------------------------------------------------------
(* handleConnection. *)

Busy(c) == callers[c] # Idle \/ conns[c].saving

Receives(c, type) ==
    /\ conns[c].phase = "open" /\ ~ Busy(c)
    /\ conns[c].inbox # <<>> /\ Head(conns[c].inbox).type = type

Done(conn) == [conn EXCEPT !.inbox = Tail(@)]

Registered(c) == conns[c].owner # NoOwner

\* A stale epoch, a boot below the highest seen and a second active
\* incarnation are refused.
\*
\* Defect: a second active incarnation is not.
Admitted_Duplicate(peer, ep) ==
    ep >= epoch /\ (peer[1] \in DOMAIN maxBoot => peer[2] >= maxBoot[peer[1]])

Admitted(peer, ep) ==
    /\ ep >= epoch
    /\ peer[1] \in DOMAIN maxBoot => peer[2] >= maxBoot[peer[1]]
    /\ peer[1] \in DOMAIN activeBoot => activeBoot[peer[1]] # peer[2]

HandleRegister(c) ==
    /\ Receives(c, "REGISTER")
    /\ LET w == conns[c].peer[1]
           b == conns[c].peer[2]
       IN  IF Admitted(conns[c].peer, conns[c].epoch)
             THEN /\ maxBoot' = Put(maxBoot, w, b)
                  /\ activeBoot' = Put(activeBoot, w, b)
                  /\ conns' = [conns EXCEPT ![c] = [Done(@) EXCEPT !.owner = conns[c].peer]]
                  /\ UNCHANGED unfenced
             ELSE /\ conns' = [conns EXCEPT ![c] = Done(@)]
                  /\ UNCHANGED bootVars
    /\ UNCHANGED <<regVars, diskVars, boundVars>>

\* decodeTopology: a topology of its own, whole and within the limits.
Decodes(e) ==
    LET t == [InitialTopology EXCEPT !.devices = e.devices, !.switches = e.switches,
                 !.ports = e.ports, !.links = e.links, !.partitions = e.partitions]
    IN  CheckIntegrity(t) /\ WithinLimits(t)

\* applyWorkerTopology makes the connection's worker the owner of all records.
Stamped(e, owner) ==
    LET Own(m) == [x \in DOMAIN m |-> [m[x] EXCEPT !.owner = owner]]
    IN  [devices |-> Own(e.devices), switches |-> Own(e.switches), ports |-> Own(e.ports),
         links |-> Own(e.links), partitions |-> Own(e.partitions)]

\* The topology is saved whether or not the registry took it.
HandlePublish(c) ==
    /\ Receives(c, "PUBLISH_TOPOLOGY")
    /\ LET e == Head(conns[c].inbox).topo
           cand == BulkTopology(current, Stamped(e, conns[c].owner))
           heard == Registered(c) /\ conns[c].epoch = epoch /\ Decodes(e)
       IN  /\ IF heard /\ ValidateCandidate(cand)
                THEN Commit(cand, NothingRevoked)
                ELSE UNCHANGED snapshotVars
           /\ conns' = [conns EXCEPT ![c] = [Done(@) EXCEPT !.saving = heard]]
    /\ UNCHANGED <<epoch, measureVars, logVars, callVars, bootVars, diskVars, boundVars>>

\* persistTo: another handler may mutate the registry before the snapshot is
\* taken, and save at the same time.
SaveSnapshot(c) ==
    /\ conns[c].saving /\ Disk!Serialize(c, current)
    /\ UNCHANGED <<regVars, conns, bootVars, boundVars>>

SaveStep(c) ==
    /\ conns[c].saving /\ Disk!SaveStep(c)
    /\ conns' = [conns EXCEPT ![c].saving = writers'[c].pc # "idle"]
    /\ UNCHANGED <<regVars, bootVars, boundVars>>

HandleMeasurement(c) ==
    /\ Receives(c, "PUBLISH_MEASUREMENT")
    /\ IF Registered(c) /\ conns[c].epoch = epoch
         THEN PublishMeasurement([Head(conns[c].inbox).measurement EXCEPT
                  !.id = 0, !.owner = conns[c].owner, !.kind = "SYNTHETIC_FIXTURE"])
         ELSE UNCHANGED regVars
    /\ conns' = [conns EXCEPT ![c] = Done(@)]
    /\ UNCHANGED <<bootVars, diskVars, boundVars>>

\* An unregistered peer gets no answer.
\*
\* Defect: neither does a query for devices that are not known.
HandleQuery_DropsUnknown(c) ==
    /\ Receives(c, "QUERY_ROUTE")
    /\ LET f == Head(conns[c].inbox)
       IN  IF Registered(c) /\ f.pair[1] \in DOMAIN current.devices
             THEN RouteSnapshot(c, f.pair[1], f.pair[2], f.policy) /\ UNCHANGED conns
             ELSE UNCHANGED regVars /\ conns' = [conns EXCEPT ![c] = Done(@)]
    /\ UNCHANGED <<bootVars, diskVars, boundVars>>

HandleQuery(c) ==
    /\ Receives(c, "QUERY_ROUTE")
    /\ IF Registered(c)
         THEN LET f == Head(conns[c].inbox)
              IN  RouteSnapshot(c, f.pair[1], f.pair[2], f.policy) /\ UNCHANGED conns
         ELSE UNCHANGED regVars /\ conns' = [conns EXCEPT ![c] = Done(@)]
    /\ UNCHANGED <<bootVars, diskVars, boundVars>>

ComputeAnswer(c) == RouteCompute(c) /\ UNCHANGED <<conns, bootVars, diskVars, boundVars>>

SendAnswer(c) ==
    /\ RouteLog(c)
    /\ conns' = [conns EXCEPT ![c] = [Done(@) EXCEPT !.waiting = FALSE]]
    /\ UNCHANGED <<bootVars, diskVars, boundVars>>

\* Fencing advances the generations of an incarnation's records; one that is
\* at the largest uint64_t wraps to 0, validation refuses the fencing, and the
\* handler discards the error.
Exhausted(m, o) == \E x \in OwnedBy(m, o) : m[x].gen = U64 - 1

Unfenceable ==
    {o \in Workers \X Boots :
        \/ Exhausted(current.switches, o) \/ Exhausted(current.ports, o)
        \/ Exhausted(current.links, o) \/ Exhausted(current.partitions, o)
        \/ current.topologyGen = U64 - 1}

\* End of the stream: free the worker's boot, unless a newer incarnation has
\* taken it, and fence what this incarnation published.
\*
\* Defect: an incarnation that a newer one has replaced is not fenced.
LeaveLoop_ActiveOnly(c) ==
    /\ conns[c].phase = "open" /\ conns[c].gone /\ conns[c].inbox = <<>> /\ ~ Busy(c)
    /\ conns' = [conns EXCEPT ![c].phase = "fenced"]
    /\ LET o == conns[c].owner
           cand == FencedTopology(current, o)
       IN  IF Registered(c) /\ o[1] \in DOMAIN activeBoot /\ activeBoot[o[1]] = o[2]
             THEN /\ activeBoot' = Erase(activeBoot, {o[1]})
                  /\ unfenced' = IF o \in Unfenceable THEN unfenced \cup {o} ELSE unfenced \ {o}
                  /\ IF ValidateCandidate(cand)
                       THEN Commit(cand, FenceRevocations(current, o))
                       ELSE UNCHANGED snapshotVars
             ELSE UNCHANGED <<activeBoot, unfenced, snapshotVars>>
    /\ UNCHANGED <<epoch, measureVars, logVars, callVars, maxBoot, diskVars, boundVars>>

LeaveLoop(c) ==
    /\ conns[c].phase = "open" /\ conns[c].gone /\ conns[c].inbox = <<>> /\ ~ Busy(c)
    /\ conns' = [conns EXCEPT ![c].phase = "fenced"]
    /\ LET o == conns[c].owner
           cand == FencedTopology(current, o)
       IN  IF Registered(c)
             THEN /\ activeBoot' = Erase(activeBoot, {w \in DOMAIN activeBoot :
                                                        w = o[1] /\ activeBoot[w] = o[2]})
                  /\ unfenced' = IF o \in Unfenceable THEN unfenced \cup {o} ELSE unfenced \ {o}
                  /\ IF ValidateCandidate(cand)
                       THEN Commit(cand, FenceRevocations(current, o))
                       ELSE UNCHANGED snapshotVars
             ELSE UNCHANGED <<activeBoot, unfenced, snapshotVars>>
    /\ UNCHANGED <<epoch, measureVars, logVars, callVars, maxBoot, diskVars, boundVars>>

\* The socket leaves liveSocks_ and the thread ends.
Release(c) ==
    /\ conns[c].phase = "fenced"
    /\ conns' = [conns EXCEPT ![c] = Closed]
    /\ UNCHANGED <<regVars, bootVars, diskVars, boundVars>>

-----------------------------------------------------------------------------
(* The process is killed and started with epoch ep: restoreFromAndRevalidate *)
(* applies what the file holds and expires all of it that is dynamic.        *)

\* Defect: the devices are forgotten.
RestoredEdit_NoDevices(t) == [devices |-> EmptyMap, switches |-> t.switches, ports |-> t.ports,
                              links |-> t.links, partitions |-> t.partitions]

RestoredEdit(t) == [devices |-> t.devices, switches |-> t.switches, ports |-> t.ports,
                    links |-> t.links, partitions |-> t.partitions]

\* applyBulk on a new registry, then expireDynamicEvidence.
RestoredTopology(t, ep) ==
    LET bulk == PublishedAs(BulkTopology(InitialTopology, RestoredEdit(t)), 2, ep)
    IN  PublishedAs(ExpiredTopology(bulk), 3, ep)

Restart(ep) ==
    /\ restarts < MaxRestarts
    /\ restarts' = restarts + 1
    /\ epoch' = ep
    /\ IF Disk!Readable
         THEN /\ current' = RestoredTopology(file, ep)
              /\ nextSnapshotId' = 4 /\ version' = 2
         ELSE /\ current' = InitialTopology
              /\ nextSnapshotId' = 2 /\ version' = 0
    /\ revoked' = NothingRevoked
    /\ measurements' = <<>> /\ decisionLog' = <<>>
    /\ nextDecisionId' = 1 /\ nextMeasurementId' = 1
    /\ callers' = [c \in Callers |-> Idle]
    /\ conns' = [c \in Callers |-> Closed]
    /\ maxBoot' = EmptyMap /\ activeBoot' = EmptyMap /\ unfenced' = {}
    /\ Disk!Killed
    /\ UNCHANGED <<backend, accepted, sent>>

-----------------------------------------------------------------------------

Handler(c) ==
    \/ HandleRegister(c) \/ HandlePublish(c) \/ SaveSnapshot(c) \/ SaveStep(c)
    \/ HandleMeasurement(c) \/ HandleQuery(c) \/ ComputeAnswer(c) \/ SendAnswer(c)
    \/ LeaveLoop(c) \/ Release(c)

Peer(c) ==
    \/ \E p \in Workers \X Boots, ep \in Epochs : Accept(c, p, ep)
    \/ \E f \in Frames : Send(c, f)
    \/ Disconnect(c)

CoordNext ==
    \/ \E c \in Callers : Handler(c) \/ Peer(c)
    \/ \E ep \in Epochs : Restart(ep)

CoordSpec == CoordInit /\ [][CoordNext]_coordVars

\* Handler threads are scheduled by the operating system and no step of
\* theirs blocks for ever once a frame, or the end of the stream, has come.
CoordFairSpec == CoordSpec /\ \A c \in Callers : WF_coordVars(Handler(c))

-----------------------------------------------------------------------------
(* Properties. *)

\* Type correctness of the coordinator's own state.
CoordTypeOK ==
    /\ \A c \in Callers :
          /\ conns[c].phase \in {"closed", "open", "fenced"}
          /\ conns[c].peer \in Owners /\ conns[c].owner \in {NoOwner, conns[c].peer}
          /\ Len(conns[c].inbox) <= Larger(MaxInbox, 1)
    /\ IsMap(maxBoot, Workers, Boots) /\ IsMap(activeBoot, Workers, Boots)
    /\ Cardinality(Live) <= kMaxConnections

Serving(c) == conns[c].phase = "open" /\ Registered(c)

\* A worker incarnation is served by one connection at a time, its boot is
\* never above the highest seen, and it holds the active boot unless a newer
\* incarnation has taken over: whatever order connections register, fence and
\* close in.
UniqueIncarnation ==
    \A c \in Callers : Serving(c) =>
        LET w == conns[c].owner[1]
            b == conns[c].owner[2]
        IN  /\ \A k \in Callers \ {c} : Serving(k) => conns[k].owner # conns[c].owner
            /\ w \in DOMAIN maxBoot /\ b <= maxBoot[w]
            /\ b = maxBoot[w] => w \in DOMAIN activeBoot /\ activeBoot[w] = b

\* The incarnations whose evidence counts as current, and those served.
CurrentOwners(m) == {m[x].owner : x \in {y \in DOMAIN m : m[y].state # "REVALIDATION_REQUIRED"}}

EvidenceOwners ==
    (CurrentOwners(current.devices) \cup CurrentOwners(current.switches)
        \cup CurrentOwners(current.ports) \cup CurrentOwners(current.links)
        \cup CurrentOwners(current.partitions)) \ {NoOwner}

ServedOwners == {conns[c].owner : c \in {k \in Callers : Serving(k)}}

\* Evidence that counts as current has a live owner: what a worker published
\* needs revalidation as soon as no connection of that incarnation is left,
\* and after a restart until a worker publishes it again.  The exception is an
\* incarnation that held an exhausted generation when its handler ended, even
\* if another incarnation has overwritten the exhausted record since.
OwnersLive == EvidenceOwners \subseteq ServedOwners \cup unfenced

\* Whatever the state file holds, restoring it succeeds: neither applyBulk nor
\* expireDynamicEvidence, whose errors are ignored, refuses it.
RestoreValid ==
    Disk!Readable =>
        LET bulk == BulkTopology(InitialTopology, RestoredEdit(file))
        IN  ValidSuccessor(InitialTopology, bulk) /\ ValidSuccessor(bulk, ExpiredTopology(bulk))

\* When a worker has gone, all it published eventually needs revalidation,
\* unless its fencing was refused.
DeadWorkerFenced ==
    \A o \in Workers \X Boots :
        (\E c \in Callers : Serving(c) /\ conns[c].gone /\ conns[c].owner = o)
            ~> (o \notin EvidenceOwners \ unfenced)

\* A registered worker that asks for a route is answered, unless it goes or
\* the coordinator is killed first.
QueryAnswered ==
    \A c \in Callers : (conns[c].waiting /\ Registered(c)) ~> ~ conns[c].waiting

-----------------------------------------------------------------------------
(* What the documentation says and the code does not do. *)

\* Connection c changes the topology with a PUBLISH_TOPOLOGY frame.
Publishes(c) == ~ conns[c].saving /\ conns'[c].saving /\ current' # current

\* A boot lower than the highest seen cannot mutate state.
StaleBootSilenced ==
    [][\A c \in Callers : Publishes(c) =>
          conns[c].owner[2] >= maxBoot[conns[c].owner[1]]]_coordVars
=============================================================================
