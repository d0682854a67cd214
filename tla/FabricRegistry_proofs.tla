----------------------- MODULE FabricRegistry_proofs ------------------------
(***************************************************************************)
(* Proofs about the registry, for every value of its constants.            *)
(*                                                                         *)
(* RegInv is the inductive invariant: the snapshot is typed and whole, and *)
(* the revoked generations are behind (SnapshotOK); the logs are typed and *)
(* bounded (LogsOK); every decision id in use has been issued (IdsOK).     *)
(* All mutations publish through Commit, so the argument has two halves:   *)
(* CommitSound shows once that publishing a sound edit keeps SnapshotOK    *)
(* and lowers no generation, and the ...Step lemmas show, operation by     *)
(* operation, that the edit is sound.                                      *)
(***************************************************************************)
EXTENDS FabricRegistry, FabricRoute_proofs

-----------------------------------------------------------------------------
(* Generations, maps and records. *)

\* Gen::next stays a 64-bit number, and does not decrease it only if it
\* increases it: it is the wrap-around that validation catches.
LEMMA NextGenFacts ==
    ASSUME NEW g \in Gens
    PROVE  /\ NextGen(g) \in Gens
           /\ NextGen(g) >= g => NextGen(g) > g
  BY WidthAssumption DEF Gens, NextGen

\* Inserting a record keeps a map a map.
LEMMA PutMap ==
    ASSUME NEW S, NEW T, NEW m, IsMap(m, S, T), NEW k \in S, NEW v \in T
    PROVE  IsMap(Put(m, k, v), S, T)
  BY DEF IsMap, Put

\* Erasing entries keeps a map a map.
LEMMA EraseMap ==
    ASSUME NEW S, NEW T, NEW m, IsMap(m, S, T), NEW K
    PROVE  IsMap(Erase(m, K), S, T)
  BY DEF IsMap, Erase

\* Overwriting entries in bulk keeps a map a map.
LEMMA OverlayMap ==
    ASSUME NEW S, NEW T, NEW m, NEW e, IsMap(m, S, T), IsMap(e, S, T)
    PROVE  IsMap(Overlay(m, e), S, T)
  BY DEF IsMap, Overlay

\* Moving records to a state keeps a map a map if it keeps records records.
LEMMA MovedMap ==
    ASSUME NEW S, NEW T, NEW m, IsMap(m, S, T), NEW K, NEW state,
           \A r \in T : [r EXCEPT !.state = state] \in T
    PROVE  IsMap(Moved(m, K, state), S, T)
  BY DEF IsMap, Moved

\* Fencing records keeps a map a map if it keeps records records.
LEMMA FencedMap ==
    ASSUME NEW S, NEW T, NEW m, IsMap(m, S, T), NEW K,
           \A r \in T : [r EXCEPT !.state = "REVALIDATION_REQUIRED", !.gen = NextGen(@)] \in T
    PROVE  IsMap(Fenced(m, K), S, T)
  BY DEF IsMap, Fenced

\* Devices, switches, ports and links may enter any state.
LEMMA MovedRecords ==
    ASSUME NEW state \in EntityState
    PROVE  /\ \A r \in DeviceRecord : [r EXCEPT !.state = state] \in DeviceRecord
           /\ \A r \in SwitchRecord : [r EXCEPT !.state = state] \in SwitchRecord
           /\ \A r \in PortRecord : [r EXCEPT !.state = state] \in PortRecord
           /\ \A r \in LinkRecord : [r EXCEPT !.state = state] \in LinkRecord
  BY DEF DeviceRecord, SwitchRecord, PortRecord, LinkRecord

\* Partitions may enter any state of theirs.
LEMMA MovedPartitions ==
    ASSUME NEW state \in PartitionState
    PROVE  \A r \in PartitionRecord : [r EXCEPT !.state = state] \in PartitionRecord
  BY DEF PartitionRecord

\* Fencing yields a record of the same type.
LEMMA FencedRecords ==
    /\ \A r \in SwitchRecord :
          [r EXCEPT !.state = "REVALIDATION_REQUIRED", !.gen = NextGen(@)] \in SwitchRecord
    /\ \A r \in PortRecord :
          [r EXCEPT !.state = "REVALIDATION_REQUIRED", !.gen = NextGen(@)] \in PortRecord
    /\ \A r \in LinkRecord :
          [r EXCEPT !.state = "REVALIDATION_REQUIRED", !.gen = NextGen(@)] \in LinkRecord
    /\ \A r \in PartitionRecord :
          [r EXCEPT !.state = "REVALIDATION_REQUIRED", !.gen = NextGen(@)] \in PartitionRecord
  BY NextGenFacts
     DEF SwitchRecord, PortRecord, LinkRecord, PartitionRecord, EntityState, PartitionState

\* Advancing the topology generation yields a topology and touches no map.
LEMMA AdvanceTopology ==
    ASSUME NEW t, IsTopology(t)
    PROVE  /\ IsTopology(Advance(t))
           /\ Advance(t).switches = t.switches
           /\ Advance(t).ports = t.ports
           /\ Advance(t).links = t.links
           /\ Advance(t).partitions = t.partitions
  <1>1. NextGen(t.topologyGen) \in Gens  BY NextGenFacts DEF IsTopology
  <1>2. QED  BY <1>1 DEF IsTopology, Advance

\* No caller publishes a partition with the largest generation there is:
\* publishPartition would wrap it around, and a wrapped generation passes
\* validation when the one it replaces is 0.
Headroom == \A x \in PartitionInputs : x[2].gen + 1 < U64

\* The revoked generations are behind those of the candidate.
RevsBehind(revs, cand) ==
    /\ \A r \in revs.switches :
          r[1] \in DOMAIN cand.switches => cand.switches[r[1]].gen > r[2]
    /\ \A r \in revs.ports :
          r[1] \in DOMAIN cand.ports => cand.ports[r[1]].gen > r[2]
    /\ \A r \in revs.partitions :
          r[1] \in DOMAIN cand.partitions => cand.partitions[r[1]].gen > r[2]

\* What every operation makes sure of before it commits.
Edit(cand, revs) ==
    /\ IsTopology(cand)
    /\ revs \in Revocations
    /\ Headroom /\ GenerationsKept(current, cand) => RevsBehind(revs, cand)

\* What checkIntegrity accepts has no dangling reference.
LEMMA IntegrityFacts ==
    ASSUME NEW t, IsTopology(t), CheckIntegrity(t)
    PROVE  /\ \A p \in DOMAIN t.ports : p[1] \in DOMAIN t.switches
           /\ \A l \in DOMAIN t.links :
                 /\ t.links[l].port \in DOMAIN t.ports
                 /\ t.links[l].rootSwitch = t.links[l].port[1]
                 /\ \/ \E d \in DOMAIN t.devices : t.links[l].otherEnd = DeviceEnd(d)
                    \/ \E s \in DOMAIN t.switches : t.links[l].otherEnd = SwitchEnd(s)
           /\ \A q \in DOMAIN t.partitions :
                 /\ t.partitions[q].members \subseteq DOMAIN t.devices
                 /\ t.partitions[q].switches \subseteq DOMAIN t.switches
  <1>1. ASSUME NEW l \in DOMAIN t.links
        PROVE  \/ \E d \in DOMAIN t.devices : t.links[l].otherEnd = DeviceEnd(d)
               \/ \E s \in DOMAIN t.switches : t.links[l].otherEnd = SwitchEnd(s)
    <2>1. t.links[l].otherEnd \in LinkEnds
      BY DEF IsTopology, IsMap, LinkRecord
    <2>2. \/ t.links[l].otherEnd = DeviceEnd(t.links[l].otherEnd.id)
             /\ t.links[l].otherEnd.kind = "Device"
          \/ t.links[l].otherEnd = SwitchEnd(t.links[l].otherEnd.id)
             /\ t.links[l].otherEnd.kind # "Device"
      BY <2>1 DEF LinkEnds, DeviceEnd, SwitchEnd
    <2>3. QED  BY <2>2 DEF CheckIntegrity, LinkIntegrity
  <1>2. QED
    BY <1>1 DEF CheckIntegrity, PortIntegrity, LinkIntegrity, PartitionIntegrity

\* Generations behind those of a map stay behind when no generation of the map
\* decreases, and so do newly revoked ones that the new map has passed.
LEMMA BehindKept ==
    ASSUME NEW T, NEW old, NEW new, NEW R, NEW V, NEW keys,
           IsMap(old, keys, T), IsMap(new, keys, T), \A r \in T : r.gen \in Nat,
           R \subseteq keys \X Nat, V \subseteq keys \X Nat,
           Behind(R, old), NoGenDecreased(old, new),
           \A r \in V : r[1] \in DOMAIN new => new[r[1]].gen > r[2]
    PROVE  Behind({r \in R \cup V : r[1] \in DOMAIN new}, new)
  <1>1. ASSUME NEW r \in R, r[1] \in DOMAIN new
        PROVE  new[r[1]].gen > r[2]
    <2>1. /\ r[1] \in DOMAIN old
          /\ old[r[1]].gen > r[2]
          /\ new[r[1]].gen >= old[r[1]].gen
      BY <1>1 DEF Behind, NoGenDecreased
    <2>2. old[r[1]].gen \in Nat /\ new[r[1]].gen \in Nat /\ r[2] \in Nat
      BY <1>1, <2>1 DEF IsMap
    <2>3. QED  BY <2>1, <2>2
  <1>2. QED  BY <1>1 DEF Behind

\* What validateCandidate asks of a topology on its own.
Whole(t) == CheckIntegrity(t) /\ WithinLimits(t)

\* It depends on the five maps alone.
LEMMA WholeMaps ==
    ASSUME NEW t, NEW u, Whole(t),
           u.devices = t.devices, u.switches = t.switches, u.ports = t.ports,
           u.links = t.links, u.partitions = t.partitions
    PROVE  Whole(u)
  BY DEF Whole, CheckIntegrity, PortIntegrity, LinkIntegrity, PartitionIntegrity, WithinLimits

\* The published snapshot is typed and whole, and the revoked generations are
\* behind it.
SnapshotOK ==
    /\ IsTopology(current)
    /\ nextSnapshotId \in Nat
    /\ version \in 0 .. MaxVersion
    /\ revoked \in Revocations
    /\ Integrity /\ Whole(current)
    /\ Headroom => RevokedBehind

\* Publishing sets id, epoch and provenance, and nothing else.
LEMMA PublishedTopology ==
    ASSUME NEW t, IsTopology(t), NEW id \in Nat, NEW ep \in Nat
    PROVE  /\ IsTopology(PublishedAs(t, id, ep))
           /\ PublishedAs(t, id, ep).topologyGen = t.topologyGen
           /\ PublishedAs(t, id, ep).devices = t.devices
           /\ PublishedAs(t, id, ep).switches = t.switches
           /\ PublishedAs(t, id, ep).ports = t.ports
           /\ PublishedAs(t, id, ep).links = t.links
           /\ PublishedAs(t, id, ep).partitions = t.partitions
  <1>1. FinalProvenance(t) \in Provenance  BY DEF FinalProvenance, Provenance
  <1>2. QED  BY <1>1 DEF IsTopology, PublishedAs

\* Publishing a sound edit keeps the snapshot invariant and lowers no
\* generation.
LEMMA CommitSound ==
    ASSUME SnapshotOK, epoch \in Nat, NEW cand, NEW revs, Edit(cand, revs), Commit(cand, revs)
    PROVE  SnapshotOK' /\ GenerationsKept(current, current')
  <1>1. /\ IsTopology(cand) /\ CheckIntegrity(cand) /\ GenerationsKept(current, cand)
        /\ revs \in Revocations
    BY DEF Edit, Commit, ValidateCandidate, ValidSuccessor
  <1>2. /\ IsTopology(current')
        /\ current'.topologyGen = cand.topologyGen
        /\ current'.devices = cand.devices
        /\ current'.switches = cand.switches
        /\ current'.ports = cand.ports
        /\ current'.links = cand.links
        /\ current'.partitions = cand.partitions
    BY <1>1, PublishedTopology DEF Commit, Published, SnapshotOK
  <1>3. nextSnapshotId' \in Nat /\ version' \in 0 .. MaxVersion
    BY LimitAssumption DEF SnapshotOK, Commit
  <1>4. Integrity'
    BY <1>1, <1>2, IntegrityFacts DEF Integrity
  <1>9. Whole(current')
    <2>1. Whole(cand)  BY DEF Whole, Commit, ValidateCandidate, ValidSuccessor
    <2>2. QED  BY <1>2, <2>1, WholeMaps
  <1>5. GenerationsKept(current, current')
    BY <1>1, <1>2 DEF GenerationsKept
  <1>6. revoked' \in Revocations
    BY <1>1 DEF SnapshotOK, Commit, Remembered, Revocations
  <1>7. ASSUME Headroom  PROVE RevokedBehind'
    <2>0. RevsBehind(revs, cand)  BY <1>1, <1>7 DEF Edit
    <2>1. Gens \subseteq Nat  BY DEF Gens
    <2>2. Behind(revoked.switches, current.switches)'
      <3>1. /\ IsMap(current.switches, SwitchIds, SwitchRecord)
            /\ IsMap(cand.switches, SwitchIds, SwitchRecord)
        BY <1>1 DEF SnapshotOK, IsTopology
      <3>2. \A r \in SwitchRecord : r.gen \in Nat  BY <2>1 DEF SwitchRecord
      <3>3. revoked.switches \subseteq SwitchIds \X Nat /\ revs.switches \subseteq SwitchIds \X Nat
        BY <1>1, <2>1 DEF SnapshotOK, Revocations
      <3>4. Behind({r \in revoked.switches \cup revs.switches : r[1] \in DOMAIN cand.switches},
                   cand.switches)
        BY <1>1, <1>7, <2>0, <3>1, <3>2, <3>3, BehindKept
        DEF SnapshotOK, RevokedBehind, GenerationsKept, RevsBehind
      <3>5. QED  BY <3>4, <1>2 DEF Commit, Remembered
    <2>3. Behind(revoked.ports, current.ports)'
      <3>1. IsMap(current.ports, PortIds, PortRecord) /\ IsMap(cand.ports, PortIds, PortRecord)
        BY <1>1 DEF SnapshotOK, IsTopology
      <3>2. \A r \in PortRecord : r.gen \in Nat  BY <2>1 DEF PortRecord
      <3>3. revoked.ports \subseteq PortIds \X Nat /\ revs.ports \subseteq PortIds \X Nat
        BY <1>1, <2>1 DEF SnapshotOK, Revocations
      <3>4. Behind({r \in revoked.ports \cup revs.ports : r[1] \in DOMAIN cand.ports},
                   cand.ports)
        BY <1>1, <1>7, <2>0, <3>1, <3>2, <3>3, BehindKept
        DEF SnapshotOK, RevokedBehind, GenerationsKept, RevsBehind
      <3>5. QED  BY <3>4, <1>2 DEF Commit, Remembered
    <2>4. Behind(revoked.partitions, current.partitions)'
      <3>1. /\ IsMap(current.partitions, PartitionIds, PartitionRecord)
            /\ IsMap(cand.partitions, PartitionIds, PartitionRecord)
        BY <1>1 DEF SnapshotOK, IsTopology
      <3>2. \A r \in PartitionRecord : r.gen \in Nat  BY <2>1 DEF PartitionRecord
      <3>3. /\ revoked.partitions \subseteq PartitionIds \X Nat
            /\ revs.partitions \subseteq PartitionIds \X Nat
        BY <1>1, <2>1 DEF SnapshotOK, Revocations
      <3>4. Behind({r \in revoked.partitions \cup revs.partitions : r[1] \in DOMAIN cand.partitions},
                   cand.partitions)
        BY <1>1, <1>7, <2>0, <3>1, <3>2, <3>3, BehindKept
        DEF SnapshotOK, RevokedBehind, GenerationsKept, RevsBehind
      <3>5. QED  BY <3>4, <1>2 DEF Commit, Remembered
    <2>5. QED  BY <2>2, <2>3, <2>4 DEF RevokedBehind
  <1>10. QED  BY <1>2, <1>3, <1>4, <1>5, <1>6, <1>7, <1>9 DEF SnapshotOK

\* An edit that revokes nothing is sound as soon as it is a topology.
LEMMA NoRevs ==
    ASSUME NEW cand, IsTopology(cand)
    PROVE  Edit(cand, NothingRevoked)
  BY DEF Edit, RevsBehind, NothingRevoked, Revocations

-----------------------------------------------------------------------------

\* addDevice and removeDevice make sound edits.
LEMMA DeviceStep ==
    ASSUME SnapshotOK, epoch \in Nat, DeviceOps
    PROVE  SnapshotOK' /\ GenerationsKept(current, current')
  <1>0. IsTopology(current)  BY DEF SnapshotOK
  <1>1. ASSUME NEW x \in DeviceInputs, AddDevice(x[1], x[2])
        PROVE  SnapshotOK' /\ GenerationsKept(current, current')
    <2> DEFINE t == [current EXCEPT !.devices = Put(@, x[1], x[2])]
    <2>1. x[1] \in DeviceIds /\ x[2] \in DeviceRecord  BY InputAssumption
    <2>2. IsTopology(t)  BY <1>0, <2>1, PutMap DEF IsTopology
    <2>3. Edit(Advance(t), NothingRevoked)  BY <2>2, AdvanceTopology, NoRevs
    <2>4. QED  BY <1>1, <2>3, CommitSound DEF AddDevice, Mutate
  <1>2. ASSUME NEW id \in DeviceIds, RemoveDevice(id)
        PROVE  SnapshotOK' /\ GenerationsKept(current, current')
    <2> DEFINE L == {l \in DOMAIN current.links : current.links[l].otherEnd = DeviceEnd(id)}
               t == [current EXCEPT !.devices = Erase(@, {id}), !.links = Erase(@, L)]
    <2>1. IsTopology(t)  BY <1>0, EraseMap DEF IsTopology
    <2>2. Edit(Advance(t), NothingRevoked)  BY <2>1, AdvanceTopology, NoRevs
    <2>3. Advance(t) = WithoutDevice(current, id)  BY DEF WithoutDevice
    <2>4. QED  BY <1>2, <2>2, <2>3, CommitSound DEF RemoveDevice, Mutate
  <1>3. QED  BY <1>1, <1>2 DEF DeviceOps

\* Replacing a switch record is a sound edit if a revoked generation is left
\* behind or the replacement fails validation.
LEMMA SwitchEdit ==
    ASSUME IsTopology(current), NEW id \in DOMAIN current.switches, NEW new \in SwitchRecord,
           NEW B \in BOOLEAN,
           B /\ new.gen >= current.switches[id].gen => new.gen > current.switches[id].gen
    PROVE  LET cand == Advance([current EXCEPT !.switches = Put(@, id, new)])
               revs == IF B THEN {<<id, current.switches[id].gen>>} ELSE {}
           IN  Edit(cand, [NothingRevoked EXCEPT !.switches = revs])
  <1> DEFINE u == [current EXCEPT !.switches = Put(@, id, new)]
             cand == Advance(u)
             revs == IF B THEN {<<id, current.switches[id].gen>>} ELSE {}
  <1>1. id \in SwitchIds /\ current.switches[id].gen \in Gens
    BY DEF IsTopology, IsMap, SwitchRecord
  <1>2. IsTopology(u) /\ u.switches = Put(current.switches, id, new)
    BY <1>1, PutMap DEF IsTopology
  <1>3. IsTopology(cand) /\ cand.switches = Put(current.switches, id, new)
    BY <1>2, AdvanceTopology
  <1>4. id \in DOMAIN cand.switches /\ cand.switches[id] = new
    BY <1>3 DEF Put
  <1>5. ASSUME GenerationsKept(current, cand)
        PROVE  RevsBehind([NothingRevoked EXCEPT !.switches = revs], cand)
    <2>1. new.gen >= current.switches[id].gen
      BY <1>4, <1>5 DEF GenerationsKept, NoGenDecreased
    <2>2. QED  BY <1>1, <1>4, <2>1 DEF RevsBehind, NothingRevoked
  <1>6. [NothingRevoked EXCEPT !.switches = revs] \in Revocations
    BY <1>1 DEF NothingRevoked, Revocations
  <1>7. QED  BY <1>3, <1>5, <1>6 DEF Edit

\* addSwitch, removeSwitch, setSwitchState and restartSwitch make sound edits.
LEMMA SwitchStep ==
    ASSUME SnapshotOK, epoch \in Nat, SwitchOps
    PROVE  SnapshotOK' /\ GenerationsKept(current, current')
  <1>0. IsTopology(current)  BY DEF SnapshotOK
  <1>1. ASSUME NEW x \in SwitchInputs, AddSwitch(x[1], x[2])
        PROVE  SnapshotOK' /\ GenerationsKept(current, current')
    <2> DEFINE t == [current EXCEPT !.switches = Put(@, x[1], x[2])]
    <2>1. x[1] \in SwitchIds /\ x[2] \in SwitchRecord  BY InputAssumption
    <2>2. IsTopology(t)  BY <1>0, <2>1, PutMap DEF IsTopology
    <2>3. Edit(Advance(t), NothingRevoked)  BY <2>2, AdvanceTopology, NoRevs
    <2>4. QED  BY <1>1, <2>3, CommitSound DEF AddSwitch, Mutate
  <1>2. ASSUME NEW id \in SwitchIds, RemoveSwitch(id)
        PROVE  SnapshotOK' /\ GenerationsKept(current, current')
    <2> DEFINE P == {p \in DOMAIN current.ports : p[1] = id}
               L == {l \in DOMAIN current.links : \/ current.links[l].rootSwitch = id
                                                  \/ current.links[l].otherEnd = SwitchEnd(id)}
               t == [current EXCEPT !.switches = Erase(@, {id}), !.ports = Erase(@, P),
                                    !.links = Erase(@, L)]
    <2>1. IsTopology(t)  BY <1>0, EraseMap DEF IsTopology
    <2>2. Edit(Advance(t), NothingRevoked)  BY <2>1, AdvanceTopology, NoRevs
    <2>3. Advance(t) = WithoutSwitch(current, id)  BY DEF WithoutSwitch
    <2>4. QED  BY <1>2, <2>2, <2>3, CommitSound DEF RemoveSwitch, Mutate
  <1>3. ASSUME NEW id \in SwitchIds, NEW s \in StateInputs, SetSwitchState(id, s)
        PROVE  SnapshotOK' /\ GenerationsKept(current, current')
    <2> DEFINE old == current.switches[id]
               new == Entered(old, s, SwitchFailure)
               B == s \in SwitchFailure
               cand == Advance([current EXCEPT !.switches = Put(@, id, new)])
               revs == IF B THEN {<<id, old.gen>>} ELSE {}
    <2>1. id \in DOMAIN current.switches /\ s \in EntityState
      BY <1>3, InputAssumption DEF SetSwitchState
    <2>2. old \in SwitchRecord  BY <1>0, <2>1 DEF IsTopology, IsMap
    <2>3. /\ new \in SwitchRecord
          /\ B /\ new.gen >= old.gen => new.gen > old.gen
      <3>1. old.gen \in Gens  BY <2>2 DEF SwitchRecord
      <3>2. NextGen(old.gen) \in Gens /\ (NextGen(old.gen) >= old.gen => NextGen(old.gen) > old.gen)
        BY <3>1, NextGenFacts
      <3>3. QED  BY <2>1, <2>2, <3>2 DEF Entered, SwitchRecord
    <2>4. Edit(cand, [NothingRevoked EXCEPT !.switches = revs])
      <3> HIDE DEF new, B
      <3>1. B \in BOOLEAN  BY DEF B
      <3>2. QED
        BY <1>0, <2>1, <2>3, <3>1, SwitchEdit
    <2>5. QED  BY <1>3, <2>4, CommitSound DEF SetSwitchState, Mutate
  <1>4. ASSUME NEW id \in SwitchIds, NEW g \in RestartGens, RestartSwitch(id, g)
        PROVE  SnapshotOK' /\ GenerationsKept(current, current')
    <2> DEFINE old == current.switches[id]
               new == [old EXCEPT !.gen = g, !.state = "REVALIDATION_REQUIRED"]
               B == g > old.gen
               cand == Advance([current EXCEPT !.switches = Put(@, id, new)])
               revs == IF B THEN {<<id, old.gen>>} ELSE {}
    <2>1. id \in DOMAIN current.switches /\ g \in Gens
      BY <1>4, InputAssumption DEF RestartSwitch
    <2>2. old \in SwitchRecord  BY <1>0, <2>1 DEF IsTopology, IsMap
    <2>3. /\ new \in SwitchRecord
          /\ B /\ new.gen >= old.gen => new.gen > old.gen
      BY <2>1, <2>2 DEF SwitchRecord, EntityState
    <2>4. Edit(cand, [NothingRevoked EXCEPT !.switches = revs])
      <3> HIDE DEF new, B
      <3>1. B \in BOOLEAN  BY DEF B
      <3>2. QED
        BY <1>0, <2>1, <2>3, <3>1, SwitchEdit
    <2>5. QED  BY <1>4, <2>4, CommitSound DEF RestartSwitch, Mutate
  <1>5. QED  BY <1>1, <1>2, <1>3, <1>4 DEF SwitchOps

\* Replacing a port record is a sound edit under the same condition.
LEMMA PortEdit ==
    ASSUME IsTopology(current), NEW id \in DOMAIN current.ports, NEW new \in PortRecord,
           NEW B \in BOOLEAN,
           B /\ new.gen >= current.ports[id].gen => new.gen > current.ports[id].gen
    PROVE  LET cand == Advance([current EXCEPT !.ports = Put(@, id, new)])
               revs == IF B THEN {<<id, current.ports[id].gen>>} ELSE {}
           IN  Edit(cand, [NothingRevoked EXCEPT !.ports = revs])
  <1> DEFINE u == [current EXCEPT !.ports = Put(@, id, new)]
             cand == Advance(u)
             revs == IF B THEN {<<id, current.ports[id].gen>>} ELSE {}
  <1>1. id \in PortIds /\ current.ports[id].gen \in Gens
    BY DEF IsTopology, IsMap, PortRecord
  <1>2. IsTopology(u) /\ u.ports = Put(current.ports, id, new)
    BY <1>1, PutMap DEF IsTopology
  <1>3. IsTopology(cand) /\ cand.ports = Put(current.ports, id, new)
    BY <1>2, AdvanceTopology
  <1>4. id \in DOMAIN cand.ports /\ cand.ports[id] = new
    BY <1>3 DEF Put
  <1>5. ASSUME GenerationsKept(current, cand)
        PROVE  RevsBehind([NothingRevoked EXCEPT !.ports = revs], cand)
    <2>1. new.gen >= current.ports[id].gen
      BY <1>4, <1>5 DEF GenerationsKept, NoGenDecreased
    <2>2. QED  BY <1>1, <1>4, <2>1 DEF RevsBehind, NothingRevoked
  <1>6. [NothingRevoked EXCEPT !.ports = revs] \in Revocations
    BY <1>1 DEF NothingRevoked, Revocations
  <1>7. QED  BY <1>3, <1>5, <1>6 DEF Edit

\* addPort, removePort and setPortState make sound edits.
LEMMA PortStep ==
    ASSUME SnapshotOK, epoch \in Nat, PortOps
    PROVE  SnapshotOK' /\ GenerationsKept(current, current')
  <1>0. IsTopology(current)  BY DEF SnapshotOK
  <1>1. ASSUME NEW x \in PortInputs, AddPort(x[1], x[2])
        PROVE  SnapshotOK' /\ GenerationsKept(current, current')
    <2> DEFINE id == x[1]
               sw == current.switches[id[1]]
               n  == IF id[2] >= sw.portCount THEN id[2] + 1 ELSE sw.portCount
               t == [current EXCEPT !.switches = Put(@, id[1], [sw EXCEPT !.portCount = n]),
                                    !.ports = Put(@, id, x[2])]
    <2>1. x[1] \in PortIds /\ x[2] \in PortRecord  BY InputAssumption
    <2>2. id[1] \in DOMAIN current.switches  BY <1>1 DEF AddPort
    <2>3. id[1] \in SwitchIds /\ sw \in SwitchRecord  BY <1>0, <2>2 DEF IsTopology, IsMap
    <2>4. id[2] \in Nat  BY <2>1, IdAssumption DEF PortIds
    <2>5. [sw EXCEPT !.portCount = n] \in SwitchRecord
      <3>1. n \in Nat  BY <2>3, <2>4 DEF SwitchRecord
      <3>2. QED  BY <2>3, <3>1 DEF SwitchRecord
    <2>6. IsTopology(t)  BY <1>0, <2>1, <2>3, <2>5, PutMap DEF IsTopology
    <2>7. Edit(Advance(t), NothingRevoked)  BY <2>6, AdvanceTopology, NoRevs
    <2>8. Advance(t) = WithPort(current, x[1], x[2])  BY DEF WithPort
    <2>9. QED  BY <1>1, <2>7, <2>8, CommitSound DEF AddPort, Mutate
  <1>2. ASSUME NEW id \in PortIds, RemovePort(id)
        PROVE  SnapshotOK' /\ GenerationsKept(current, current')
    <2> DEFINE L == {l \in DOMAIN current.links : current.links[l].port = id}
               t == [current EXCEPT !.ports = Erase(@, {id}), !.links = Erase(@, L)]
    <2>1. IsTopology(t)  BY <1>0, EraseMap DEF IsTopology
    <2>2. Edit(Advance(t), NothingRevoked)  BY <2>1, AdvanceTopology, NoRevs
    <2>3. Advance(t) = WithoutPort(current, id)  BY DEF WithoutPort
    <2>4. QED  BY <1>2, <2>2, <2>3, CommitSound DEF RemovePort, Mutate
  <1>3. ASSUME NEW id \in PortIds, NEW s \in StateInputs, SetPortState(id, s)
        PROVE  SnapshotOK' /\ GenerationsKept(current, current')
    <2> DEFINE old == current.ports[id]
               new == Entered(old, s, PortFailure)
               B == s \in PortFailure
               cand == Advance([current EXCEPT !.ports = Put(@, id, new)])
               revs == IF B THEN {<<id, old.gen>>} ELSE {}
    <2>1. id \in DOMAIN current.ports /\ s \in EntityState
      BY <1>3, InputAssumption DEF SetPortState
    <2>2. old \in PortRecord  BY <1>0, <2>1 DEF IsTopology, IsMap
    <2>3. /\ new \in PortRecord
          /\ B /\ new.gen >= old.gen => new.gen > old.gen
      <3>1. old.gen \in Gens  BY <2>2 DEF PortRecord
      <3>2. NextGen(old.gen) \in Gens /\ (NextGen(old.gen) >= old.gen => NextGen(old.gen) > old.gen)
        BY <3>1, NextGenFacts
      <3>3. QED  BY <2>1, <2>2, <3>2 DEF Entered, PortRecord
    <2>4. Edit(cand, [NothingRevoked EXCEPT !.ports = revs])
      <3> HIDE DEF new, B
      <3>1. B \in BOOLEAN  BY DEF B
      <3>2. QED
        BY <1>0, <2>1, <2>3, <3>1, PortEdit
    <2>5. QED  BY <1>3, <2>4, CommitSound DEF SetPortState, Mutate
  <1>4. QED  BY <1>1, <1>2, <1>3 DEF PortOps

\* Any change of the links is a sound edit: no operation revokes links.
LEMMA LinkEdit ==
    ASSUME NEW t, IsTopology(t), NEW m, IsMap(m, LinkIds, LinkRecord)
    PROVE  Edit(Advance([t EXCEPT !.links = m]), NothingRevoked)
  <1>1. IsTopology([t EXCEPT !.links = m])  BY DEF IsTopology
  <1>2. QED  BY <1>1, AdvanceTopology, NoRevs

\* addLink, removeLink, setLinkState and publishCongestion make sound edits.
LEMMA LinkStep ==
    ASSUME SnapshotOK, epoch \in Nat, LinkOps
    PROVE  SnapshotOK' /\ GenerationsKept(current, current')
  <1>0. IsTopology(current) /\ IsMap(current.links, LinkIds, LinkRecord)
    BY DEF SnapshotOK, IsTopology
  <1>1. ASSUME NEW x \in LinkInputs, AddLink(x[1], x[2])
        PROVE  SnapshotOK' /\ GenerationsKept(current, current')
    <2>1. x[1] \in LinkIds /\ x[2] \in LinkRecord  BY InputAssumption
    <2>2. IsMap(Put(current.links, x[1], x[2]), LinkIds, LinkRecord)  BY <1>0, <2>1, PutMap
    <2>3. QED  BY <1>0, <1>1, <2>2, LinkEdit, CommitSound DEF AddLink, Mutate
  <1>2. ASSUME NEW id \in LinkIds, RemoveLink(id)
        PROVE  SnapshotOK' /\ GenerationsKept(current, current')
    <2>1. IsMap(Erase(current.links, {id}), LinkIds, LinkRecord)  BY <1>0, EraseMap
    <2>2. QED  BY <1>0, <1>2, <2>1, LinkEdit, CommitSound DEF RemoveLink, Mutate
  <1>3. ASSUME NEW id \in LinkIds, NEW s \in StateInputs, NEW b \in BOOLEAN, SetLinkState(id, s, b)
        PROVE  SnapshotOK' /\ GenerationsKept(current, current')
    <2> DEFINE old == current.links[id]
               new == [Entered(old, s, LinkFailure) EXCEPT !.degraded = b]
    <2>1. id \in DOMAIN current.links /\ s \in EntityState
      BY <1>3, InputAssumption DEF SetLinkState
    <2>2. old \in LinkRecord  BY <1>0, <2>1 DEF IsMap
    <2>3. new \in LinkRecord
      <3>1. old.gen \in Gens /\ NextGen(old.gen) \in Gens  BY <2>2, NextGenFacts DEF LinkRecord
      <3>2. QED  BY <2>1, <2>2, <3>1 DEF Entered, LinkRecord
    <2>4. IsMap(Put(current.links, id, new), LinkIds, LinkRecord)  BY <1>0, <2>3, PutMap
    <2>5. QED  BY <1>0, <1>3, <2>4, LinkEdit, CommitSound DEF SetLinkState, Mutate
  <1>4. ASSUME NEW links \in CongestionInputs, PublishCongestion(links)
        PROVE  SnapshotOK' /\ GenerationsKept(current, current')
    <2> DEFINE m == [l \in DOMAIN current.links |->
                       IF l \in DOMAIN links
                         THEN [current.links[l] EXCEPT !.degraded = links[l],
                                                       !.state = IF links[l] THEN "DEGRADED" ELSE @]
                         ELSE current.links[l]]
    <2>1. IsMap(links, LinkIds, BOOLEAN)  BY InputAssumption
    <2>2. ASSUME NEW l \in DOMAIN current.links  PROVE m[l] \in LinkRecord
      <3>1. current.links[l] \in LinkRecord  BY <1>0 DEF IsMap
      <3>2. l \in DOMAIN links => links[l] \in BOOLEAN  BY <2>1 DEF IsMap
      <3>3. QED  BY <3>1, <3>2 DEF LinkRecord, EntityState
    <2>3. IsMap(m, LinkIds, LinkRecord)  BY <1>0, <2>2 DEF IsMap
    <2>4. Edit(Advance(Congested(current, links)), NothingRevoked)
      BY <1>0, <2>3, LinkEdit DEF Congested
    <2>5. QED  BY <1>4, <2>4, CommitSound DEF PublishCongestion, Mutate
  <1>5. QED  BY <1>1, <1>2, <1>3, <1>4 DEF LinkOps

\* Replacing a partition record is a sound edit under the same condition.
LEMMA PartitionEdit ==
    ASSUME IsTopology(current), NEW id \in PartitionIds, NEW new \in PartitionRecord,
           NEW B \in BOOLEAN,
           B => id \in DOMAIN current.partitions,
           Headroom /\ B /\ new.gen >= current.partitions[id].gen =>
               new.gen > current.partitions[id].gen
    PROVE  LET cand == Advance([current EXCEPT !.partitions = Put(@, id, new)])
               revs == IF B THEN {<<id, current.partitions[id].gen>>} ELSE {}
           IN  Edit(cand, [NothingRevoked EXCEPT !.partitions = revs])
  <1> DEFINE u == [current EXCEPT !.partitions = Put(@, id, new)]
             cand == Advance(u)
             revs == IF B THEN {<<id, current.partitions[id].gen>>} ELSE {}
  <1>1. B => current.partitions[id].gen \in Gens
    BY DEF IsTopology, IsMap, PartitionRecord
  <1>2. IsTopology(u) /\ u.partitions = Put(current.partitions, id, new)
    BY <1>1, PutMap DEF IsTopology
  <1>3. IsTopology(cand) /\ cand.partitions = Put(current.partitions, id, new)
    BY <1>2, AdvanceTopology
  <1>4. id \in DOMAIN cand.partitions /\ cand.partitions[id] = new
    BY <1>3 DEF Put
  <1>5. ASSUME Headroom, GenerationsKept(current, cand)
        PROVE  RevsBehind([NothingRevoked EXCEPT !.partitions = revs], cand)
    <2>1. B => new.gen >= current.partitions[id].gen
      BY <1>4, <1>5 DEF GenerationsKept, NoGenDecreased
    <2>2. QED  BY <1>1, <1>4, <1>5, <2>1 DEF RevsBehind, NothingRevoked
  <1>6. [NothingRevoked EXCEPT !.partitions = revs] \in Revocations
    BY <1>1 DEF NothingRevoked, Revocations
  <1>7. QED  BY <1>3, <1>5, <1>6 DEF Edit

\* publishPartition, removePartition and markPartitionStale make sound edits.
LEMMA PartitionStep ==
    ASSUME SnapshotOK, epoch \in Nat, PartitionOps
    PROVE  SnapshotOK' /\ GenerationsKept(current, current')
  <1>0. IsTopology(current) /\ IsMap(current.partitions, PartitionIds, PartitionRecord)
    BY DEF SnapshotOK, IsTopology
  <1>1. ASSUME NEW x \in PartitionInputs, PublishPartition(x[1], x[2])
        PROVE  SnapshotOK' /\ GenerationsKept(current, current')
    <2> DEFINE id == x[1]
               old == current.partitions[id]
               new == StoredPartition(current, id, x[2])
               B == id \in DOMAIN current.partitions /\ PartitionChanged(old, x[2])
               cand == Advance([current EXCEPT !.partitions = Put(@, id, new)])
               revs == IF B THEN {<<id, old.gen>>} ELSE {}
    <2>1. id \in PartitionIds /\ x[2] \in PartitionRecord  BY InputAssumption
    <2>2. x[2].gen \in Gens /\ 1 \in Gens  BY <2>1, WidthAssumption DEF PartitionRecord, Gens
    <2>3. id \in DOMAIN current.partitions => old.gen \in Gens
      BY <1>0 DEF IsMap, PartitionRecord
    <2>4. /\ new \in PartitionRecord
          /\ Headroom /\ B /\ new.gen >= old.gen => new.gen > old.gen
      <3>1. CASE id \notin DOMAIN current.partitions
        BY <3>1, <2>1, <2>2 DEF StoredPartition, PartitionRecord
      <3>2. CASE id \in DOMAIN current.partitions
        <4> DEFINE top == Larger(old.gen, x[2].gen)
        <4>1. top \in Gens /\ top >= old.gen  BY <2>2, <2>3, <3>2 DEF Larger, Gens
        <4>2. /\ NextGen(top) \in Gens
              /\ Headroom /\ NextGen(top) >= old.gen => NextGen(top) > old.gen
          <5>1. Headroom => x[2].gen + 1 < U64  BY DEF Headroom
          <5>2. QED  BY <5>1, <2>2, <2>3, <3>2, WidthAssumption DEF NextGen, Gens, Larger
        <4>3. new = [x[2] EXCEPT !.gen = IF PartitionChanged(old, x[2]) THEN NextGen(top) ELSE top]
          BY <3>2 DEF StoredPartition
        <4> HIDE DEF top, new
        <4>4. QED  BY <2>1, <4>1, <4>2, <4>3 DEF PartitionRecord
      <3>3. QED  BY <3>1, <3>2
    <2>5. Edit(cand, [NothingRevoked EXCEPT !.partitions = revs])
      <3> HIDE DEF new
      <3>1. B \in BOOLEAN /\ (B => id \in DOMAIN current.partitions)  OBVIOUS
      <3> HIDE DEF B
      <3>2. QED
        BY <1>0, <2>1, <2>4, <3>1, PartitionEdit
    <2>6. QED  BY <1>1, <2>5, CommitSound DEF PublishPartition, Mutate
  <1>2. ASSUME NEW id \in PartitionIds, RemovePartition(id)
        PROVE  SnapshotOK' /\ GenerationsKept(current, current')
    <2> DEFINE t == [current EXCEPT !.partitions = Erase(@, {id})]
    <2>1. IsTopology(t)  BY <1>0, EraseMap DEF IsTopology
    <2>2. Edit(Advance(t), NothingRevoked)  BY <2>1, AdvanceTopology, NoRevs
    <2>3. QED  BY <1>2, <2>2, CommitSound DEF RemovePartition, Mutate
  <1>3. ASSUME NEW id \in PartitionIds, MarkPartitionStale(id)
        PROVE  SnapshotOK' /\ GenerationsKept(current, current')
    <2> DEFINE old == current.partitions[id]
               B == old.state # "STALE"
               new == [old EXCEPT !.state = "STALE", !.gen = IF B THEN NextGen(@) ELSE @]
               cand == Advance([current EXCEPT !.partitions = Put(@, id, new)])
               revs == IF B THEN {<<id, old.gen>>} ELSE {}
    <2>1. id \in DOMAIN current.partitions  BY <1>3 DEF MarkPartitionStale
    <2>2. old \in PartitionRecord  BY <1>0, <2>1 DEF IsMap
    <2>3. /\ new \in PartitionRecord
          /\ B /\ new.gen >= old.gen => new.gen > old.gen
      <3>1. /\ NextGen(old.gen) \in Gens
            /\ NextGen(old.gen) >= old.gen => NextGen(old.gen) > old.gen
        BY <2>2, NextGenFacts DEF PartitionRecord
      <3>2. QED  BY <2>2, <3>1 DEF PartitionRecord, PartitionState
    <2>4. Edit(cand, [NothingRevoked EXCEPT !.partitions = revs])
      <3> HIDE DEF new
      <3>1. B \in BOOLEAN  OBVIOUS
      <3> HIDE DEF B
      <3>2. QED
        BY <1>0, <2>1, <2>3, <3>1, PartitionEdit
    <2>5. QED  BY <1>3, <2>4, CommitSound DEF MarkPartitionStale, Mutate
  <1>4. QED  BY <1>1, <1>2, <1>3 DEF PartitionOps

\* invalidateForWorker fences the switches, ports and partitions it should
\* and yields a topology.
LEMMA FencedSound ==
    ASSUME NEW t, IsTopology(t), NEW owner
    PROVE  /\ IsTopology(FencedTopology(t, owner))
           /\ FencedTopology(t, owner).switches = Fenced(t.switches, OwnedBy(t.switches, owner))
           /\ FencedTopology(t, owner).ports = Fenced(t.ports, OwnedBy(t.ports, owner))
           /\ FencedTopology(t, owner).partitions =
                 Fenced(t.partitions, OwnedBy(t.partitions, owner))
  <1>1. /\ IsMap(Fenced(t.switches, OwnedBy(t.switches, owner)), SwitchIds, SwitchRecord)
        /\ IsMap(Fenced(t.ports, OwnedBy(t.ports, owner)), PortIds, PortRecord)
        /\ IsMap(Fenced(t.links, OwnedBy(t.links, owner)), LinkIds, LinkRecord)
        /\ IsMap(Fenced(t.partitions, OwnedBy(t.partitions, owner)), PartitionIds, PartitionRecord)
    BY FencedMap, FencedRecords DEF IsTopology
  <1>2. IsMap(Moved(t.devices, OwnedBy(t.devices, owner), "REVALIDATION_REQUIRED"),
              DeviceIds, DeviceRecord)
    <2>1. "REVALIDATION_REQUIRED" \in EntityState  BY DEF EntityState
    <2>2. QED  BY <2>1, MovedMap, MovedRecords DEF IsTopology
  <1>3. (IF Owns(t, owner) THEN NextGen(t.topologyGen) ELSE t.topologyGen) \in Gens
    BY NextGenFacts DEF IsTopology
  <1>4. QED  BY <1>1, <1>2, <1>3 DEF IsTopology, FencedTopology

\* Fencing a map whose generations may not decrease advances the fenced ones.
LEMMA FencedBehind ==
    ASSUME NEW keys, NEW T, NEW m, IsMap(m, keys, T),
           \A r \in T : /\ r.gen \in Gens
                        /\ [r EXCEPT !.state = "REVALIDATION_REQUIRED", !.gen = NextGen(@)].gen
                              = NextGen(r.gen),
           NEW owner, NoGenDecreased(m, Fenced(m, OwnedBy(m, owner)))
    PROVE  \A r \in OwnedGens(m, owner) :
              r[1] \in DOMAIN Fenced(m, OwnedBy(m, owner)) =>
                  Fenced(m, OwnedBy(m, owner))[r[1]].gen > r[2]
  <1> DEFINE f == Fenced(m, OwnedBy(m, owner))
  <1>1. SUFFICES ASSUME NEW x \in OwnedBy(m, owner)
                 PROVE  f[x].gen > m[x].gen
    BY DEF OwnedGens
  <1>2. x \in DOMAIN m /\ m[x] \in T  BY DEF OwnedBy, IsMap
  <1>3. x \in DOMAIN f /\ f[x].gen = NextGen(m[x].gen)  BY <1>2 DEF Fenced
  <1>4. f[x].gen >= m[x].gen  BY <1>2, <1>3 DEF NoGenDecreased
  <1>5. QED  BY <1>2, <1>3, <1>4, NextGenFacts

\* invalidateForWorker makes a sound edit.
LEMMA FenceEdit ==
    ASSUME IsTopology(current), NEW owner
    PROVE  Edit(FencedTopology(current, owner), FenceRevocations(current, owner))
  <1> DEFINE cand == FencedTopology(current, owner)
             revs == FenceRevocations(current, owner)
  <1>1. revs \in Revocations
    <2>1. OwnedGens(current.switches, owner) \subseteq SwitchIds \X Gens
      BY DEF OwnedGens, OwnedBy, IsTopology, IsMap, SwitchRecord
    <2>2. OwnedGens(current.ports, owner) \subseteq PortIds \X Gens
      BY DEF OwnedGens, OwnedBy, IsTopology, IsMap, PortRecord
    <2>3. OwnedGens(current.partitions, owner) \subseteq PartitionIds \X Gens
      BY DEF OwnedGens, OwnedBy, IsTopology, IsMap, PartitionRecord
    <2>4. QED  BY <2>1, <2>2, <2>3 DEF FenceRevocations, Revocations
  <1>2. ASSUME GenerationsKept(current, cand)  PROVE RevsBehind(revs, cand)
    <2>1. \A r \in SwitchRecord :
             /\ r.gen \in Gens
             /\ [r EXCEPT !.state = "REVALIDATION_REQUIRED", !.gen = NextGen(@)].gen
                   = NextGen(r.gen)
      BY DEF SwitchRecord
    <2>2. \A r \in PortRecord :
             /\ r.gen \in Gens
             /\ [r EXCEPT !.state = "REVALIDATION_REQUIRED", !.gen = NextGen(@)].gen
                   = NextGen(r.gen)
      BY DEF PortRecord
    <2>3. \A r \in PartitionRecord :
             /\ r.gen \in Gens
             /\ [r EXCEPT !.state = "REVALIDATION_REQUIRED", !.gen = NextGen(@)].gen
                   = NextGen(r.gen)
      BY DEF PartitionRecord
    <2>4. /\ NoGenDecreased(current.switches, cand.switches)
          /\ NoGenDecreased(current.ports, cand.ports)
          /\ NoGenDecreased(current.partitions, cand.partitions)
      BY <1>2 DEF GenerationsKept
    <2>5. \A r \in revs.switches :
             r[1] \in DOMAIN cand.switches => cand.switches[r[1]].gen > r[2]
      <3>1. IsMap(current.switches, SwitchIds, SwitchRecord)  BY DEF IsTopology
      <3>2. QED  BY <2>1, <2>4, <3>1, FencedBehind, FencedSound DEF FenceRevocations
    <2>6. \A r \in revs.ports :
             r[1] \in DOMAIN cand.ports => cand.ports[r[1]].gen > r[2]
      <3>1. IsMap(current.ports, PortIds, PortRecord)  BY DEF IsTopology
      <3>2. QED  BY <2>2, <2>4, <3>1, FencedBehind, FencedSound DEF FenceRevocations
    <2>7. \A r \in revs.partitions :
             r[1] \in DOMAIN cand.partitions => cand.partitions[r[1]].gen > r[2]
      <3>1. IsMap(current.partitions, PartitionIds, PartitionRecord)  BY DEF IsTopology
      <3>2. QED  BY <2>3, <2>4, <3>1, FencedBehind, FencedSound DEF FenceRevocations
    <2>8. QED  BY <2>5, <2>6, <2>7 DEF RevsBehind
  <1>3. QED  BY <1>1, <1>2, FencedSound DEF Edit

\* expireDynamicEvidence yields a topology.
LEMMA ExpiredSound ==
    ASSUME NEW t, IsTopology(t)
    PROVE  IsTopology(ExpiredTopology(t))
  <1> DEFINE u == [t EXCEPT !.switches = Expired(@), !.ports = Expired(@), !.links = Expired(@),
                            !.partitions = Expired(@), !.devices = Expired(@)]
  <1>1. "REVALIDATION_REQUIRED" \in EntityState /\ "REVALIDATION_REQUIRED" \in PartitionState
    BY DEF EntityState, PartitionState
  <1>2. /\ IsMap(Expired(t.devices), DeviceIds, DeviceRecord)
        /\ IsMap(Expired(t.switches), SwitchIds, SwitchRecord)
        /\ IsMap(Expired(t.ports), PortIds, PortRecord)
        /\ IsMap(Expired(t.links), LinkIds, LinkRecord)
        /\ IsMap(Expired(t.partitions), PartitionIds, PartitionRecord)
    BY <1>1, MovedMap, MovedRecords, MovedPartitions DEF IsTopology, Expired
  <1>3. IsTopology(u)  BY <1>2 DEF IsTopology
  <1>4. QED  BY <1>3, AdvanceTopology DEF ExpiredTopology

\* revalidateAll yields a topology.
LEMMA RevalidatedSound ==
    ASSUME NEW t, IsTopology(t)
    PROVE  IsTopology(RevalidatedTopology(t))
  <1> DEFINE u == [t EXCEPT !.switches = Revalidated(@, "UP"), !.ports = Revalidated(@, "UP"),
                            !.links = Revalidated(@, "UP"), !.devices = Revalidated(@, "UP"),
                            !.partitions = Revalidated(@, "ACTIVE")]
  <1>1. "UP" \in EntityState /\ "ACTIVE" \in PartitionState  BY DEF EntityState, PartitionState
  <1>2. /\ IsMap(Revalidated(t.devices, "UP"), DeviceIds, DeviceRecord)
        /\ IsMap(Revalidated(t.switches, "UP"), SwitchIds, SwitchRecord)
        /\ IsMap(Revalidated(t.ports, "UP"), PortIds, PortRecord)
        /\ IsMap(Revalidated(t.links, "UP"), LinkIds, LinkRecord)
        /\ IsMap(Revalidated(t.partitions, "ACTIVE"), PartitionIds, PartitionRecord)
    BY <1>1, MovedMap, MovedRecords, MovedPartitions DEF IsTopology, Revalidated
  <1>3. IsTopology(u)  BY <1>2 DEF IsTopology
  <1>4. QED  BY <1>3, AdvanceTopology DEF RevalidatedTopology

\* applyBulk yields a topology.
LEMMA BulkSound ==
    ASSUME NEW t, IsTopology(t), NEW e, IsBulkEdit(e)
    PROVE  IsTopology(BulkTopology(t, e))
  <1> DEFINE u == [t EXCEPT !.devices = Overlay(@, e.devices), !.switches = Overlay(@, e.switches),
                            !.ports = Overlay(@, e.ports), !.links = Overlay(@, e.links),
                            !.partitions = Overlay(@, e.partitions)]
  <1>1. /\ IsMap(Overlay(t.devices, e.devices), DeviceIds, DeviceRecord)
        /\ IsMap(Overlay(t.switches, e.switches), SwitchIds, SwitchRecord)
        /\ IsMap(Overlay(t.ports, e.ports), PortIds, PortRecord)
        /\ IsMap(Overlay(t.links, e.links), LinkIds, LinkRecord)
        /\ IsMap(Overlay(t.partitions, e.partitions), PartitionIds, PartitionRecord)
    BY OverlayMap DEF IsTopology, IsBulkEdit
  <1>2. IsTopology(u)  BY <1>1 DEF IsTopology
  <1>3. QED  BY <1>2, AdvanceTopology DEF BulkTopology

\* A step that leaves the snapshot alone keeps its invariant.
LEMMA SnapshotStutter ==
    ASSUME SnapshotOK, UNCHANGED snapshotVars
    PROVE  SnapshotOK' /\ GenerationsKept(current, current')
  <1>1. GenerationsKept(current, current)
    <2>1. /\ \A r \in SwitchRecord : r.gen \in Nat
          /\ \A r \in PortRecord : r.gen \in Nat
          /\ \A r \in LinkRecord : r.gen \in Nat
          /\ \A r \in PartitionRecord : r.gen \in Nat
      BY DEF SwitchRecord, PortRecord, LinkRecord, PartitionRecord, Gens
    <2>2. current.topologyGen \in Nat  BY DEF SnapshotOK, IsTopology, Gens
    <2>3. QED
      BY <2>1, <2>2 DEF GenerationsKept, NoGenDecreased, SnapshotOK, IsTopology, IsMap
  <1>2. QED
    BY <1>1 DEF SnapshotOK, snapshotVars, Integrity, RevokedBehind

\* Measurements, fencing, expiry and revalidation make sound edits or none.
LEMMA EvidenceStep ==
    ASSUME SnapshotOK, epoch \in Nat, EvidenceOps
    PROVE  SnapshotOK' /\ GenerationsKept(current, current')
  <1>0. IsTopology(current)  BY DEF SnapshotOK
  <1>1. ASSUME NEW m \in MeasurementInputs, PublishMeasurement(m)
        PROVE  SnapshotOK' /\ GenerationsKept(current, current')
    BY <1>1, SnapshotStutter DEF PublishMeasurement
  <1>2. ASSUME NEW owner \in Workers \X Boots, InvalidateForWorker(owner)
        PROVE  SnapshotOK' /\ GenerationsKept(current, current')
    BY <1>0, <1>2, FenceEdit, CommitSound DEF InvalidateForWorker, Mutate
  <1>3. ASSUME ExpireDynamicEvidence
        PROVE  SnapshotOK' /\ GenerationsKept(current, current')
    <2>1. Edit(ExpiredTopology(current), NothingRevoked)  BY <1>0, ExpiredSound, NoRevs
    <2>2. QED  BY <1>3, <2>1, CommitSound, SnapshotStutter DEF ExpireDynamicEvidence
  <1>4. ASSUME RevalidateAll
        PROVE  SnapshotOK' /\ GenerationsKept(current, current')
    <2>1. Edit(RevalidatedTopology(current), NothingRevoked)  BY <1>0, RevalidatedSound, NoRevs
    <2>2. QED  BY <1>4, <2>1, CommitSound DEF RevalidateAll, Mutate
  <1>5. QED  BY <1>1, <1>2, <1>3, <1>4 DEF EvidenceOps

\* applyBulk, the backend calls and setEpoch make sound edits or none.
LEMMA BulkStep ==
    ASSUME SnapshotOK, epoch \in Nat, BulkOps
    PROVE  SnapshotOK' /\ GenerationsKept(current, current')
  <1>0. IsTopology(current)  BY DEF SnapshotOK
  <1>1. ASSUME NEW e \in BulkEdits, ApplyBulk(e)
        PROVE  SnapshotOK' /\ GenerationsKept(current, current')
    <2>1. Edit(BulkTopology(current, e), NothingRevoked)
      BY <1>0, InputAssumption, BulkSound, NoRevs
    <2>2. QED  BY <1>1, <2>1, CommitSound DEF ApplyBulk, Mutate
  <1>2. ASSUME NEW b \in Backends, BindBackend(b)
        PROVE  SnapshotOK' /\ GenerationsKept(current, current')
    BY <1>2, SnapshotStutter DEF BindBackend
  <1>3. ASSUME NEW e \in Epochs, SetEpoch(e)
        PROVE  SnapshotOK' /\ GenerationsKept(current, current')
    BY <1>3, SnapshotStutter DEF SetEpoch
  <1>4. ASSUME NEW c \in Callers, ScanStart(c)
        PROVE  SnapshotOK' /\ GenerationsKept(current, current')
    BY <1>4, SnapshotStutter DEF ScanStart
  <1>5. ASSUME NEW c \in Callers, NEW b \in Backends, NEW e \in BackendScans[b], ScanApply(c, e)
        PROVE  SnapshotOK' /\ GenerationsKept(current, current')
    <2>1. Edit(BulkTopology(current, e), NothingRevoked)
      BY <1>0, BackendAssumption, BulkSound, NoRevs
    <2>2. QED  BY <1>5, <2>1, CommitSound, SnapshotStutter DEF ScanApply
  <1>6. ASSUME NEW c \in Callers, ScanFails(c)
        PROVE  SnapshotOK' /\ GenerationsKept(current, current')
    BY <1>6, SnapshotStutter DEF ScanFails
  <1>7. QED  BY <1>1, <1>2, <1>3, <1>4, <1>5, <1>6 DEF BulkOps

\* Route calls leave the snapshot alone.
LEMMA RouteStep ==
    ASSUME SnapshotOK, RouteOps
    PROVE  SnapshotOK' /\ GenerationsKept(current, current')
  BY SnapshotStutter DEF RouteOps, RouteSnapshot, RouteCompute, RouteLog, RecordDecision

-----------------------------------------------------------------------------
(* The logs, the counters and the calls in progress. *)

\* The rest of TypeOK.
LogsOK ==
    /\ epoch \in Nat
    /\ measurements \in Seq(Measurement) /\ Len(measurements) <= kMaxMeasurements
    /\ decisionLog \in Seq({decisionLog[i] : i \in DOMAIN decisionLog})
    /\ Len(decisionLog) <= kMaxHistory
    /\ nextDecisionId \in Nat \ {0}
    /\ nextMeasurementId \in Nat \ {0}
    /\ backend \in Backends \cup {NoBackend}
    /\ DOMAIN callers = Callers

\* The ids in use have been issued and are told apart.
IdsOK ==
    /\ \A i \in DOMAIN decisionLog : decisionLog[i].id \in Nat /\ decisionLog[i].id < nextDecisionId
    /\ \A c \in Callers : callers[c].pc = "computed" =>
          callers[c].decision.id \in Nat /\ callers[c].decision.id < nextDecisionId
    /\ DecisionIdsDistinct

\* A sequence is a sequence of its own elements.
LEMMA LogRange ==
    ASSUME NEW X, NEW log \in Seq(X)
    PROVE  log \in Seq({log[i] : i \in DOMAIN log})
  OBVIOUS

\* Logging keeps what the log held, or all of it but the oldest entry.
LEMMA LoggedFacts ==
    ASSUME LogsOK, NEW d
    PROVE  /\ Logged(d) \in Seq({Logged(d)[i] : i \in DOMAIN Logged(d)})
           /\ Len(Logged(d)) <= kMaxHistory
           /\ \A i \in DOMAIN Logged(d) :
                 Logged(d)[i] = d \/ \E j \in DOMAIN decisionLog : Logged(d)[i] = decisionLog[j]
  <1> DEFINE X == {decisionLog[i] : i \in DOMAIN decisionLog} \cup {d}
             log == Append(decisionLog, d)
  <1>1. decisionLog \in Seq(X) /\ d \in X /\ kMaxHistory \in Nat /\ Len(decisionLog) <= kMaxHistory
    BY LimitAssumption DEF LogsOK
  <1> HIDE DEF X
  <1>2. /\ log \in Seq(X) /\ Len(log) = Len(decisionLog) + 1
        /\ Tail(log) \in Seq(X) /\ Len(Tail(log)) = Len(decisionLog)
    BY <1>1
  <1>3. Logged(d) \in Seq(X) /\ Len(Logged(d)) <= kMaxHistory
    BY <1>1, <1>2 DEF Logged
  <1>4. \A i \in DOMAIN Logged(d) : Logged(d)[i] \in X
    BY <1>3
  <1>5. QED  BY <1>3, <1>4, LogRange DEF X

\* Appending to a bounded log keeps its type and its bound.
LEMMA PushedFacts ==
    ASSUME NEW T, NEW log \in Seq(T), NEW x \in T, NEW n \in Nat \ {0}, Len(log) <= n
    PROVE  Pushed(log, x, n) \in Seq(T) /\ Len(Pushed(log, x, n)) <= n
  BY DEF Pushed

\* Publishing a measurement, a caller's or a worker's, keeps the logs typed.
LEMMA MeasurementStep ==
    ASSUME LogsOK, NEW m \in Measurement, PublishMeasurement(m)
    PROVE  LogsOK'
  <1> DEFINE x == [m EXCEPT !.matched = TRUE, !.id = IF @ = 0 THEN nextMeasurementId ELSE @]
  <1>1. nextMeasurementId \in Nat \ {0}  BY DEF LogsOK
  <1>2. x \in Measurement  BY <1>1 DEF Measurement
  <1>3. /\ Pushed(measurements, x, kMaxMeasurements) \in Seq(Measurement)
        /\ Len(Pushed(measurements, x, kMaxMeasurements)) <= kMaxMeasurements
    BY <1>2, PushedFacts, LimitAssumption DEF LogsOK
  <1>4. nextMeasurementId' \in Nat \ {0}  BY <1>1 DEF PublishMeasurement
  <1>5. QED
    BY <1>3, <1>4 DEF LogsOK, PublishMeasurement, snapshotVars, logVars, callVars

\* Every step keeps the logs typed and within kMaxMeasurements and kMaxHistory.
LEMMA LogsStep ==
    ASSUME LogsOK, RegNext
    PROVE  LogsOK'
  <1>1. CASE DeviceOps \/ SwitchOps \/ PortOps \/ LinkOps \/ PartitionOps
    BY <1>1 DEF LogsOK, DeviceOps, SwitchOps, PortOps, LinkOps, PartitionOps, AddDevice,
         RemoveDevice, AddSwitch, RemoveSwitch, SetSwitchState, RestartSwitch, AddPort, RemovePort,
         SetPortState, AddLink, RemoveLink, SetLinkState, PublishCongestion, PublishPartition,
         RemovePartition, MarkPartitionStale, Mutate, measureVars, logVars, callVars
  <1>2. CASE EvidenceOps
    <2>1. ASSUME NEW m \in MeasurementInputs, PublishMeasurement(m)  PROVE LogsOK'
      BY <2>1, InputAssumption, MeasurementStep
    <2>2. ASSUME NEW owner \in Workers \X Boots, InvalidateForWorker(owner)  PROVE LogsOK'
      BY <2>2 DEF LogsOK, InvalidateForWorker, Mutate, measureVars, logVars, callVars
    <2>3. ASSUME ExpireDynamicEvidence  PROVE LogsOK'
      <3>1. /\ Unmatched(measurements) \in Seq(Measurement)
            /\ Len(Unmatched(measurements)) = Len(measurements)
        <4>1. \A r \in Measurement : [r EXCEPT !.matched = FALSE] \in Measurement
          BY DEF Measurement
        <4>2. measurements \in Seq(Measurement)  BY DEF LogsOK
        <4>3. \A i \in 1 .. Len(measurements) :
                 [measurements[i] EXCEPT !.matched = FALSE] \in Measurement
          BY <4>1, <4>2
        <4>4. Unmatched(measurements) =
                 [i \in 1 .. Len(measurements) |-> [measurements[i] EXCEPT !.matched = FALSE]]
          BY <4>2 DEF Unmatched
        <4>5. \A u : u \in [1 .. Len(measurements) -> Measurement] =>
                        u \in Seq(Measurement) /\ Len(u) = Len(measurements)
          BY <4>2
        <4>6. Unmatched(measurements) \in [1 .. Len(measurements) -> Measurement]
          BY <4>3, <4>4
        <4>7. QED  BY <4>5, <4>6
      <3>2. QED  BY <2>3, <3>1 DEF LogsOK, ExpireDynamicEvidence, logVars, callVars
    <2>4. ASSUME RevalidateAll  PROVE LogsOK'
      BY <2>4 DEF LogsOK, RevalidateAll, Mutate, measureVars, logVars, callVars
    <2>5. QED  BY <1>2, <2>1, <2>2, <2>3, <2>4 DEF EvidenceOps
  <1>3. CASE BulkOps
    BY <1>3, InputAssumption DEF LogsOK, BulkOps, ApplyBulk, BindBackend, SetEpoch, ScanStart,
         ScanFails, ScanApply, Mutate, measureVars, logVars, callVars
  <1>4. CASE RouteOps
    <2>1. ASSUME NEW d, decisionLog' = Logged(d), DOMAIN callers' = DOMAIN callers,
                 UNCHANGED <<epoch, measureVars, nextDecisionId, backend>>
          PROVE  LogsOK'
      <3>1. decisionLog' \in Seq({decisionLog'[i] : i \in DOMAIN decisionLog'})
        BY <2>1, LoggedFacts
      <3>2. Len(decisionLog') <= kMaxHistory  BY <2>1, LoggedFacts
      <3>3. QED  BY <2>1, <3>1, <3>2 DEF LogsOK, measureVars
    <2>2. ASSUME NEW c \in Callers, RouteCompute(c)  PROVE LogsOK'
      BY <2>2 DEF LogsOK, RouteCompute, measureVars
    <2>3. ASSUME NEW c \in Callers, RouteLog(c)  PROVE LogsOK'
      BY <2>1, <2>3 DEF RouteLog
    <2>4. ASSUME NEW c \in Callers, NEW q \in Queries, NEW p \in Policies,
                 RouteSnapshot(c, q[1], q[2], p)
          PROVE  LogsOK'
      BY <2>4 DEF LogsOK, RouteSnapshot, measureVars, logVars
    <2>5. ASSUME NEW i \in DOMAIN decisionLog, RecordDecision(decisionLog[i])  PROVE LogsOK'
      BY <2>1, <2>5 DEF RecordDecision, callVars
    <2>6. QED  BY <1>4, <2>2, <2>3, <2>4, <2>5 DEF RouteOps
  <1>5. QED  BY <1>1, <1>2, <1>3, <1>4 DEF RegNext

\* computeRoute keeps the id it is given, whatever it decides.
LEMMA ComputeRouteId ==
    ASSUME NEW t, NEW s, NEW d, NEW p, NEW m, NEW id, NEW ep
    PROVE  ComputeRoute(t, s, d, p, m, id, ep).id = id
  BY DEF ComputeRoute, Refused, Granted

\* The decisions of the calls in progress stay, or a call ends.
LEMMA IdsKept ==
    ASSUME IdsOK, LogsOK, UNCHANGED <<decisionLog, nextDecisionId>>,
           \A k \in Callers : callers'[k] = callers[k] \/ callers'[k].pc # "computed"
    PROVE  IdsOK'
  BY DEF IdsOK, DecisionIdsDistinct

\* Every step keeps the decision ids issued and distinct.
LEMMA IdsStep ==
    ASSUME IdsOK, LogsOK, RegNext
    PROVE  IdsOK'
  <1>0. nextDecisionId \in Nat /\ DOMAIN callers = Callers  BY DEF LogsOK
  <1>1. CASE \/ DeviceOps \/ SwitchOps \/ PortOps \/ LinkOps \/ PartitionOps \/ EvidenceOps
    BY <1>1, IdsKept DEF DeviceOps, SwitchOps, PortOps, LinkOps, PartitionOps, EvidenceOps,
         AddDevice, RemoveDevice, AddSwitch, RemoveSwitch, SetSwitchState, RestartSwitch, AddPort,
         RemovePort, SetPortState, AddLink, RemoveLink, SetLinkState, PublishCongestion,
         PublishPartition, RemovePartition, MarkPartitionStale, PublishMeasurement,
         InvalidateForWorker, ExpireDynamicEvidence, RevalidateAll, Mutate, logVars, callVars
  <1>2. CASE BulkOps
    <2>1. ASSUME NEW c \in Callers, NEW r, r.pc # "computed", callers' = [callers EXCEPT ![c] = r],
                 UNCHANGED logVars
          PROVE  IdsOK'
      BY <1>0, <2>1, IdsKept DEF logVars
    <2>2. ASSUME NEW c \in Callers, ScanStart(c)  PROVE IdsOK'
      BY <2>1, <2>2 DEF ScanStart
    <2>3. ASSUME NEW c \in Callers, ScanFails(c)  PROVE IdsOK'
      BY <2>1, <2>3 DEF ScanFails, Idle
    <2>4. ASSUME NEW c \in Callers, NEW e, ScanApply(c, e)  PROVE IdsOK'
      BY <2>1, <2>4 DEF ScanApply, Idle
    <2>5. CASE UNCHANGED <<logVars, callers>>
      BY <2>5, IdsKept DEF logVars
    <2>6. QED
      BY <1>2, <2>2, <2>3, <2>4, <2>5 DEF BulkOps, ApplyBulk, BindBackend, SetEpoch, Mutate,
           callVars
  <1>3. ASSUME NEW c \in Callers, NEW q \in Queries, NEW p \in Policies,
               RouteSnapshot(c, q[1], q[2], p)
        PROVE  IdsOK'
    BY <1>0, <1>3, IdsKept DEF RouteSnapshot, logVars
  <1>4. ASSUME NEW c \in Callers, RouteCompute(c)  PROVE IdsOK'
    <2>1. /\ callers'[c].pc = "computed"
          /\ callers'[c].decision.id = nextDecisionId
      BY <1>0, <1>4, ComputeRouteId DEF RouteCompute
    <2>2. \A k \in Callers \ {c} : callers'[k] = callers[k]
      BY <1>0, <1>4 DEF RouteCompute
    <2>3. nextDecisionId' = nextDecisionId + 1 /\ decisionLog' = decisionLog
      BY <1>4 DEF RouteCompute
    <2>4. QED  BY <1>0, <2>1, <2>2, <2>3 DEF IdsOK, DecisionIdsDistinct
  <1>5. ASSUME NEW c \in Callers, RouteLog(c)  PROVE IdsOK'
    <2> DEFINE d == callers[c].decision
    <2>1. callers[c].pc = "computed" /\ callers'[c].pc = "idle"
      BY <1>0, <1>5 DEF RouteLog, Idle
    <2>2. \A k \in Callers \ {c} : callers'[k] = callers[k]
      BY <1>0, <1>5 DEF RouteLog
    <2>3. \A i \in DOMAIN decisionLog' :
             decisionLog'[i] = d \/ \E j \in DOMAIN decisionLog : decisionLog'[i] = decisionLog[j]
      BY <1>5, LoggedFacts DEF RouteLog
    <2>4. nextDecisionId' = nextDecisionId  BY <1>5 DEF RouteLog
    <2>5. QED  BY <1>0, <2>1, <2>2, <2>3, <2>4 DEF IdsOK, DecisionIdsDistinct
  <1>6. ASSUME NEW k \in DOMAIN decisionLog, RecordDecision(decisionLog[k])  PROVE IdsOK'
    <2>1. \A i \in DOMAIN decisionLog' :
             \E j \in DOMAIN decisionLog : decisionLog'[i] = decisionLog[j]
      BY <1>6, LoggedFacts DEF RecordDecision
    <2>2. UNCHANGED <<nextDecisionId, callers>>  BY <1>6 DEF RecordDecision, callVars
    <2>3. QED  BY <2>1, <2>2 DEF IdsOK, DecisionIdsDistinct
  <1>7. QED  BY <1>1, <1>2, <1>3, <1>4, <1>5, <1>6 DEF RegNext, RouteOps

-----------------------------------------------------------------------------

\* The inductive invariant.
RegInv == SnapshotOK /\ LogsOK /\ IdsOK

\* The constructor establishes the invariant.
LEMMA RegInitInv ==
    ASSUME RegInit
    PROVE  RegInv
  <1>1. SnapshotOK
    <2>1. IsTopology(InitialTopology)
      BY WidthAssumption DEF IsTopology, InitialTopology, EmptyMap, IsMap, Gens, Provenance
    <2>2. Integrity
      BY DEF RegInit, InitialTopology, EmptyMap, Integrity
    <2>5. Whole(current)
      BY FS_EmptySet, LimitAssumption DEF RegInit, InitialTopology, EmptyMap, Whole,
           CheckIntegrity, WithinLimits
    <2>3. revoked \in Revocations /\ RevokedBehind
      BY DEF RegInit, NothingRevoked, Revocations, RevokedBehind, Behind
    <2>4. QED  BY <2>1, <2>2, <2>3, <2>5, LimitAssumption DEF SnapshotOK, RegInit
  <1>2. LogsOK
    BY LimitAssumption DEF LogsOK, RegInit
  <1>3. IdsOK
    BY DEF IdsOK, DecisionIdsDistinct, RegInit, Idle
  <1>4. QED  BY <1>1, <1>2, <1>3 DEF RegInv

\* Every step keeps the invariant and lowers no generation.
LEMMA RegStep ==
    ASSUME RegInv, [RegNext]_regVars
    PROVE  RegInv' /\ GenerationsKept(current, current')
  <1>1. CASE RegNext
    <2>1. SnapshotOK' /\ GenerationsKept(current, current')
      BY <1>1, DeviceStep, SwitchStep, PortStep, LinkStep, PartitionStep, EvidenceStep, BulkStep,
         RouteStep DEF RegNext, RegInv, LogsOK
    <2>2. QED  BY <1>1, <2>1, LogsStep, IdsStep DEF RegInv
  <1>2. CASE UNCHANGED regVars
    <2>1. SnapshotOK' /\ GenerationsKept(current, current')
      BY <1>2, SnapshotStutter DEF RegInv, regVars, snapshotVars
    <2>2. LogsOK' /\ IdsOK'
      BY <1>2 DEF RegInv, regVars, LogsOK, IdsOK, DecisionIdsDistinct
    <2>3. QED  BY <2>1, <2>2 DEF RegInv
  <1>3. QED  BY <1>1, <1>2

\* The inductive invariant holds in every reachable state of the registry.
THEOREM RegInvariance == RegSpec => []RegInv
  <1>1. RegInit => RegInv  BY RegInitInv
  <1>2. RegInv /\ [RegNext]_regVars => RegInv'  BY RegStep
  <1>3. QED  BY <1>1, <1>2, PTL DEF RegSpec

\* The registry keeps its snapshot, counters and logs typed and the logs
\* within their limits, for all limits, inputs and numbers of threads.
THEOREM TypeCorrect == RegSpec => []TypeOK
  <1>1. RegInv => TypeOK  BY DEF RegInv, SnapshotOK, LogsOK, TypeOK
  <1>2. QED  BY <1>1, RegInvariance, PTL

\* No published snapshot has a dangling reference: whatever add, remove, bulk
\* and scan calls are made, in whatever order, validateCandidate lets none by.
THEOREM IntegrityCorrect == RegSpec => []Integrity
  <1>1. RegInv => Integrity  BY DEF RegInv, SnapshotOK
  <1>2. QED  BY <1>1, RegInvariance, PTL

\* No step lowers the generation of an entity that stays, or of the topology;
\* 64-bit wrap-around included.
THEOREM GenerationsNeverDecrease == RegSpec => GenerationsMonotone
  <1>1. RegInv /\ [RegNext]_regVars => [GenerationsKept(current, current')]_regVars
    BY RegStep
  <1>2. QED  BY <1>1, RegInvariance, PTL DEF RegSpec, GenerationsMonotone

\* route() hands out no decision id twice, however many threads call it and
\* wherever they are interrupted between its critical sections.
THEOREM DecisionIdsUnique == RegSpec => []DecisionIdsDistinct
  <1>1. RegInv => DecisionIdsDistinct  BY DEF RegInv, IdsOK
  <1>2. QED  BY <1>1, RegInvariance, PTL

\* A generation that a failure, a restart, a fencing or a partition change has
\* revoked stays behind the current one for as long as the entity exists.
THEOREM RevokedStaysBehind ==
    ASSUME Headroom
    PROVE  RegSpec => []RevokedBehind
  <1>1. RegInv => RevokedBehind  BY DEF RegInv, SnapshotOK
  <1>2. QED  BY <1>1, RegInvariance, PTL

\* routeDecisionStillAuthoritative refuses a decision that rests on a
\* generation that is behind.
LEMMA BehindNotAuthoritative ==
    ASSUME SnapshotOK, RevokedBehind, NEW d, RestsOnRevoked(d)
    PROVE  ~ StillAuthoritative(d, current)
  <1>0. Gens \subseteq Nat  BY DEF Gens
  <1>1. ASSUME NEW r \in revoked.switches, r[1] \in DOMAIN d.switchGens, d.switchGens[r[1]] = r[2]
        PROVE  ~ SwitchesUnchanged(current, d)
    <2>1. r[1] \in DOMAIN current.switches /\ current.switches[r[1]].gen > r[2]
      BY <1>1 DEF RevokedBehind, Behind
    <2>2. r[2] \in Nat /\ current.switches[r[1]].gen \in Nat
      BY <1>0, <1>1, <2>1 DEF SnapshotOK, Revocations, IsTopology, IsMap, SwitchRecord
    <2>3. QED  BY <1>1, <2>1, <2>2 DEF SwitchesUnchanged
  <1>2. ASSUME NEW r \in revoked.ports, r[1] \in DOMAIN d.portGens, d.portGens[r[1]] = r[2]
        PROVE  ~ PortsUnchanged(current, d)
    <2>1. r[1] \in DOMAIN current.ports /\ current.ports[r[1]].gen > r[2]
      BY <1>2 DEF RevokedBehind, Behind
    <2>2. r[2] \in Nat /\ current.ports[r[1]].gen \in Nat
      BY <1>0, <1>2, <2>1 DEF SnapshotOK, Revocations, IsTopology, IsMap, PortRecord
    <2>3. QED  BY <1>2, <2>1, <2>2 DEF PortsUnchanged
  <1>3. ASSUME <<d.partition, d.partitionGen>> \in revoked.partitions
        PROVE  ~ PartitionUnchanged(current, d)
    <2>1. /\ d.partition \in DOMAIN current.partitions
          /\ current.partitions[d.partition].gen > d.partitionGen
      BY <1>3 DEF RevokedBehind, Behind
    <2>2. d.partition \in PartitionIds /\ d.partitionGen \in Gens
      BY <1>3 DEF SnapshotOK, Revocations
    <2>3. d.partitionGen \in Nat /\ current.partitions[d.partition].gen \in Nat
      BY <1>0, <2>1, <2>2 DEF SnapshotOK, IsTopology, IsMap, PartitionRecord
    <2>4. d.partition # NoPartition  BY <2>2, IdAssumption DEF NoPartition
    <2>5. QED  BY <2>1, <2>3, <2>4 DEF PartitionUnchanged
  <1>4. QED  BY <1>1, <1>2, <1>3 DEF RestsOnRevoked, StillAuthoritative

\* A decision that rests on something revoked is never authoritative again,
\* whenever it was computed and logged, and even once the entity is UP again.
THEOREM RevocationIsFinal ==
    ASSUME Headroom
    PROVE  RegSpec => []RevokedNeverAuthoritative
  <1>1. RegInv => RevokedNeverAuthoritative
    BY BehindNotAuthoritative DEF RegInv, SnapshotOK, RevokedNeverAuthoritative
  <1>2. QED  BY <1>1, RegInvariance, PTL
-----------------------------------------------------------------------------
(* The cascades of the removals. *)

\* Erasing entries of a map lowers no generation.
LEMMA EraseKeepsGens ==
    ASSUME NEW S, NEW T, NEW m, IsMap(m, S, T), \A r \in T : r.gen \in Nat, NEW K
    PROVE  NoGenDecreased(m, Erase(m, K))
  <1>1. ASSUME NEW x \in DOMAIN m \cap DOMAIN Erase(m, K)
        PROVE  Erase(m, K)[x] = m[x] /\ m[x].gen \in Nat
    BY <1>1 DEF IsMap, Erase
  <1>2. QED  BY <1>1 DEF NoGenDecreased

\* Erasing entries of a map with finitely many keys does not make it larger.
LEMMA EraseShrinks ==
    ASSUME NEW S, NEW T, NEW m, IsMap(m, S, T), IsFiniteSet(S), NEW K, NEW n \in Nat,
           Cardinality(DOMAIN m) <= n
    PROVE  Cardinality(DOMAIN Erase(m, K)) <= n
  <1>1. IsFiniteSet(DOMAIN m)  BY FS_Subset DEF IsMap
  <1>2. DOMAIN Erase(m, K) \in SUBSET DOMAIN m  BY DEF Erase
  <1>3. Cardinality(DOMAIN Erase(m, K)) <= Cardinality(DOMAIN m)  BY <1>1, <1>2, FS_Subset
  <1>4. Cardinality(DOMAIN Erase(m, K)) \in Nat /\ Cardinality(DOMAIN m) \in Nat
    BY <1>1, <1>2, FS_Subset, FS_CardinalityType
  <1>5. QED  BY <1>3, <1>4

\* A removal of devices, switches, ports and links.
Erased(t, D, S, P, L) ==
    Advance([t EXCEPT !.devices = Erase(@, D), !.switches = Erase(@, S),
                      !.ports = Erase(@, P), !.links = Erase(@, L)])

\* Any removal of devices, switches, ports and links keeps the topology within
\* its limits and lowers no generation, unless the topology's own wraps.
LEMMA ErasedSuccessor ==
    ASSUME NEW t, IsTopology(t), WithinLimits(t), t.topologyGen + 1 < U64,
           NEW D, NEW S, NEW P, NEW L, NEW u, u = Erased(t, D, S, P, L)
    PROVE  /\ WithinLimits(u) /\ GenerationsKept(t, u)
           /\ u.devices = Erase(t.devices, D) /\ u.switches = Erase(t.switches, S)
           /\ u.ports = Erase(t.ports, P) /\ u.links = Erase(t.links, L)
           /\ u.partitions = t.partitions
  <1>1. /\ u.devices = Erase(t.devices, D) /\ u.switches = Erase(t.switches, S)
        /\ u.ports = Erase(t.ports, P) /\ u.links = Erase(t.links, L)
        /\ u.partitions = t.partitions /\ u.topologyGen = NextGen(t.topologyGen)
    BY DEF Erased, Advance, IsTopology
  <1>2. /\ IsMap(t.devices, DeviceIds, DeviceRecord) /\ IsMap(t.switches, SwitchIds, SwitchRecord)
        /\ IsMap(t.ports, PortIds, PortRecord) /\ IsMap(t.links, LinkIds, LinkRecord)
        /\ IsMap(t.partitions, PartitionIds, PartitionRecord)
    BY DEF IsTopology
  <1>3. IsFiniteSet(PortIds)  BY IdWidthAssumption, FS_Product DEF PortIds
  <1>4. WithinLimits(u)
    <2>1. Cardinality(DOMAIN u.devices) <= kMaxDevices
      BY <1>1, <1>2, IdWidthAssumption, LimitAssumption, EraseShrinks DEF WithinLimits
    <2>2. Cardinality(DOMAIN u.switches) <= kMaxSwitches
      BY <1>1, <1>2, IdWidthAssumption, LimitAssumption, EraseShrinks DEF WithinLimits
    <2>3. Cardinality(DOMAIN u.ports) <= kMaxPorts
      BY <1>1, <1>2, <1>3, LimitAssumption, EraseShrinks DEF WithinLimits
    <2>4. Cardinality(DOMAIN u.links) <= kMaxLinks
      BY <1>1, <1>2, IdWidthAssumption, LimitAssumption, EraseShrinks DEF WithinLimits
    <2>5. QED  BY <1>1, <2>1, <2>2, <2>3, <2>4 DEF WithinLimits
  <1>5. GenerationsKept(t, u)
    <2>1. /\ \A r \in SwitchRecord : r.gen \in Nat
          /\ \A r \in PortRecord : r.gen \in Nat
          /\ \A r \in LinkRecord : r.gen \in Nat
          /\ \A r \in PartitionRecord : r.gen \in Nat
      BY DEF SwitchRecord, PortRecord, LinkRecord, PartitionRecord, Gens
    <2>2. NoGenDecreased(t.switches, u.switches)  BY <1>1, <1>2, <2>1, EraseKeepsGens
    <2>3. NoGenDecreased(t.ports, u.ports)  BY <1>1, <1>2, <2>1, EraseKeepsGens
    <2>4. NoGenDecreased(t.links, u.links)  BY <1>1, <1>2, <2>1, EraseKeepsGens
    <2>5. NoGenDecreased(t.partitions, u.partitions)
      BY <1>1, <1>2, <2>1 DEF NoGenDecreased, IsMap
    <2>6. t.topologyGen \in Gens  BY DEF IsTopology
    <2>7. u.topologyGen >= t.topologyGen  BY <1>1, <2>6 DEF Gens, NextGen
    <2>8. QED  BY <2>2, <2>3, <2>4, <2>5, <2>7 DEF GenerationsKept
  <1>6. QED  BY <1>1, <1>4, <1>5

\* A record update that leaves a map alone erases nothing from it.
LEMMA EraseNothing ==
    ASSUME NEW S, NEW T, NEW m, IsMap(m, S, T)
    PROVE  Erase(m, {}) = m
  BY DEF IsMap, Erase

\* removeDevice erases the links that end at the device, and so leaves none
\* that misses its far end.
LEMMA WithoutDeviceValid ==
    ASSUME NEW t, IsTopology(t), Whole(t), t.topologyGen + 1 < U64, NEW d \in DOMAIN t.devices,
           \A q \in DOMAIN t.partitions : d \notin t.partitions[q].members
    PROVE  ValidSuccessor(t, WithoutDevice(t, d))
  <1> DEFINE L == {l \in DOMAIN t.links : t.links[l].otherEnd = DeviceEnd(d)}
             u == WithoutDevice(t, d)
  <1>1. /\ Erase(t.switches, {}) = t.switches /\ Erase(t.ports, {}) = t.ports
    BY EraseNothing DEF IsTopology
  <1>2. u = Erased(t, {d}, {}, {}, L)
    BY <1>1 DEF Erased, WithoutDevice, IsTopology
  <1> HIDE DEF u, L
  <1>3. /\ WithinLimits(u) /\ GenerationsKept(t, u)
        /\ u.devices = Erase(t.devices, {d}) /\ u.switches = t.switches
        /\ u.ports = t.ports /\ u.links = Erase(t.links, L) /\ u.partitions = t.partitions
    BY <1>1, <1>2, ErasedSuccessor DEF Whole
  <1>4. ASSUME NEW l \in DOMAIN u.links  PROVE LinkIntegrity(u, l)
    <2>1. l \in DOMAIN t.links /\ u.links[l] = t.links[l] /\ t.links[l].otherEnd # DeviceEnd(d)
      BY <1>3, <1>4 DEF Erase, L
    <2>2. LinkIntegrity(t, l)  BY <2>1 DEF Whole, CheckIntegrity
    <2>3. t.links[l].otherEnd \in LinkEnds  BY <2>1 DEF IsTopology, IsMap, LinkRecord
    <2>4. t.links[l].otherEnd.kind = "Device" => t.links[l].otherEnd.id # d
      BY <2>1, <2>3 DEF LinkEnds, DeviceEnd
    <2>5. QED  BY <1>3, <2>1, <2>2, <2>4 DEF LinkIntegrity, Erase
  <1>5. ASSUME NEW q \in DOMAIN u.partitions  PROVE PartitionIntegrity(u, q)
    BY <1>3, <1>5 DEF Whole, CheckIntegrity, PartitionIntegrity, Erase
  <1>6. \A p \in DOMAIN u.ports : PortIntegrity(u, p)
    BY <1>3 DEF Whole, CheckIntegrity, PortIntegrity
  <1>7. QED  BY <1>3, <1>4, <1>5, <1>6 DEF ValidSuccessor, CheckIntegrity, u

\* removeSwitch erases the switch's ports, the links out of it and the links
\* that end at it, and so leaves none of them dangling.
LEMMA WithoutSwitchValid ==
    ASSUME NEW t, IsTopology(t), Whole(t), t.topologyGen + 1 < U64, NEW s \in DOMAIN t.switches,
           \A q \in DOMAIN t.partitions : s \notin t.partitions[q].switches
    PROVE  ValidSuccessor(t, WithoutSwitch(t, s))
  <1> DEFINE P == {p \in DOMAIN t.ports : p[1] = s}
             L == {l \in DOMAIN t.links : \/ t.links[l].rootSwitch = s
                                          \/ t.links[l].otherEnd = SwitchEnd(s)}
             u == WithoutSwitch(t, s)
  <1>1. Erase(t.devices, {}) = t.devices  BY EraseNothing DEF IsTopology
  <1>2. u = Erased(t, {}, {s}, P, L)
    BY <1>1 DEF Erased, WithoutSwitch, IsTopology
  <1> HIDE DEF u, L
  <1>3. /\ WithinLimits(u) /\ GenerationsKept(t, u)
        /\ u.devices = t.devices /\ u.switches = Erase(t.switches, {s})
        /\ u.ports = Erase(t.ports, P) /\ u.links = Erase(t.links, L)
        /\ u.partitions = t.partitions
    BY <1>1, <1>2, ErasedSuccessor DEF Whole
  <1>4. ASSUME NEW l \in DOMAIN u.links  PROVE LinkIntegrity(u, l)
    <2>1. /\ l \in DOMAIN t.links /\ u.links[l] = t.links[l]
          /\ t.links[l].rootSwitch # s /\ t.links[l].otherEnd # SwitchEnd(s)
      BY <1>3, <1>4 DEF Erase, L
    <2>2. LinkIntegrity(t, l)  BY <2>1 DEF Whole, CheckIntegrity
    <2>3. t.links[l].otherEnd \in LinkEnds  BY <2>1 DEF IsTopology, IsMap, LinkRecord
    <2>4. t.links[l].otherEnd.kind # "Device" => t.links[l].otherEnd.id # s
      BY <2>1, <2>3 DEF LinkEnds, SwitchEnd
    <2>5. QED  BY <1>3, <2>1, <2>2, <2>4 DEF LinkIntegrity, Erase
  <1>5. ASSUME NEW q \in DOMAIN u.partitions  PROVE PartitionIntegrity(u, q)
    BY <1>3, <1>5 DEF Whole, CheckIntegrity, PartitionIntegrity, Erase
  <1>6. ASSUME NEW p \in DOMAIN u.ports  PROVE PortIntegrity(u, p)
    BY <1>3, <1>6 DEF Whole, CheckIntegrity, PortIntegrity, Erase
  <1>7. QED  BY <1>3, <1>4, <1>5, <1>6 DEF ValidSuccessor, CheckIntegrity, u

\* removePort erases the links that leave through the port.
LEMMA WithoutPortValid ==
    ASSUME NEW t, IsTopology(t), Whole(t), t.topologyGen + 1 < U64, NEW p \in DOMAIN t.ports
    PROVE  ValidSuccessor(t, WithoutPort(t, p))
  <1> DEFINE L == {l \in DOMAIN t.links : t.links[l].port = p}
             u == WithoutPort(t, p)
  <1>1. Erase(t.devices, {}) = t.devices /\ Erase(t.switches, {}) = t.switches
    BY EraseNothing DEF IsTopology
  <1>2. u = Erased(t, {}, {}, {p}, L)
    BY <1>1 DEF Erased, WithoutPort, IsTopology
  <1> HIDE DEF u, L
  <1>3. /\ WithinLimits(u) /\ GenerationsKept(t, u)
        /\ u.devices = t.devices /\ u.switches = t.switches
        /\ u.ports = Erase(t.ports, {p}) /\ u.links = Erase(t.links, L)
        /\ u.partitions = t.partitions
    BY <1>1, <1>2, ErasedSuccessor DEF Whole
  <1>4. ASSUME NEW l \in DOMAIN u.links  PROVE LinkIntegrity(u, l)
    <2>1. l \in DOMAIN t.links /\ u.links[l] = t.links[l] /\ t.links[l].port # p
      BY <1>3, <1>4 DEF Erase, L
    <2>2. LinkIntegrity(t, l)  BY <2>1 DEF Whole, CheckIntegrity
    <2>3. QED  BY <1>3, <2>1, <2>2 DEF LinkIntegrity, Erase
  <1>5. ASSUME NEW q \in DOMAIN u.partitions  PROVE PartitionIntegrity(u, q)
    BY <1>3, <1>5 DEF Whole, CheckIntegrity, PartitionIntegrity
  <1>6. ASSUME NEW k \in DOMAIN u.ports  PROVE PortIntegrity(u, k)
    BY <1>3, <1>6 DEF Whole, CheckIntegrity, PortIntegrity, Erase
  <1>7. QED  BY <1>3, <1>4, <1>5, <1>6 DEF ValidSuccessor, CheckIntegrity, u

\* The cascades of removeDevice, removeSwitch and removePort erase enough: in
\* every reachable state only a partition that names the entity, or the
\* exhausted topology counter, makes validation refuse the removal.
THEOREM CascadesErasedEnough == RegSpec => []CascadesSuffice
  <1>1. RegInv => CascadesSuffice
    BY WithoutDeviceValid, WithoutSwitchValid, WithoutPortValid
       DEF RegInv, SnapshotOK, CascadesSuffice, ValidateCandidate
  <1>2. QED  BY <1>1, RegInvariance, PTL

-----------------------------------------------------------------------------
(* The decisions of route(). *)

\* A granted decision of computeRoute has a path the snapshot offers.
LEMMA GrantedOffered ==
    ASSUME NEW t, NEW policy, NEW d, DecisionOK(t, d.source, d.destination, policy, d),
           d.outcome \in Allowed
    PROVE  PathOffered(t, d, policy)
  <1> DEFINE p == d.selected
             h == p.hops
             k == p.links
             from == d.source
             to == d.destination
  <1>1. /\ GateOutcome(t, from, to, policy) = "SEARCH"
        /\ Eligible(t, p, policy)
        /\ \E n \in Nat \ {0} : n <= policy.maxAllowedHops /\ LeadsFromTo(t, from, to, p, n)
    BY Zenon DEF DecisionOK
  <1>2. PICK n \in Nat \ {0} : n <= policy.maxAllowedHops /\ LeadsFromTo(t, from, to, p, n)
    BY <1>1
  <1>3. /\ Len(h) = n /\ DOMAIN h = 1 .. n /\ Len(k) = n + 1 /\ DOMAIN k = 1 .. (n + 1)
        /\ Joins(t, k[1], h[1].sw, DeviceEnd(from))
        /\ \A i \in 1 .. n :
              /\ Joins(t, k[i + 1], h[i].sw, IF i = n THEN DeviceEnd(to) ELSE SwitchEnd(h[i + 1].sw))
              /\ h[i].outPort = t.links[k[i + 1]].port
        /\ \A i \in 1 .. (n + 1) : EdgeUsable(t, k[i])
        /\ Cardinality(HopSwitches(p)) = n
    BY <1>2, Zenon DEF LeadsFromTo
  <1>4. \A l, s, far : Joins(t, l, s, far) => t.links[l].otherEnd = far /\ t.links[l].rootSwitch = s
    BY Zenon DEF Joins
  <1>5. ASSUME NEW i \in 1 .. n  PROVE t.switches[h[i].sw].state \notin Lost \cup Stale
    <2>1. h[i].sw \in HopSwitches(p)  BY <1>3, Zenon DEF HopSwitches
    <2>2. CurrentState(t.switches[h[i].sw].state)  BY <1>1, <2>1, Zenon DEF Eligible
    <2>3. \A s : CurrentState(s) => s \notin Lost \cup Stale  BY DEF CurrentState, Lost, Stale
    <2>4. QED  BY <2>2, <2>3, Zenon
  <1>6. policy.insidePartition /\ CurrentPartitions(t) # {}
           => \E q \in CurrentPartitions(t) : {from, to} \subseteq t.partitions[q].members
    <2>1. ASSUME policy.insidePartition, CurrentPartitions(t) # {},
                 ~ InCurrentPartition(t, {from, to})
          PROVE  GateOutcome(t, from, to, policy) # "SEARCH"
      BY <2>1 DEF GateOutcome
    <2>2. QED  BY <1>1, <2>1, Zenon DEF InCurrentPartition
  <1>7. n >= 1  OBVIOUS
  <1> HIDE DEF h, k, p, from, to
  <1>8. PathOffered(t, d, policy) <=>
          /\ n >= 1 /\ n <= policy.maxAllowedHops /\ Len(k) = n + 1
          /\ t.links[k[1]].otherEnd = DeviceEnd(from) /\ t.links[k[1]].rootSwitch = h[1].sw
          /\ \A i \in 1 .. n :
                /\ t.links[k[i + 1]].otherEnd
                      = (IF i = n THEN DeviceEnd(to) ELSE SwitchEnd(h[i + 1].sw))
                /\ t.links[k[i + 1]].rootSwitch = h[i].sw
                /\ h[i].outPort = t.links[k[i + 1]].port
                /\ t.switches[h[i].sw].state \notin Lost \cup Stale
          /\ \A i \in DOMAIN k : EdgeUsable(t, k[i])
          /\ Cardinality(HopSwitches(p)) = n
          /\ policy.insidePartition /\ CurrentPartitions(t) # {}
                => \E q \in CurrentPartitions(t) : {from, to} \subseteq t.partitions[q].members
    BY <1>3, Zenon DEF PathOffered, h, k, p, from, to
  <1>9. t.links[k[1]].otherEnd = DeviceEnd(from) /\ t.links[k[1]].rootSwitch = h[1].sw
    BY <1>3, <1>4, ZenonT(40)
  <1>10. ASSUME NEW i \in 1 .. n
         PROVE  /\ t.links[k[i + 1]].otherEnd
                      = (IF i = n THEN DeviceEnd(to) ELSE SwitchEnd(h[i + 1].sw))
                /\ t.links[k[i + 1]].rootSwitch = h[i].sw
                /\ h[i].outPort = t.links[k[i + 1]].port
    <2>1. Joins(t, k[i + 1], h[i].sw, IF i = n THEN DeviceEnd(to) ELSE SwitchEnd(h[i + 1].sw))
      BY <1>3, Zenon
    <2>2. h[i].outPort = t.links[k[i + 1]].port  BY <1>3, Zenon
    <2>3. QED  BY <1>4, <2>1, <2>2, Zenon
  <1>11. \A i \in DOMAIN k : EdgeUsable(t, k[i])  BY <1>3, Zenon
  <1>12. n <= policy.maxAllowedHops /\ Len(k) = n + 1 /\ Cardinality(HopSwitches(p)) = n
    BY <1>2, <1>3, Zenon
  <1>13. QED  BY <1>5, <1>6, <1>7, <1>8, <1>9, <1>10, <1>11, <1>12, Zenon

\* A call in progress has a snapshot that was published once, and what it has
\* decided the snapshot offers.
CallOK(k) ==
    /\ k.pc = "snapped" => /\ Searchable(k.snap)
                           /\ k.policy \in RoutePolicy
                           /\ k.measurements \in Seq(Measurement)
    /\ k.pc = "computed" /\ k.decision.outcome \in Allowed
          => PathOffered(k.snap, k.decision, k.policy)

CallsOK == \A c \in Callers : CallOK(callers[c])

\* computeRoute on such a snapshot.
LEMMA ComputedOffered ==
    ASSUME NEW t, Searchable(t), NEW s, NEW d, NEW policy \in RoutePolicy,
           NEW log \in Seq(Measurement), NEW id, NEW ep,
           NEW r, r = ComputeRoute(t, s, d, policy, log, id, ep), r.outcome \in Allowed
    PROVE  PathOffered(t, r, policy)
  <1>1. Rated(MatchedMeasurements(log, s, d))
    <2>1. Len(log) \in Nat /\ DOMAIN log = 1 .. Len(log) /\ \A i \in DOMAIN log : log[i] \in Measurement
      OBVIOUS
    <2>2. \A m \in Measurement : m.throughput \in Nat /\ m.latency \in Nat  BY DEF Measurement
    <2>3. \A i \in DOMAIN log : log[i].throughput \in Nat /\ log[i].latency \in Nat
      BY <2>1, <2>2, Zenon
    <2>4. QED  BY <2>1, <2>3, LogRated
  <1>2. DecisionOK(t, s, d, policy, r)  BY <1>1, DecisionSound
  <1>3. r.source = s /\ r.destination = d  BY <1>2, Zenon DEF DecisionOK
  <1>4. QED  BY <1>2, <1>3, GrantedOffered

\* The calls in progress stay, or one starts, goes on or ends.
LEMMA CallsKept ==
    ASSUME CallsOK, \A c \in Callers : callers'[c] = callers[c] \/ CallOK(callers'[c])
    PROVE  CallsOK'
  BY Zenon DEF CallsOK, CallOK

LEMMA CallsStep ==
    ASSUME RegInv, CallsOK, [RegNext]_regVars
    PROVE  CallsOK'
  <1>0. DOMAIN callers = Callers /\ measurements \in Seq(Measurement) /\ Searchable(current)
    BY DEF RegInv, LogsOK, SnapshotOK, Whole, Searchable
  <1>1. CASE UNCHANGED callers  BY <1>1, CallsKept
  <1>2. ASSUME NEW c \in Callers, NEW r, CallOK(r), callers' = [callers EXCEPT ![c] = r]
        PROVE  CallsOK'
    BY <1>0, <1>2, CallsKept
  <1>3. \A r : r.pc \notin {"snapped", "computed"} => CallOK(r)  BY DEF CallOK
  <1>4. CASE BulkOps
    BY <1>1, <1>2, <1>3, <1>4 DEF BulkOps, ApplyBulk, BindBackend, SetEpoch, ScanStart, ScanFails,
         ScanApply, Mutate, callVars, Idle
  <1>5. ASSUME NEW c \in Callers, NEW q \in Queries, NEW p \in Policies,
               RouteSnapshot(c, q[1], q[2], p)
        PROVE  CallsOK'
    <2> DEFINE r == [pc |-> "snapped", src |-> q[1], dst |-> q[2], policy |-> p,
                     snap |-> current, measurements |-> measurements]
    <2>1. CallOK(r)  BY <1>0, InputAssumption DEF CallOK
    <2>2. callers' = [callers EXCEPT ![c] = r]  BY <1>5, Zenon DEF RouteSnapshot
    <2>3. QED  BY <1>2, <2>1, <2>2
  <1>6. ASSUME NEW c \in Callers, RouteCompute(c)  PROVE CallsOK'
    <2> DEFINE k == callers[c]
               d == ComputeRoute(k.snap, k.src, k.dst, k.policy, k.measurements, nextDecisionId, epoch)
               r == [pc |-> "computed", policy |-> k.policy, snap |-> k.snap, decision |-> d]
    <2>1. k.pc = "snapped" /\ callers' = [callers EXCEPT ![c] = r]  BY <1>6, Zenon DEF RouteCompute
    <2>2. /\ Searchable(k.snap) /\ k.policy \in RoutePolicy
          /\ k.measurements \in Seq(Measurement)
      BY <2>1, Zenon DEF CallsOK, CallOK
    <2>3. d.outcome \in Allowed => PathOffered(k.snap, d, k.policy)  BY <2>2, ComputedOffered
    <2>4. r.pc = "computed" /\ r.decision = d /\ r.snap = k.snap /\ r.policy = k.policy  OBVIOUS
    <2> HIDE DEF r, d, k
    <2>5. CallOK(r)  BY <2>3, <2>4 DEF CallOK
    <2>6. QED  BY <1>2, <2>1, <2>5
  <1>7. ASSUME NEW c \in Callers, RouteLog(c)  PROVE CallsOK'
    BY <1>2, <1>3, <1>7 DEF RouteLog, Idle
  <1>8. CASE UNCHANGED regVars  BY <1>1, <1>8 DEF regVars
  <1>9. CASE \/ DeviceOps \/ SwitchOps \/ PortOps \/ LinkOps \/ PartitionOps \/ EvidenceOps
    BY <1>1, <1>9 DEF DeviceOps, SwitchOps, PortOps, LinkOps, PartitionOps, EvidenceOps,
         AddDevice, RemoveDevice, AddSwitch, RemoveSwitch, SetSwitchState, RestartSwitch, AddPort,
         RemovePort, SetPortState, AddLink, RemoveLink, SetLinkState, PublishCongestion,
         PublishPartition, RemovePartition, MarkPartitionStale, PublishMeasurement,
         InvalidateForWorker, ExpireDynamicEvidence, RevalidateAll, Mutate, callVars
  <1>10. ASSUME NEW d, RecordDecision(d)  PROVE CallsOK'
    BY <1>1, <1>10 DEF RecordDecision, callVars
  <1>11. QED
    BY <1>4, <1>5, <1>6, <1>7, <1>8, <1>9, <1>10 DEF RegNext, RouteOps

\* Every route that is granted is one its snapshot offers: from source to
\* destination over usable links, through different switches that are neither
\* lost nor stale, within the hop limit and, when asked for, inside one
\* partition; in every fabric, and whatever happens to the registry between
\* the critical sections of route().
THEOREM GrantedRoutesSound == RegSpec => []RouteSound
  <1>1. RegInit => CallsOK  BY DEF RegInit, Idle, CallsOK, CallOK
  <1>2. RegInv /\ CallsOK /\ [RegNext]_regVars => CallsOK'  BY CallsStep
  <1>3. CallsOK => RouteSound  BY Zenon DEF CallsOK, CallOK, RouteSound
  <1>4. QED  BY <1>1, <1>2, <1>3, RegInvariance, PTL DEF RegSpec
=============================================================================
