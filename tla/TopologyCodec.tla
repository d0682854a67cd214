--------------------------- MODULE TopologyCodec ----------------------------
(***************************************************************************)
(* The payload a topology is saved and published as (persistence.cpp,      *)
(* encodeTopologyPayload and decodeTopologyPayload): the fields of its     *)
(* records one after the other, map by map, each map preceded by its size. *)
(*                                                                         *)
(* A payload is a sequence of fields; the bytes of a field (wire.cpp,      *)
(* little endian, strings with their length) are left out, so a reader     *)
(* that would stop inside a field stops before it: either way it fails.    *)
(* The fields are the modelled ones, in the order the code writes them.    *)
(***************************************************************************)
EXTENDS FabricTopology

OwnerFields(o) == IF o = NoOwner THEN <<"", FALSE, 0>> ELSE <<o[1], TRUE, o[2]>>

EndFields(e) == IF e.kind = "Device" THEN <<e.kind, e.id, 0>> ELSE <<e.kind, 0, e.id>>

encodeDevice(id, r) == <<id, r.present, r.state>> \o OwnerFields(r.owner) \o <<r.provenance>>

encodeSwitch(id, r) ==
    <<id, r.gen, r.portCount, r.state>> \o OwnerFields(r.owner) \o <<r.provenance>>

encodePort(id, r) ==
    <<id[1], id[2], r.gen, r.state>> \o OwnerFields(r.owner) \o <<r.provenance>>

encodeLink(id, r) ==
    <<id, r.gen, r.rootSwitch, r.port[1], r.port[2]>> \o EndFields(r.otherEnd)
        \o <<r.state, r.degraded>> \o OwnerFields(r.owner) \o <<r.provenance>>

encodePartition(id, r) ==
    LET List(S) == <<Cardinality(S)>> \o Ordered(S, <)
    IN  <<id, r.gen, r.fabric>> \o List(r.members) \o List(r.switches)
            \o <<r.state>> \o OwnerFields(r.owner) \o <<r.provenance>>

encodeRecord(kind, id, r) ==
    CASE kind = "devices" -> encodeDevice(id, r)
      [] kind = "switches" -> encodeSwitch(id, r)
      [] kind = "ports" -> encodePort(id, r)
      [] kind = "links" -> encodeLink(id, r)
      [] kind = "partitions" -> encodePartition(id, r)

PortBefore(p, q) == p[1] < q[1] \/ (p[1] = q[1] /\ p[2] < q[2])

\* A std::map is written in the order of its keys.
EncodeMap(t, kind) ==
    LET Before(a, b) == IF kind = "ports" THEN PortBefore(a, b) ELSE a < b
        keys == Ordered(DOMAIN t[kind], Before)
    IN  <<Len(keys)>>
            \o FlattenSeq([i \in DOMAIN keys |-> encodeRecord(kind, keys[i], t[kind][keys[i]])])

encodeTopologyPayload(t) ==
    <<t.id, t.topologyGen, t.epoch, t.provenance>>
        \o EncodeMap(t, "devices") \o EncodeMap(t, "switches") \o EncodeMap(t, "ports")
        \o EncodeMap(t, "links") \o EncodeMap(t, "partitions")

-----------------------------------------------------------------------------
(* Decoding.  A decoder of one record looks at the fields that are left and *)
(* says how many it takes, or that it needs more than there are.            *)

Drop(s, n) == SubSeq(s, n + 1, Len(s))

OwnerIn(f) == IF f[2] THEN <<f[1], f[3]>> ELSE NoOwner

EndIn(f) == IF f[1] = "Device" THEN DeviceEnd(f[2]) ELSE SwitchEnd(f[3])

Taken(width, key, rec) == [width |-> width, key |-> key, rec |-> rec]

decodeDevice(f) ==
    Taken(7, f[1], [present |-> f[2], state |-> f[3], owner |-> OwnerIn(Drop(f, 3)),
                    provenance |-> f[7]])

decodeSwitch(f) ==
    Taken(8, f[1], [gen |-> f[2], portCount |-> f[3], state |-> f[4],
                    owner |-> OwnerIn(Drop(f, 4)), provenance |-> f[8]])

\* Defect: the index is read before the switch.
decodePort_Swapped(f) ==
    Taken(8, <<f[2], f[1]>>, [gen |-> f[3], state |-> f[4], owner |-> OwnerIn(Drop(f, 4)),
                              provenance |-> f[8]])

decodePort(f) ==
    Taken(8, <<f[1], f[2]>>, [gen |-> f[3], state |-> f[4], owner |-> OwnerIn(Drop(f, 4)),
                              provenance |-> f[8]])

decodeLink(f) ==
    Taken(14, f[1], [gen |-> f[2], rootSwitch |-> f[3], port |-> <<f[4], f[5]>>,
                     otherEnd |-> EndIn(Drop(f, 5)), state |-> f[9], degraded |-> f[10],
                     owner |-> OwnerIn(Drop(f, 10)), provenance |-> f[14]])

\* The record's length depends on the two counts in it.
Listed(f) == {f[i] : i \in 2 .. (f[1] + 1)}

decodePartition(f) ==
    LET switches == Drop(f, 4 + f[4])
        rest == Drop(switches, 1 + switches[1])
    IN  Taken(Len(f) - Len(rest) + 5, f[1],
              [gen |-> f[2], fabric |-> f[3], members |-> Listed(Drop(f, 3)),
               switches |-> Listed(switches), state |-> rest[1],
               owner |-> OwnerIn(Drop(rest, 1)), provenance |-> rest[5]])

PartitionWhole(f) ==
    /\ Len(f) >= 4 /\ f[4] <= kMaxDevices
    /\ Len(f) >= 5 + f[4] /\ f[5 + f[4]] <= kMaxSwitches
    /\ Len(f) >= 10 + f[4] + f[5 + f[4]]

\* Whether the fields hold a whole record.
RecordWhole(kind, f) ==
    CASE kind = "devices" -> Len(f) >= 7
      [] kind \in {"switches", "ports"} -> Len(f) >= 8
      [] kind = "links" -> Len(f) >= 14
      [] kind = "partitions" -> PartitionWhole(f)

decodeRecord(kind, f) ==
    CASE kind = "devices" -> decodeDevice(f)
      [] kind = "switches" -> decodeSwitch(f)
      [] kind = "ports" -> decodePort(f)
      [] kind = "links" -> decodeLink(f)
      [] kind = "partitions" -> decodePartition(f)

MapLimit ==
    [devices |-> kMaxDevices, switches |-> kMaxSwitches, ports |-> kMaxPorts,
     links |-> kMaxLinks, partitions |-> kMaxPartitions]

\* The reader: what is left, and the map just read.
Reader(rest, map) == [ok |-> TRUE, rest |-> rest, map |-> map]
Overrun == [ok |-> FALSE, rest |-> <<>>, map |-> EmptyMap]

\* One record more: it is whole, and its key is new.
ReadRecord(x, kind) ==
    LET one == decodeRecord(kind, x.rest)
    IN  IF x.ok /\ RecordWhole(kind, x.rest) /\ one.key \notin DOMAIN x.map
        THEN Reader(Drop(x.rest, one.width),
                    [k \in DOMAIN x.map \cup {one.key} |-> IF k = one.key THEN one.rec ELSE x.map[k]])
        ELSE Overrun

\* A map: its size, within the limit, and that many records.
ReadMap(r, kind) ==
    LET n == Head(r.rest)
        read[i \in 0 .. n] ==
            IF i = 0 THEN Reader(Tail(r.rest), EmptyMap) ELSE ReadRecord(read[i - 1], kind)
    IN  IF r.ok /\ r.rest # <<>> /\ n <= MapLimit[kind] THEN read[n] ELSE Overrun

IntegrityFailure == [refused |-> TRUE]

decodeTopologyPayload(f) ==
    LET start == IF Len(f) < 4 THEN Overrun ELSE Reader(Drop(f, 4), EmptyMap)
        d == ReadMap(start, "devices")
        s == ReadMap(d, "switches")
        p == ReadMap(s, "ports")
        l == ReadMap(p, "links")
        q == ReadMap(l, "partitions")
        t == [id |-> f[1], topologyGen |-> f[2], epoch |-> f[3], provenance |-> f[4],
              devices |-> d.map, switches |-> s.map, ports |-> p.map, links |-> l.map,
              partitions |-> q.map]
    IN  IF q.ok /\ q.rest = <<>> /\ CheckIntegrity(t) THEN t ELSE IntegrityFailure
=============================================================================
