------------------------- MODULE Coordinator_proofs -------------------------
(***************************************************************************)
(* Proofs about the coordinator, for any number of connection slots,       *)
(* workers, boots and restarts.                                            *)
(*                                                                         *)
(* CoordInv has a part for each thing the handlers share.  BootInv: the    *)
(* types of connections and boot maps with UniqueIncarnation, which then   *)
(* is inductive: a newcomer is refused when its boot is below the highest  *)
(* seen or is the active one, and a handler that ends frees the active     *)
(* boot only if it is its own.  RouteInv: a handler inside route() has not *)
(* taken its frame off the stream.  LiveInv: the limit on connections.     *)
(* EvidenceInv: the snapshot is valid and its current records have an      *)
(* owner that is served, so that fencing, in the step that stops serving   *)
(* it, leaves none behind.  DiskInv: the files hold nothing but snapshots  *)
(* the registry once had, whole or torn.  RegInv, the registry's own       *)
(* invariant, is carried along on top of it.                               *)
(***************************************************************************)
EXTENDS Coordinator, FabricRegistry_proofs

\* What a connection may carry.
AnyFrame == Frames \cup {Register}

\* A connection.
ConnOK(conn) ==
    /\ conn \in [phase : {"closed", "open", "fenced"}, peer : Owners, epoch : {conn.epoch},
                 owner : {NoOwner, conn.peer}, inbox : Seq(AnyFrame), gone : {conn.gone},
                 waiting : {conn.waiting}, saving : {conn.saving}]
    /\ Len(conn.inbox) <= Larger(MaxInbox, 1)
    /\ conn.phase = "open" => conn.peer \in Workers \X Boots

\* A handler that is inside route() has not taken its frame off the stream.
RouteInv ==
    /\ DOMAIN callers = Callers
    /\ \A c \in Callers : callers[c] # Idle =>
          conns[c].phase = "open" /\ conns[c].inbox # <<>>

\* The types the argument needs.
BootsOK ==
    /\ conns \in [Callers -> {conns[c] : c \in Callers}]
    /\ \A c \in Callers : ConnOK(conns[c])
    /\ IsMap(maxBoot, Workers, Boots)
    /\ IsMap(activeBoot, Workers, Boots)

\* The inductive invariant.
BootInv == BootsOK /\ UniqueIncarnation

\* A registered owner is a worker and a boot number.
LEMMA OwnerFacts ==
    ASSUME NEW o \in Owners
    PROVE  o # NoOwner => o \in Workers \X Boots /\ o[2] \in Nat
  BY IdAssumption DEF Owners, NoOwner

\* Connections that keep their owners, or close, keep the invariant.
LEMMA Kept ==
    ASSUME BootInv, UNCHANGED bootVars, NEW c \in Callers, NEW conn,
           conns' = [conns EXCEPT ![c] = conn], ConnOK(conn),
           \/ conn.owner = NoOwner
           \/ conn.owner = conns[c].owner /\ (conn.phase = "open" => conns[c].phase = "open")
    PROVE  BootInv'
  <1>1. conns'[c] = conn /\ \A k \in Callers \ {c} : conns'[k] = conns[k]
    BY DEF BootInv, BootsOK
  <1>2. BootsOK'
    BY <1>1 DEF BootInv, BootsOK, bootVars
  <1>3. \A k \in Callers : Serving(k)' => Serving(k) /\ conns'[k].owner = conns[k].owner
    BY <1>1 DEF Serving, Registered
  <1>4. UniqueIncarnation'
    BY <1>3 DEF BootInv, UniqueIncarnation, bootVars
  <1>5. QED  BY <1>2, <1>4 DEF BootInv

\* A step that touches neither connections nor boots keeps the invariant.
LEMMA BootStutter ==
    ASSUME BootInv, UNCHANGED <<conns, bootVars>>
    PROVE  BootInv'
  BY DEF BootInv, BootsOK, UniqueIncarnation, Serving, Registered, bootVars

\* The bound on a stream.
LEMMA InboxBound ==
    /\ Larger(MaxInbox, 1) \in Nat
    /\ 1 <= Larger(MaxInbox, 1) /\ MaxInbox <= Larger(MaxInbox, 1)
  BY CoordinatorAssumption DEF Larger

\* A closed slot is a connection, and so is one that was just accepted.
LEMMA ClosedOK ==
    /\ ConnOK(Closed)
    /\ \A p \in Workers \X Boots : \A ep :
          ConnOK([Closed EXCEPT !.phase = "open", !.peer = p, !.epoch = ep, !.inbox = <<Register>>])
  <1>1. /\ <<>> \in Seq(AnyFrame) /\ Len(<<>>) = 0
        /\ <<Register>> \in Seq(AnyFrame) /\ Len(<<Register>>) = 1
    BY DEF AnyFrame
  <1>2. NoOwner \in Owners /\ Workers \X Boots \subseteq Owners  BY DEF Owners
  <1>3. ConnOK(Closed)  BY <1>1, <1>2, InboxBound DEF ConnOK, Closed
  <1>4. ASSUME NEW p \in Workers \X Boots, NEW ep
        PROVE  ConnOK([Closed EXCEPT !.phase = "open", !.peer = p, !.epoch = ep,
                                     !.inbox = <<Register>>])
    BY <1>1, <1>2, InboxBound DEF ConnOK, Closed
  <1>5. QED  BY <1>3, <1>4

\* What is left of a stream is a stream.
LEMMA InboxFacts ==
    ASSUME NEW box \in Seq(AnyFrame)
    PROVE  /\ \A f \in AnyFrame : /\ Append(box, f) \in Seq(AnyFrame)
                                  /\ Len(Append(box, f)) = Len(box) + 1
                                  /\ Append(box, f) # <<>>
           /\ \A n \in 0 .. Len(box) : /\ SubSeq(box, 1, n) \in Seq(AnyFrame)
                                       /\ Len(SubSeq(box, 1, n)) = n
           /\ box # <<>> => /\ Tail(box) \in Seq(AnyFrame) /\ Len(Tail(box)) = Len(box) - 1
                            /\ Head(box) \in AnyFrame
           /\ Len(box) \in Nat
  <1>1. Len(box) \in Nat  OBVIOUS
  <1>2. ASSUME NEW f \in AnyFrame
        PROVE  /\ Append(box, f) \in Seq(AnyFrame) /\ Len(Append(box, f)) = Len(box) + 1
               /\ Append(box, f) # <<>>
    <2>1. Append(box, f) \in Seq(AnyFrame) /\ Len(Append(box, f)) = Len(box) + 1  OBVIOUS
    <2>2. Len(<<>>) = 0 /\ Len(box) + 1 # 0  BY <1>1
    <2>3. QED  BY <2>1, <2>2, Zenon
  <1>3. ASSUME NEW n \in 0 .. Len(box)
        PROVE  SubSeq(box, 1, n) \in Seq(AnyFrame) /\ Len(SubSeq(box, 1, n)) = n
    OBVIOUS
  <1>4. ASSUME box # <<>>
        PROVE  /\ Tail(box) \in Seq(AnyFrame) /\ Len(Tail(box)) = Len(box) - 1
               /\ Head(box) \in AnyFrame
    BY <1>4
  <1>5. QED  BY <1>1, <1>2, <1>3, <1>4

\* Taking a frame off the stream leaves a connection.
LEMMA DoneOK ==
    ASSUME NEW conn, ConnOK(conn), conn.inbox # <<>>
    PROVE  /\ ConnOK(Done(conn)) /\ Done(conn).owner = conn.owner
           /\ Done(conn).phase = conn.phase /\ Done(conn).peer = conn.peer
           /\ Done(conn).inbox = Tail(conn.inbox)
  <1>1. conn.inbox \in Seq(AnyFrame) /\ Len(conn.inbox) <= Larger(MaxInbox, 1)
    BY DEF ConnOK
  <1>2. Tail(conn.inbox) \in Seq(AnyFrame) /\ Len(Tail(conn.inbox)) <= Larger(MaxInbox, 1)
    BY <1>1, InboxFacts, InboxBound
  <1>3. QED  BY <1>2 DEF ConnOK, Done

\* Connecting, sending and disconnecting keep the invariant: a connection is
\* not served before it has registered.
LEMMA PeerStep ==
    ASSUME BootInv, NEW c \in Callers, Peer(c)
    PROVE  BootInv'
  <1>0. ConnOK(conns[c])  BY DEF BootInv, BootsOK
  <1>1. ASSUME NEW p \in Workers \X Boots, NEW ep \in Epochs, Accept(c, p, ep)  PROVE BootInv'
    <2> DEFINE conn == [Closed EXCEPT !.phase = "open", !.peer = p, !.epoch = ep,
                                      !.inbox = <<Register>>]
    <2>1. ConnOK(conn) /\ conn.owner = NoOwner  BY ClosedOK DEF Closed
    <2>2. QED  BY <1>1, <2>1, Kept DEF Accept
  <1>2. ASSUME NEW f \in Frames, Send(c, f)  PROVE BootInv'
    <2>1. /\ ConnOK(Queued(conns[c], f)) /\ Queued(conns[c], f).owner = conns[c].owner
          /\ Queued(conns[c], f).phase = conns[c].phase
      <3>1. conns[c].inbox \in Seq(AnyFrame) /\ f \in AnyFrame  BY <1>0 DEF ConnOK, AnyFrame
      <3>2. /\ Append(conns[c].inbox, f) \in Seq(AnyFrame)
            /\ Len(Append(conns[c].inbox, f)) <= Larger(MaxInbox, 1)
        BY <1>2, <3>1, InboxFacts, InboxBound, CoordinatorAssumption DEF Send
      <3>3. QED  BY <1>0, <3>2 DEF ConnOK, Queued
    <2>2. QED  BY <1>2, <2>1, Kept DEF Send
  <1>3. ASSUME Disconnect(c)  PROVE BootInv'
    <2>1. PICK n \in 0 .. Len(conns[c].inbox) : conns' = [conns EXCEPT ![c] = HungUp(@, n)]
      BY <1>3 DEF Disconnect
    <2>2. /\ ConnOK(HungUp(conns[c], n)) /\ HungUp(conns[c], n).owner = conns[c].owner
          /\ HungUp(conns[c], n).phase = conns[c].phase
      <3>1. /\ conns[c].inbox \in Seq(AnyFrame) /\ Len(conns[c].inbox) <= Larger(MaxInbox, 1)
        BY <1>0 DEF ConnOK
      <3>2. /\ SubSeq(conns[c].inbox, 1, n) \in Seq(AnyFrame)
            /\ Len(SubSeq(conns[c].inbox, 1, n)) <= Larger(MaxInbox, 1)
        BY <3>1, InboxFacts, InboxBound
      <3>3. QED  BY <1>0, <3>2 DEF ConnOK, HungUp
    <2>3. QED  BY <1>3, <2>1, <2>2, Kept DEF Disconnect
  <1>4. QED  BY <1>1, <1>2, <1>3 DEF Peer

\* REGISTER keeps the invariant: an admitted boot is above every boot of that
\* worker that is still served.
LEMMA RegisterStep ==
    ASSUME BootInv, NEW c \in Callers, HandleRegister(c)
    PROVE  BootInv'
  <1> DEFINE o == conns[c].peer
             w == o[1]
             b == o[2]
  <1>0. ConnOK(conns[c]) /\ conns[c].phase = "open" /\ o \in Workers \X Boots
    BY DEF BootInv, BootsOK, ConnOK, HandleRegister, Receives
  <1>1. CASE Admitted(o, conns[c].epoch)
    <2> DEFINE conn == [Done(conns[c]) EXCEPT !.owner = o]
    <2>1. /\ maxBoot' = Put(maxBoot, w, b)
          /\ activeBoot' = Put(activeBoot, w, b)
          /\ conns' = [conns EXCEPT ![c] = conn]
      BY <1>1 DEF HandleRegister
    <2>2. /\ w \in Workers /\ b \in Boots /\ Boots \subseteq Nat
          /\ o \in Owners /\ o # NoOwner /\ o = <<w, b>>
      BY <1>0, IdAssumption DEF Owners, NoOwner
    <2>3. ConnOK(conn) /\ conn.owner = o /\ conn.phase = "open"
      BY <1>0, <2>2, DoneOK DEF ConnOK, HandleRegister, Receives
    <2>4. conns'[c] = conn /\ \A k \in Callers \ {c} : conns'[k] = conns[k]
      BY <2>1 DEF BootInv, BootsOK
    <2>5. BootsOK'
      <3>1. IsMap(maxBoot', Workers, Boots) /\ IsMap(activeBoot', Workers, Boots)
        BY <2>1, <2>2 DEF BootInv, BootsOK, IsMap, Put
      <3>2. \A k \in Callers : ConnOK(conns'[k])
        BY <2>3, <2>4 DEF BootInv, BootsOK
      <3>3. conns' \in [Callers -> {conns'[k] : k \in Callers}]
        BY <2>1 DEF BootInv, BootsOK
      <3>4. QED  BY <3>1, <3>2, <3>3 DEF BootsOK
    <2>6. /\ w \in DOMAIN maxBoot' /\ maxBoot'[w] = b
          /\ w \in DOMAIN activeBoot' /\ activeBoot'[w] = b
          /\ \A v \in DOMAIN maxBoot : v # w => v \in DOMAIN maxBoot' /\ maxBoot'[v] = maxBoot[v]
          /\ \A v \in DOMAIN activeBoot :
                v # w => v \in DOMAIN activeBoot' /\ activeBoot'[v] = activeBoot[v]
      BY <2>1 DEF Put
    \* Whoever is served as w has a lower boot than the newcomer.
    <2>7. ASSUME NEW k \in Callers, Serving(k), conns[k].owner[1] = w
          PROVE  conns[k].owner[2] \in Nat /\ conns[k].owner[2] < b
      <3>1. /\ w \in DOMAIN maxBoot /\ conns[k].owner[2] <= maxBoot[w]
            /\ conns[k].owner[2] = maxBoot[w] =>
                  w \in DOMAIN activeBoot /\ activeBoot[w] = conns[k].owner[2]
        BY <2>7 DEF BootInv, UniqueIncarnation
      <3>2. b >= maxBoot[w] /\ (w \in DOMAIN activeBoot => activeBoot[w] # b)
        BY <1>1, <3>1 DEF Admitted
      <3>3. conns[k].owner[2] \in Nat
        BY <2>7, OwnerFacts DEF BootInv, BootsOK, ConnOK, Serving, Registered
      <3>4. maxBoot[w] \in Nat
        BY <2>2, <3>1 DEF BootInv, BootsOK, IsMap
      <3>5. b \in Nat  BY <2>2
      <3>6. conns[k].owner[2] # b  BY <3>1, <3>2, <3>4, <3>5, <3>3
      <3> HIDE DEF b, w
      <3>7. QED  BY <3>1, <3>2, <3>3, <3>4, <3>5, <3>6
    <2>8. \A k \in Callers \ {c} : Serving(k)' => Serving(k) /\ conns'[k].owner = conns[k].owner
      BY <2>4 DEF Serving, Registered
    <2>9. UniqueIncarnation'
      <3> SUFFICES ASSUME NEW k \in Callers, Serving(k)'
                   PROVE  /\ \A j \in Callers \ {k} :
                                Serving(j)' => conns'[j].owner # conns'[k].owner
                          /\ conns'[k].owner[1] \in DOMAIN maxBoot'
                          /\ conns'[k].owner[2] <= maxBoot'[conns'[k].owner[1]]
                          /\ conns'[k].owner[2] = maxBoot'[conns'[k].owner[1]] =>
                                /\ conns'[k].owner[1] \in DOMAIN activeBoot'
                                /\ activeBoot'[conns'[k].owner[1]] = conns'[k].owner[2]
        BY DEF UniqueIncarnation
      <3>1. CASE k = c
        <4>1. conns'[k].owner = o  BY <2>3, <2>4, <3>1
        <4>2. \A j \in Callers \ {k} : Serving(j)' => conns'[j].owner # o
          BY <2>2, <2>7, <2>8, <3>1
        <4>3. b \in Nat /\ o[1] = w /\ o[2] = b  BY <2>2
        <4> HIDE DEF o, w, b
        <4>4. QED  BY <2>6, <4>1, <4>2, <4>3
      <3>2. CASE k # c
        <4> DEFINE p == conns[k].owner
        <4>1. Serving(k) /\ conns'[k].owner = p  BY <2>8, <3>2
        <4>2. \A j \in Callers \ {k} : Serving(j)' => conns'[j].owner # p
          <5>1. ASSUME NEW j \in Callers \ {k}, Serving(j)', j # c  PROVE conns'[j].owner # p
            BY <2>8, <4>1, <5>1 DEF BootInv, UniqueIncarnation
          <5>2. conns'[c].owner # p
            BY <2>2, <2>3, <2>4, <2>7, <4>1
          <5>3. QED  BY <5>1, <5>2
        <4>3. CASE p[1] = w
          <5>1. b \in Nat /\ p[2] \in Nat /\ p[2] < b  BY <2>2, <2>7, <4>1, <4>3
          <5> HIDE DEF p, w, b
          <5>2. QED  BY <2>6, <4>1, <4>2, <4>3, <5>1
        <4>4. CASE p[1] # w
          BY <2>6, <4>1, <4>2, <4>4 DEF BootInv, UniqueIncarnation
        <4>5. QED  BY <4>3, <4>4
      <3>3. QED  BY <3>1, <3>2
    <2>10. QED  BY <2>5, <2>9 DEF BootInv
  <1>2. CASE ~ Admitted(o, conns[c].epoch)
    <2>1. conns' = [conns EXCEPT ![c] = Done(conns[c])] /\ UNCHANGED bootVars
      BY <1>2 DEF HandleRegister
    <2>2. /\ ConnOK(Done(conns[c])) /\ Done(conns[c]).owner = conns[c].owner
          /\ Done(conns[c]).phase = conns[c].phase
      BY <1>0, DoneOK DEF HandleRegister, Receives
    <2>3. QED  BY <2>1, <2>2, Kept
  <1>3. QED  BY <1>1, <1>2

\* The end of a handler keeps the invariant: it frees the active boot only if
\* it is its own, and no other connection serves that incarnation.
LEMMA LeaveLoopStep ==
    ASSUME BootInv, NEW c \in Callers, LeaveLoop(c)
    PROVE  BootInv'
  <1> DEFINE o == conns[c].owner
             freed == {w \in DOMAIN activeBoot : w = o[1] /\ activeBoot[w] = o[2]}
  <1>0. /\ conns[c].phase = "open" /\ ConnOK(conns[c])
        /\ conns' = [conns EXCEPT ![c].phase = "fenced"] /\ maxBoot' = maxBoot
    BY DEF BootInv, BootsOK, LeaveLoop
  <1>1. /\ conns'[c].phase = "fenced" /\ ConnOK(conns'[c])
        /\ \A k \in Callers \ {c} : conns'[k] = conns[k]
        /\ conns' \in [Callers -> {conns'[k] : k \in Callers}]
    BY <1>0 DEF BootInv, BootsOK, ConnOK
  <1>2. \A k \in Callers : Serving(k)' => k # c /\ Serving(k) /\ conns'[k].owner = conns[k].owner
    BY <1>1 DEF Serving, Registered
  <1>3. CASE Registered(c)
    <2>1. activeBoot' = Erase(activeBoot, freed)  BY <1>3 DEF LeaveLoop
    <2>2. BootsOK'
      <3>1. IsMap(activeBoot', Workers, Boots)
        BY <2>1 DEF BootInv, BootsOK, IsMap, Erase
      <3>2. QED  BY <1>0, <1>1, <3>1 DEF BootInv, BootsOK
    <2>3. ASSUME NEW k \in Callers, Serving(k)',
                 conns[k].owner[1] \in DOMAIN activeBoot,
                 activeBoot[conns[k].owner[1]] = conns[k].owner[2]
          PROVE  /\ conns[k].owner[1] \in DOMAIN activeBoot'
                 /\ activeBoot'[conns[k].owner[1]] = conns[k].owner[2]
      <3>1. k # c /\ Serving(k)  BY <1>2, <2>3
      <3>2. Serving(c)  BY <1>0, <1>3 DEF Serving
      <3>3. conns[k].owner # o  BY <3>1, <3>2 DEF BootInv, UniqueIncarnation
      <3>4. conns[k].owner \in Workers \X Boots /\ o \in Workers \X Boots
        BY <3>1, <3>2, OwnerFacts DEF BootInv, BootsOK, ConnOK, Serving, Registered
      <3>5. conns[k].owner[1] \notin freed  BY <2>3, <3>3, <3>4
      <3>6. QED  BY <2>1, <2>3, <3>5 DEF Erase
    <2>4. UniqueIncarnation'
      BY <1>0, <1>2, <2>3 DEF BootInv, UniqueIncarnation
    <2>5. QED  BY <2>2, <2>4 DEF BootInv
  <1>4. CASE ~ Registered(c)
    <2>1. activeBoot' = activeBoot  BY <1>4 DEF LeaveLoop
    <2>2. BootsOK'  BY <1>0, <1>1, <2>1 DEF BootInv, BootsOK
    <2>3. UniqueIncarnation'  BY <1>0, <1>2, <2>1 DEF BootInv, UniqueIncarnation
    <2>4. QED  BY <2>2, <2>3 DEF BootInv
  <1>5. QED  BY <1>3, <1>4

\* The steps of a handler between REGISTER and the end of the stream.
Middle(c) ==
    \/ HandlePublish(c) \/ SaveSnapshot(c) \/ SaveStep(c) \/ HandleMeasurement(c)
    \/ HandleQuery(c) \/ ComputeAnswer(c) \/ SendAnswer(c)

\* They leave owner and phase alone.
LEMMA MiddleConn ==
    ASSUME BootInv, RouteInv, NEW c \in Callers, Middle(c)
    PROVE  /\ UNCHANGED bootVars
           /\ \E conn : /\ conns' = [conns EXCEPT ![c] = conn]
                        /\ ConnOK(conn) /\ conn.owner = conns[c].owner
                        /\ conn.phase = conns[c].phase
  <1>0. ConnOK(conns[c])  BY DEF BootInv, BootsOK
  <1> DEFINE Same(conn) == /\ ConnOK(conn) /\ conn.owner = conns[c].owner
                           /\ conn.phase = conns[c].phase
             Goal == /\ UNCHANGED bootVars
                     /\ \E conn : conns' = [conns EXCEPT ![c] = conn] /\ Same(conn)
  <1>1. conns[c].inbox # <<>> => Same(Done(conns[c]))  BY <1>0, DoneOK
  <1>2. ASSUME NEW b, conns[c].inbox # <<>>  PROVE Same([Done(conns[c]) EXCEPT !.saving = b])
    BY <1>0, <1>2, DoneOK DEF ConnOK
  <1>3. ASSUME NEW b  PROVE Same([conns[c] EXCEPT !.saving = b])
    BY <1>0 DEF ConnOK
  <1>4. conns[c].inbox # <<>> => Same([Done(conns[c]) EXCEPT !.waiting = FALSE])
    BY <1>0, DoneOK DEF ConnOK
  <1>5. Same(conns[c]) /\ conns = [conns EXCEPT ![c] = conns[c]]
    BY <1>0 DEF BootInv, BootsOK
  <1> HIDE DEF Same
  <1>6. CASE HandlePublish(c)
    <2> DEFINE e == Head(conns[c].inbox).topo
               heard == Registered(c) /\ conns[c].epoch = epoch /\ Decodes(e)
    <2>1. conns' = [conns EXCEPT ![c] = [Done(conns[c]) EXCEPT !.saving = heard]]
      BY <1>6, Zenon DEF HandlePublish
    <2>2. UNCHANGED bootVars  BY <1>6 DEF HandlePublish
    <2> HIDE DEF heard
    <2>3. conns[c].inbox # <<>>  BY <1>6 DEF HandlePublish, Receives
    <2>4. QED  BY <1>2, <2>1, <2>2, <2>3 DEF Same
  <1>7. CASE SaveSnapshot(c)
    BY <1>5, <1>7 DEF SaveSnapshot, Same
  <1>8. CASE SaveStep(c)
    <2> DEFINE b == writers'[c].pc # "idle"
    <2>1. conns' = [conns EXCEPT ![c] = [conns[c] EXCEPT !.saving = b]]
      BY <1>8, Zenon DEF SaveStep
    <2>2. UNCHANGED bootVars  BY <1>8 DEF SaveStep
    <2> HIDE DEF b
    <2>3. QED  BY <1>3, <2>1, <2>2 DEF Same
  <1>9. CASE HandleMeasurement(c)
    BY <1>1, <1>9 DEF HandleMeasurement, Receives, Same
  <1>10. CASE HandleQuery(c)
    BY <1>1, <1>5, <1>10 DEF HandleQuery, Receives, Same
  <1>11. CASE ComputeAnswer(c)
    BY <1>5, <1>11 DEF ComputeAnswer, Same
  <1>12. CASE SendAnswer(c)
    <2>1. conns[c].inbox # <<>>
      BY <1>12 DEF SendAnswer, RouteLog, RouteInv, Idle
    <2>2. QED  BY <1>4, <1>12, <2>1 DEF SendAnswer, Same
  <1>13. QED
    BY <1>6, <1>7, <1>8, <1>9, <1>10, <1>11, <1>12 DEF Middle

\* Every step of a handler keeps incarnations unique.
LEMMA HandlerStep ==
    ASSUME BootInv, RouteInv, NEW c \in Callers, Handler(c)
    PROVE  BootInv'
  <1>1. CASE Middle(c)
    BY <1>1, MiddleConn, Kept
  <1>2. CASE Release(c)
    <2>1. Closed.owner = NoOwner  BY DEF Closed
    <2>2. QED  BY <1>2, <2>1, ClosedOK, Kept DEF Release
  <1>3. QED  BY <1>1, <1>2, RegisterStep, LeaveLoopStep DEF Handler, Middle

-----------------------------------------------------------------------------
(* route() inside a handler, and the limit on connections. *)

\* A step that keeps the calls in progress keeps their frames on the stream.
LEMMA RouteKept ==
    ASSUME BootInv, RouteInv, NEW c \in Callers, NEW conn,
           conns' = [conns EXCEPT ![c] = conn], UNCHANGED callers,
           callers[c] # Idle => conn.phase = "open" /\ conn.inbox # <<>>
    PROVE  RouteInv'
  BY DEF BootInv, BootsOK, RouteInv

\* Every step of a peer or a handler keeps the frame of a call in progress on
\* the stream.
LEMMA RouteInvStep ==
    ASSUME BootInv, RouteInv, NEW c \in Callers, Handler(c) \/ Peer(c)
    PROVE  RouteInv'
  <1>0. ConnOK(conns[c]) /\ conns[c].inbox \in Seq(AnyFrame)  BY DEF BootInv, BootsOK, ConnOK
  <1>1. ASSUME NEW p \in Workers \X Boots, NEW ep \in Epochs, Accept(c, p, ep)  PROVE RouteInv'
    BY <1>1, RouteKept DEF Accept, RouteInv, regVars
  <1>2. ASSUME NEW f \in Frames, Send(c, f)  PROVE RouteInv'
    <2>1. Queued(conns[c], f).phase = "open" /\ Queued(conns[c], f).inbox # <<>>
      <3>1. Append(conns[c].inbox, f) # <<>>  BY <1>0, InboxFacts DEF AnyFrame
      <3>2. QED  BY <1>0, <1>2, <3>1 DEF Send, Queued, ConnOK
    <2>2. QED  BY <1>2, <2>1, RouteKept DEF Send, regVars
  <1>3. ASSUME Disconnect(c)  PROVE RouteInv'
    <2>1. PICK n \in 0 .. Len(conns[c].inbox) :
             /\ callers[c] # Idle => n > 0
             /\ conns' = [conns EXCEPT ![c] = HungUp(conns[c], n)]
      BY <1>3 DEF Disconnect
    <2>2. HungUp(conns[c], n).phase = "open" /\ (n > 0 => HungUp(conns[c], n).inbox # <<>>)
      <3>1. n > 0 => SubSeq(conns[c].inbox, 1, n) # <<>>
        <4>1. Len(SubSeq(conns[c].inbox, 1, n)) = n  BY <1>0, InboxFacts
        <4>2. Len(<<>>) = 0 /\ (n > 0 => n # 0)  OBVIOUS
        <4>3. QED  BY <4>1, <4>2, Zenon
      <3>2. QED  BY <1>0, <1>3, <3>1 DEF Disconnect, HungUp, ConnOK
    <2>3. QED  BY <1>3, <2>1, <2>2, RouteKept DEF Disconnect, regVars
  <1>4. ASSUME NEW conn, conns' = [conns EXCEPT ![c] = conn], UNCHANGED callers, callers[c] = Idle
        PROVE  RouteInv'
    BY <1>4, RouteKept
  <1>5. CASE HandleRegister(c)
    <2>1. UNCHANGED callers /\ callers[c] = Idle
      BY <1>5 DEF HandleRegister, Receives, Busy, regVars
    <2>2. QED  BY <1>4, <1>5, <2>1 DEF HandleRegister
  <1>6. CASE HandlePublish(c)
    <2>1. UNCHANGED callers /\ callers[c] = Idle
      BY <1>6 DEF HandlePublish, Receives, Busy, callVars
    <2> DEFINE e == Head(conns[c].inbox).topo
               heard == Registered(c) /\ conns[c].epoch = epoch /\ Decodes(e)
    <2>2. conns' = [conns EXCEPT ![c] = [Done(conns[c]) EXCEPT !.saving = heard]]
      BY <1>6, Zenon DEF HandlePublish
    <2> HIDE DEF heard
    <2>3. QED  BY <1>4, <2>1, <2>2
  <1>7. CASE SaveSnapshot(c)
    BY <1>7 DEF SaveSnapshot, RouteInv, regVars
  <1>8. CASE SaveStep(c)
    <2> DEFINE b == writers'[c].pc # "idle"
               conn == [conns[c] EXCEPT !.saving = b]
    <2>1. conns' = [conns EXCEPT ![c] = conn]
      BY <1>8, Zenon DEF SaveStep
    <2>2. UNCHANGED callers  BY <1>8 DEF SaveStep, regVars
    <2> HIDE DEF b
    <2>3. conn.phase = conns[c].phase /\ conn.inbox = conns[c].inbox  BY <1>0 DEF ConnOK
    <2>4. callers[c] # Idle => conns[c].phase = "open" /\ conns[c].inbox # <<>>
      BY DEF RouteInv
    <2> HIDE DEF conn
    <2>5. QED  BY <2>1, <2>2, <2>3, <2>4, RouteKept
  <1>9. CASE HandleMeasurement(c)
    <2>1. UNCHANGED callers /\ callers[c] = Idle
      BY <1>9 DEF HandleMeasurement, Receives, Busy, regVars, PublishMeasurement, callVars
    <2>2. QED  BY <1>4, <1>9, <2>1 DEF HandleMeasurement
  <1>10. CASE HandleQuery(c)
    <2>0. callers[c] = Idle /\ conns[c].phase = "open" /\ conns[c].inbox # <<>>
      BY <1>10 DEF HandleQuery, Receives, Busy
    <2>1. CASE Registered(c)
      <3>1. PICK r : callers' = [callers EXCEPT ![c] = r]
        BY <1>10, <2>1 DEF HandleQuery, RouteSnapshot
      <3>2. UNCHANGED conns  BY <1>10, <2>1 DEF HandleQuery
      <3>3. QED  BY <2>0, <3>1, <3>2 DEF RouteInv
    <2>2. CASE ~ Registered(c)
      BY <1>4, <1>10, <2>0, <2>2 DEF HandleQuery, regVars
    <2>3. QED  BY <2>1, <2>2
  <1>11. CASE ComputeAnswer(c)
    <2>1. callers[c] # Idle  BY <1>11 DEF ComputeAnswer, RouteCompute, Idle
    <2>2. PICK r : callers' = [callers EXCEPT ![c] = r]
      BY <1>11 DEF ComputeAnswer, RouteCompute
    <2>3. UNCHANGED conns  BY <1>11 DEF ComputeAnswer
    <2>4. QED  BY <2>1, <2>2, <2>3 DEF RouteInv
  <1>12. CASE SendAnswer(c)
    <2>1. /\ callers' = [callers EXCEPT ![c] = Idle]
          /\ \A k \in Callers \ {c} : conns'[k] = conns[k]
      BY <1>12 DEF SendAnswer, RouteLog, BootInv, BootsOK
    <2>2. QED  BY <2>1 DEF RouteInv
  <1>13. CASE LeaveLoop(c)
    <2>1. UNCHANGED callers /\ callers[c] = Idle
      BY <1>13 DEF LeaveLoop, Busy, callVars
    <2>2. \A k \in Callers \ {c} : conns'[k] = conns[k]
      BY <1>13 DEF LeaveLoop, BootInv, BootsOK
    <2>3. QED  BY <2>1, <2>2 DEF RouteInv
  <1>14. CASE Release(c)
    BY <1>14, RouteKept DEF Release, RouteInv, regVars
  <1>15. QED
    BY <1>1, <1>2, <1>3, <1>5, <1>6, <1>7, <1>8, <1>9, <1>10, <1>11, <1>12, <1>13, <1>14
       DEF Handler, Peer

\* acceptLoop serves at most kMaxConnections.
LiveInv == Cardinality(Live) <= kMaxConnections

\* A step after which no other connection is live keeps the limit.
LEMMA LiveKept ==
    ASSUME LiveInv, Live' \subseteq Live
    PROVE  LiveInv'
  <1>1. IsFiniteSet(Live)  BY CoordinatorAssumption, FS_Subset DEF Live
  <1>2. Live' \in SUBSET Live  OBVIOUS
  <1>3. Cardinality(Live') <= Cardinality(Live) /\ IsFiniteSet(Live')  BY <1>1, <1>2, FS_Subset
  <1>4. Cardinality(Live) \in Nat /\ Cardinality(Live') \in Nat
    BY <1>1, <1>3, FS_CardinalityType
  <1>5. QED  BY <1>3, <1>4, CoordinatorAssumption DEF LiveInv

\* Every step of a peer or a handler keeps the limit on connections: accept
\* counts the handlers that are fenced and have not closed their socket too.
LEMMA LiveInvStep ==
    ASSUME BootInv, RouteInv, LiveInv, NEW c \in Callers, Handler(c) \/ Peer(c)
    PROVE  LiveInv'
  <1>0. ConnOK(conns[c])  BY DEF BootInv, BootsOK
  <1>1. ASSUME NEW conn, conns' = [conns EXCEPT ![c] = conn],
               conn.phase = "closed" \/ conns[c].phase # "closed"
        PROVE  LiveInv'
    <2>1. Live' \subseteq Live  BY <1>1 DEF Live, BootInv, BootsOK
    <2>2. QED  BY <2>1, LiveKept
  <1>2. ASSUME NEW p \in Workers \X Boots, NEW ep \in Epochs, Accept(c, p, ep)  PROVE LiveInv'
    <2>1. IsFiniteSet(Live)  BY CoordinatorAssumption, FS_Subset DEF Live
    <2>2. Live' = Live \cup {c} /\ c \notin Live
      <3>1. /\ \A k \in Callers \ {c} : conns'[k] = conns[k]
            /\ conns'[c].phase = "open" /\ conns[c].phase = "closed"
        BY <1>2 DEF Accept, Closed, BootInv, BootsOK
      <3>2. QED  BY <3>1 DEF Live
    <2>3. Cardinality(Live') = Cardinality(Live) + 1  BY <2>1, <2>2, FS_AddElement
    <2>4. Cardinality(Live) \in Nat /\ Cardinality(Live) < kMaxConnections
      BY <1>2, <2>1, FS_CardinalityType DEF Accept
    <2>5. QED  BY <2>3, <2>4, CoordinatorAssumption DEF LiveInv
  <1>3. ASSUME NEW f \in Frames, Send(c, f)  PROVE LiveInv'
    BY <1>1, <1>3 DEF Send
  <1>4. ASSUME Disconnect(c)  PROVE LiveInv'
    BY <1>1, <1>4 DEF Disconnect
  <1>5. CASE HandleRegister(c)
    BY <1>1, <1>5 DEF HandleRegister, Receives
  <1>6. CASE Middle(c)
    BY <1>1, <1>6, MiddleConn
  <1>7. CASE LeaveLoop(c)
    <2>1. Live' \subseteq Live  BY <1>7 DEF LeaveLoop, Live, BootInv, BootsOK
    <2>2. QED  BY <2>1, LiveKept
  <1>8. CASE Release(c)
    BY <1>1, <1>8 DEF Release, Closed
  <1>9. QED  BY <1>2, <1>3, <1>4, <1>5, <1>6, <1>7, <1>8 DEF Handler, Peer, Middle

-----------------------------------------------------------------------------
(* What fencing, publishing and restoring make of a topology. *)

\* The snapshot is one that validateCandidate has passed.
TopoInv ==
    /\ IsTopology(current) /\ Whole(current)
    /\ epoch \in Nat /\ nextSnapshotId \in Nat

\* Every record that counts as current has an owner in S, or none.
Covered(m, S) ==
    \A x \in DOMAIN m : \/ m[x].state = "REVALIDATION_REQUIRED"
                        \/ m[x].owner \in S \cup {NoOwner}

AllCovered(t, S) ==
    /\ Covered(t.devices, S) /\ Covered(t.switches, S) /\ Covered(t.ports, S)
    /\ Covered(t.links, S) /\ Covered(t.partitions, S)

\* OwnersLive, record by record.
LEMMA OwnersLiveCovered ==
    OwnersLive <=> AllCovered(current, ServedOwners \cup unfenced)
  BY DEF OwnersLive, EvidenceOwners, CurrentOwners, AllCovered, Covered

\* Edits that keep the ids, the ends of links and the members of partitions
\* keep a topology whole.
LEMMA SameShape ==
    ASSUME NEW t, NEW u, Whole(t),
           DOMAIN u.devices = DOMAIN t.devices, DOMAIN u.switches = DOMAIN t.switches,
           DOMAIN u.ports = DOMAIN t.ports, DOMAIN u.links = DOMAIN t.links,
           DOMAIN u.partitions = DOMAIN t.partitions,
           \A l \in DOMAIN t.links :
              /\ u.links[l].rootSwitch = t.links[l].rootSwitch
              /\ u.links[l].port = t.links[l].port
              /\ u.links[l].otherEnd = t.links[l].otherEnd,
           \A q \in DOMAIN t.partitions :
              /\ u.partitions[q].members = t.partitions[q].members
              /\ u.partitions[q].switches = t.partitions[q].switches
    PROVE  Whole(u)
  <1>1. \A p \in DOMAIN u.ports : PortIntegrity(u, p)
    BY DEF Whole, CheckIntegrity, PortIntegrity
  <1>2. \A l \in DOMAIN u.links : LinkIntegrity(u, l)
    BY DEF Whole, CheckIntegrity, LinkIntegrity
  <1>3. \A q \in DOMAIN u.partitions : PartitionIntegrity(u, q)
    BY DEF Whole, CheckIntegrity, PartitionIntegrity
  <1>4. WithinLimits(u)  BY DEF Whole, WithinLimits
  <1>5. QED  BY <1>1, <1>2, <1>3, <1>4 DEF Whole, CheckIntegrity

\* Records that have generations.
LEMMA GensAreNumbers ==
    /\ \A r \in SwitchRecord : r.gen \in Gens
    /\ \A r \in PortRecord : r.gen \in Gens
    /\ \A r \in LinkRecord : r.gen \in Gens
    /\ \A r \in PartitionRecord : r.gen \in Gens
    /\ Gens \subseteq Nat
  BY DEF SwitchRecord, PortRecord, LinkRecord, PartitionRecord, Gens

\* Fencing the records of o takes them out of the evidence, and lowers no
\* generation unless one of them is exhausted.
LEMMA FencedFacts ==
    ASSUME NEW K, NEW T, NEW m, IsMap(m, K, T), NEW o, NEW S,
           \A r \in T : r.gen \in Gens,
           \A r \in T : LET f == [r EXCEPT !.state = "REVALIDATION_REQUIRED", !.gen = NextGen(@)]
                        IN  f.state = "REVALIDATION_REQUIRED" /\ f.gen = NextGen(r.gen)
    PROVE  /\ DOMAIN Fenced(m, OwnedBy(m, o)) = DOMAIN m
           /\ Covered(m, S) => Covered(Fenced(m, OwnedBy(m, o)), S \ {o})
           /\ ~ Exhausted(m, o) => NoGenDecreased(m, Fenced(m, OwnedBy(m, o)))
  <1> DEFINE F == Fenced(m, OwnedBy(m, o))
  <1>1. DOMAIN F = DOMAIN m  BY DEF Fenced
  <1>2. ASSUME NEW x \in DOMAIN m
        PROVE  /\ m[x] \in T
               /\ m[x].owner = o => /\ F[x].state = "REVALIDATION_REQUIRED"
                                    /\ F[x].gen = NextGen(m[x].gen)
               /\ m[x].owner # o => F[x] = m[x]
    BY <1>2 DEF IsMap, Fenced, OwnedBy
  <1> HIDE DEF F
  <1>3. Covered(m, S) => Covered(F, S \ {o})
    BY <1>1, <1>2 DEF Covered
  <1>4. ASSUME ~ Exhausted(m, o), NEW x \in DOMAIN m  PROVE F[x].gen >= m[x].gen
    <2>1. m[x].gen \in Gens  BY <1>2, <1>4
    <2>2. CASE m[x].owner = o
      <3>1. m[x].gen # U64 - 1  BY <1>4, <2>2 DEF Exhausted, OwnedBy
      <3>2. F[x].gen = NextGen(m[x].gen)  BY <1>2, <1>4, <2>2
      <3>3. \A g \in Gens : g # U64 - 1 => NextGen(g) >= g
        BY WidthAssumption DEF Gens, NextGen
      <3>4. QED  BY <2>1, <3>1, <3>2, <3>3
    <2>3. CASE m[x].owner # o
      <3>1. F[x].gen = m[x].gen  BY <1>2, <1>4, <2>3
      <3>2. QED  BY <2>1, <3>1 DEF Gens
    <2>4. QED  BY <2>2, <2>3
  <1>5. QED  BY <1>1, <1>3, <1>4 DEF NoGenDecreased, F

\* invalidateForWorker leaves a whole topology in which nothing of o's counts
\* as current; validation refuses it only for an exhausted generation.
LEMMA FencedTopologyFacts ==
    ASSUME TopoInv, NEW o \in Workers \X Boots, NEW S
    PROVE  LET u == FencedTopology(current, o)
           IN  /\ Whole(u)
               /\ AllCovered(current, S) => AllCovered(u, S \ {o})
               /\ o \notin Unfenceable => ValidateCandidate(u)
  <1> DEFINE t == current
             u == FencedTopology(t, o)
  <1>0. /\ IsMap(t.devices, DeviceIds, DeviceRecord) /\ IsMap(t.switches, SwitchIds, SwitchRecord)
        /\ IsMap(t.ports, PortIds, PortRecord) /\ IsMap(t.links, LinkIds, LinkRecord)
        /\ IsMap(t.partitions, PartitionIds, PartitionRecord)
        /\ t.topologyGen \in Gens
    BY DEF TopoInv, IsTopology
  <1>1. /\ u.devices = Moved(t.devices, OwnedBy(t.devices, o), "REVALIDATION_REQUIRED")
        /\ u.switches = Fenced(t.switches, OwnedBy(t.switches, o))
        /\ u.ports = Fenced(t.ports, OwnedBy(t.ports, o))
        /\ u.links = Fenced(t.links, OwnedBy(t.links, o))
        /\ u.partitions = Fenced(t.partitions, OwnedBy(t.partitions, o))
        /\ u.topologyGen = IF Owns(t, o) THEN NextGen(t.topologyGen) ELSE t.topologyGen
    BY DEF TopoInv, IsTopology, FencedTopology
  <1> HIDE DEF u
  <1>2. /\ DOMAIN u.switches = DOMAIN t.switches
        /\ Covered(t.switches, S) => Covered(u.switches, S \ {o})
        /\ ~ Exhausted(t.switches, o) => NoGenDecreased(t.switches, u.switches)
    <2>1. \A r \in SwitchRecord :
             LET f == [r EXCEPT !.state = "REVALIDATION_REQUIRED", !.gen = NextGen(@)]
             IN  f.state = "REVALIDATION_REQUIRED" /\ f.gen = NextGen(r.gen)
      BY DEF SwitchRecord
    <2>2. QED  BY <1>0, <1>1, <2>1, GensAreNumbers, FencedFacts, SMTT(40)
  <1>3. /\ DOMAIN u.ports = DOMAIN t.ports
        /\ Covered(t.ports, S) => Covered(u.ports, S \ {o})
        /\ ~ Exhausted(t.ports, o) => NoGenDecreased(t.ports, u.ports)
    <2>1. \A r \in PortRecord :
             LET f == [r EXCEPT !.state = "REVALIDATION_REQUIRED", !.gen = NextGen(@)]
             IN  f.state = "REVALIDATION_REQUIRED" /\ f.gen = NextGen(r.gen)
      BY DEF PortRecord
    <2>2. QED  BY <1>0, <1>1, <2>1, GensAreNumbers, FencedFacts
  <1>4. /\ DOMAIN u.links = DOMAIN t.links
        /\ Covered(t.links, S) => Covered(u.links, S \ {o})
        /\ ~ Exhausted(t.links, o) => NoGenDecreased(t.links, u.links)
    <2>1. \A r \in LinkRecord :
             LET f == [r EXCEPT !.state = "REVALIDATION_REQUIRED", !.gen = NextGen(@)]
             IN  f.state = "REVALIDATION_REQUIRED" /\ f.gen = NextGen(r.gen)
      BY DEF LinkRecord
    <2>2. QED  BY <1>0, <1>1, <2>1, GensAreNumbers, FencedFacts
  <1>5. /\ DOMAIN u.partitions = DOMAIN t.partitions
        /\ Covered(t.partitions, S) => Covered(u.partitions, S \ {o})
        /\ ~ Exhausted(t.partitions, o) => NoGenDecreased(t.partitions, u.partitions)
    <2>1. \A r \in PartitionRecord :
             LET f == [r EXCEPT !.state = "REVALIDATION_REQUIRED", !.gen = NextGen(@)]
             IN  f.state = "REVALIDATION_REQUIRED" /\ f.gen = NextGen(r.gen)
      BY DEF PartitionRecord
    <2>2. \A r \in PartitionRecord : r.gen \in Gens  BY GensAreNumbers
    <2>3. IsMap(t.partitions, PartitionIds, PartitionRecord)  BY <1>0
    <2>4. u.partitions = Fenced(t.partitions, OwnedBy(t.partitions, o))  BY <1>1
    <2>5. QED  BY <2>1, <2>2, <2>3, <2>4, FencedFacts
  <1>6. /\ DOMAIN u.devices = DOMAIN t.devices
        /\ Covered(t.devices, S) => Covered(u.devices, S \ {o})
    <2>1. \A r \in DeviceRecord :
             [r EXCEPT !.state = "REVALIDATION_REQUIRED"].state = "REVALIDATION_REQUIRED"
      BY DEF DeviceRecord
    <2>2. QED  BY <1>0, <1>1, <2>1 DEF Moved, OwnedBy, Covered, IsMap
  <1>7. Whole(u)
    <2>1. ASSUME NEW l \in DOMAIN t.links
          PROVE  /\ u.links[l].rootSwitch = t.links[l].rootSwitch
                 /\ u.links[l].port = t.links[l].port
                 /\ u.links[l].otherEnd = t.links[l].otherEnd
      <3>1. t.links[l] \in LinkRecord  BY <1>0, <2>1 DEF IsMap
      <3>2. \/ u.links[l] = t.links[l]
            \/ u.links[l] = [t.links[l] EXCEPT !.state = "REVALIDATION_REQUIRED", !.gen = NextGen(@)]
        BY <1>1, <2>1 DEF Fenced
      <3>3. QED  BY <3>1, <3>2 DEF LinkRecord
    <2>2. ASSUME NEW q \in DOMAIN t.partitions
          PROVE  /\ u.partitions[q].members = t.partitions[q].members
                 /\ u.partitions[q].switches = t.partitions[q].switches
      <3>1. t.partitions[q] \in PartitionRecord  BY <1>0, <2>2 DEF IsMap
      <3>2. \/ u.partitions[q] = t.partitions[q]
            \/ u.partitions[q] =
                  [t.partitions[q] EXCEPT !.state = "REVALIDATION_REQUIRED", !.gen = NextGen(@)]
        BY <1>1, <2>2 DEF Fenced
      <3>3. QED  BY <3>1, <3>2 DEF PartitionRecord
    <2>3. QED  BY <1>2, <1>3, <1>4, <1>5, <1>6, <2>1, <2>2, SameShape DEF TopoInv
  <1>8. AllCovered(t, S) => AllCovered(u, S \ {o})
    BY <1>2, <1>3, <1>4, <1>5, <1>6 DEF AllCovered
  <1>9. ASSUME o \notin Unfenceable  PROVE ValidateCandidate(u)
    <2>1. /\ ~ Exhausted(t.switches, o) /\ ~ Exhausted(t.ports, o)
          /\ ~ Exhausted(t.links, o) /\ ~ Exhausted(t.partitions, o)
          /\ t.topologyGen # U64 - 1
      BY <1>9 DEF Unfenceable
    <2>2. u.topologyGen >= t.topologyGen
      BY <1>0, <1>1, <2>1, WidthAssumption DEF Gens, NextGen
    <2>3. QED
      BY <1>2, <1>3, <1>4, <1>5, <1>7, <2>1, <2>2
         DEF ValidateCandidate, ValidSuccessor, GenerationsKept, Whole
  <1>10. QED  BY <1>7, <1>8, <1>9 DEF u

\* Expiry touches nothing but states, and leaves no owned record current.
LEMMA ExpiredMap ==
    ASSUME NEW K, NEW T, NEW m, IsMap(m, K, T),
           \A r \in T : [r EXCEPT !.state = "REVALIDATION_REQUIRED"].state = "REVALIDATION_REQUIRED"
    PROVE  /\ DOMAIN Expired(m) = DOMAIN m
           /\ Covered(Expired(m), {})
           /\ \A x \in DOMAIN m :
                 \/ Expired(m)[x] = m[x]
                 \/ Expired(m)[x] = [m[x] EXCEPT !.state = "REVALIDATION_REQUIRED"]
  BY DEF IsMap, Expired, Moved, Covered, Dynamic

\* Records in a failing state keep their generations and what they refer to.
LEMMA StateOnly ==
    /\ \A r \in DeviceRecord :
          [r EXCEPT !.state = "REVALIDATION_REQUIRED"].state = "REVALIDATION_REQUIRED"
    /\ \A r \in SwitchRecord : LET f == [r EXCEPT !.state = "REVALIDATION_REQUIRED"]
                               IN  f.state = "REVALIDATION_REQUIRED" /\ f.gen = r.gen
    /\ \A r \in PortRecord : LET f == [r EXCEPT !.state = "REVALIDATION_REQUIRED"]
                             IN  f.state = "REVALIDATION_REQUIRED" /\ f.gen = r.gen
    /\ \A r \in LinkRecord : LET f == [r EXCEPT !.state = "REVALIDATION_REQUIRED"]
                             IN  /\ f.state = "REVALIDATION_REQUIRED" /\ f.gen = r.gen
                                 /\ f.rootSwitch = r.rootSwitch /\ f.port = r.port
                                 /\ f.otherEnd = r.otherEnd
    /\ \A r \in PartitionRecord : LET f == [r EXCEPT !.state = "REVALIDATION_REQUIRED"]
                                  IN  /\ f.state = "REVALIDATION_REQUIRED" /\ f.gen = r.gen
                                      /\ f.members = r.members /\ f.switches = r.switches
  BY DEF DeviceRecord, SwitchRecord, PortRecord, LinkRecord, PartitionRecord

\* expireDynamicEvidence leaves a whole topology in which no owned record
\* counts as current; validation refuses it only if the topology's own
\* generation is exhausted.
LEMMA ExpiredFacts ==
    ASSUME NEW t, IsTopology(t), Whole(t)
    PROVE  LET u == ExpiredTopology(t)
           IN  /\ Whole(u) /\ AllCovered(u, {})
               /\ t.topologyGen + 1 < U64 => ValidSuccessor(t, u)
  <1> DEFINE u == ExpiredTopology(t)
  <1>0. /\ IsMap(t.devices, DeviceIds, DeviceRecord) /\ IsMap(t.switches, SwitchIds, SwitchRecord)
        /\ IsMap(t.ports, PortIds, PortRecord) /\ IsMap(t.links, LinkIds, LinkRecord)
        /\ IsMap(t.partitions, PartitionIds, PartitionRecord)
        /\ t.topologyGen \in Gens
    BY DEF IsTopology
  <1>1. /\ u.devices = Expired(t.devices) /\ u.switches = Expired(t.switches)
        /\ u.ports = Expired(t.ports) /\ u.links = Expired(t.links)
        /\ u.partitions = Expired(t.partitions)
        /\ u.topologyGen = NextGen(t.topologyGen)
    BY DEF IsTopology, ExpiredTopology, Advance
  <1> HIDE DEF u
  <1>2. DOMAIN u.devices = DOMAIN t.devices /\ Covered(u.devices, {})
    BY <1>0, <1>1, ExpiredMap, StateOnly
  <1>3. /\ DOMAIN u.switches = DOMAIN t.switches /\ Covered(u.switches, {})
        /\ \A x \in DOMAIN t.switches : u.switches[x].gen = t.switches[x].gen
    <2>1. /\ DOMAIN u.switches = DOMAIN t.switches /\ Covered(u.switches, {})
          /\ \A x \in DOMAIN t.switches :
                \/ u.switches[x] = t.switches[x]
                \/ u.switches[x] = [t.switches[x] EXCEPT !.state = "REVALIDATION_REQUIRED"]
      BY <1>0, <1>1, ExpiredMap, StateOnly
    <2>2. QED  BY <1>0, <2>1, StateOnly DEF IsMap
  <1>4. /\ DOMAIN u.ports = DOMAIN t.ports /\ Covered(u.ports, {})
        /\ \A x \in DOMAIN t.ports : u.ports[x].gen = t.ports[x].gen
    <2>1. /\ DOMAIN u.ports = DOMAIN t.ports /\ Covered(u.ports, {})
          /\ \A x \in DOMAIN t.ports :
                \/ u.ports[x] = t.ports[x]
                \/ u.ports[x] = [t.ports[x] EXCEPT !.state = "REVALIDATION_REQUIRED"]
      BY <1>0, <1>1, ExpiredMap, StateOnly
    <2>2. QED  BY <1>0, <2>1, StateOnly DEF IsMap
  <1>5. /\ DOMAIN u.links = DOMAIN t.links /\ Covered(u.links, {})
        /\ \A x \in DOMAIN t.links :
              /\ u.links[x].gen = t.links[x].gen
              /\ u.links[x].rootSwitch = t.links[x].rootSwitch
              /\ u.links[x].port = t.links[x].port
              /\ u.links[x].otherEnd = t.links[x].otherEnd
    <2>1. /\ DOMAIN u.links = DOMAIN t.links /\ Covered(u.links, {})
          /\ \A x \in DOMAIN t.links :
                \/ u.links[x] = t.links[x]
                \/ u.links[x] = [t.links[x] EXCEPT !.state = "REVALIDATION_REQUIRED"]
      BY <1>0, <1>1, ExpiredMap, StateOnly
    <2>2. QED  BY <1>0, <2>1, StateOnly, ZenonT(40) DEF IsMap
  <1>6. /\ DOMAIN u.partitions = DOMAIN t.partitions /\ Covered(u.partitions, {})
        /\ \A x \in DOMAIN t.partitions :
              /\ u.partitions[x].gen = t.partitions[x].gen
              /\ u.partitions[x].members = t.partitions[x].members
              /\ u.partitions[x].switches = t.partitions[x].switches
    <2>1. /\ DOMAIN u.partitions = DOMAIN t.partitions /\ Covered(u.partitions, {})
          /\ \A x \in DOMAIN t.partitions :
                \/ u.partitions[x] = t.partitions[x]
                \/ u.partitions[x] = [t.partitions[x] EXCEPT !.state = "REVALIDATION_REQUIRED"]
      BY <1>0, <1>1, ExpiredMap, StateOnly
    <2>2. QED  BY <1>0, <2>1, StateOnly DEF IsMap
  <1>7. Whole(u)  BY <1>2, <1>3, <1>4, <1>5, <1>6, SameShape
  <1>8. AllCovered(u, {})  BY <1>2, <1>3, <1>4, <1>5, <1>6 DEF AllCovered
  <1>9. ASSUME t.topologyGen + 1 < U64  PROVE ValidSuccessor(t, u)
    <2>1. u.topologyGen >= t.topologyGen
      BY <1>0, <1>1, <1>9, WidthAssumption DEF Gens, NextGen
    <2>2. /\ NoGenDecreased(t.switches, u.switches) /\ NoGenDecreased(t.ports, u.ports)
          /\ NoGenDecreased(t.links, u.links) /\ NoGenDecreased(t.partitions, u.partitions)
      <3>1. /\ \A x \in DOMAIN t.switches : t.switches[x].gen \in Nat
            /\ \A x \in DOMAIN t.ports : t.ports[x].gen \in Nat
            /\ \A x \in DOMAIN t.links : t.links[x].gen \in Nat
            /\ \A x \in DOMAIN t.partitions : t.partitions[x].gen \in Nat
        BY <1>0, GensAreNumbers DEF IsMap
      <3>2. QED  BY <1>3, <1>4, <1>5, <1>6, <3>1 DEF NoGenDecreased
    <2>3. QED  BY <1>7, <2>1, <2>2 DEF ValidSuccessor, GenerationsKept, Whole
  <1>10. QED  BY <1>7, <1>8, <1>9 DEF u

\* What restoreFromAndRevalidate does with a topology that was valid when it
\* was saved: a new registry takes it as it is, and expires it.
LEMMA RestoreFacts ==
    ASSUME NEW t, IsTopology(t), Whole(t)
    PROVE  LET b == BulkTopology(InitialTopology, RestoredEdit(t))
           IN  /\ ValidSuccessor(InitialTopology, b) /\ ValidSuccessor(b, ExpiredTopology(b))
               /\ \A ep \in Nat : /\ IsTopology(RestoredTopology(t, ep))
                                  /\ Whole(RestoredTopology(t, ep))
                                  /\ AllCovered(RestoredTopology(t, ep), {})
  <1> DEFINE e == RestoredEdit(t)
             b == BulkTopology(InitialTopology, e)
  <1>1. /\ IsBulkEdit(e) /\ e.devices = t.devices /\ e.switches = t.switches
        /\ e.ports = t.ports /\ e.links = t.links /\ e.partitions = t.partitions
    BY DEF IsTopology, RestoredEdit, IsBulkEdit
  <1>2. IsTopology(InitialTopology)
    BY WidthAssumption DEF IsTopology, InitialTopology, EmptyMap, IsMap, Gens, Provenance
  <1>3. IsTopology(b)  BY <1>1, <1>2, BulkSound
  <1>4. ASSUME NEW K, NEW T, NEW m, IsMap(m, K, T)  PROVE Overlay(EmptyMap, m) = m
    BY <1>4 DEF Overlay, EmptyMap, IsMap
  <1>5. /\ b.devices = t.devices /\ b.switches = t.switches /\ b.ports = t.ports
        /\ b.links = t.links /\ b.partitions = t.partitions /\ b.topologyGen = 1
    <2>1. /\ Overlay(EmptyMap, t.devices) = t.devices /\ Overlay(EmptyMap, t.switches) = t.switches
          /\ Overlay(EmptyMap, t.ports) = t.ports /\ Overlay(EmptyMap, t.links) = t.links
          /\ Overlay(EmptyMap, t.partitions) = t.partitions
      BY <1>4 DEF IsTopology
    <2>2. NextGen(0) = 1  BY WidthAssumption DEF NextGen
    <2> HIDE DEF e
    <2>3. QED  BY <1>1, <2>1, <2>2 DEF BulkTopology, Advance, InitialTopology
  <1> HIDE DEF b, e
  <1>6. Whole(b)  BY <1>5, WholeMaps
  <1>7. ValidSuccessor(InitialTopology, b)
    <2>1. GenerationsKept(InitialTopology, b)
      BY <1>5 DEF GenerationsKept, NoGenDecreased, InitialTopology, EmptyMap
    <2>2. QED  BY <1>6, <2>1 DEF ValidSuccessor, Whole
  <1>8. ValidSuccessor(b, ExpiredTopology(b))
    <2>1. b.topologyGen + 1 < U64  BY <1>5, WidthAssumption
    <2>2. QED  BY <1>3, <1>6, <2>1, ExpiredFacts
  <1>9. ASSUME NEW ep \in Nat
        PROVE  /\ IsTopology(RestoredTopology(t, ep)) /\ Whole(RestoredTopology(t, ep))
               /\ AllCovered(RestoredTopology(t, ep), {})
    <2> DEFINE p == PublishedAs(b, 2, ep)
               x == ExpiredTopology(p)
               r == PublishedAs(x, 3, ep)
    <2>1. IsTopology(p) /\ Whole(p)  BY <1>3, <1>6, PublishedTopology, WholeMaps
    <2>2. IsTopology(x) /\ Whole(x) /\ AllCovered(x, {})  BY <2>1, ExpiredSound, ExpiredFacts
    <2>3. /\ IsTopology(r) /\ r.devices = x.devices /\ r.switches = x.switches
          /\ r.ports = x.ports /\ r.links = x.links /\ r.partitions = x.partitions
      BY <2>2, PublishedTopology
    <2> HIDE DEF x
    <2>4. Whole(r) /\ AllCovered(r, {})  BY <2>2, <2>3, WholeMaps DEF AllCovered
    <2>5. r = RestoredTopology(t, ep)  BY DEF RestoredTopology, b, e, x
    <2>6. QED  BY <2>3, <2>4, <2>5
  <1>10. QED  BY <1>7, <1>8, <1>9 DEF b, e

\* applyWorkerTopology makes the worker the owner of all it publishes.
LEMMA StampedFacts ==
    ASSUME NEW e, IsBulkEdit(e), NEW o \in Owners
    PROVE  /\ IsBulkEdit(Stamped(e, o))
           /\ \A S : o \in S => /\ Covered(Stamped(e, o).devices, S)
                                /\ Covered(Stamped(e, o).switches, S)
                                /\ Covered(Stamped(e, o).ports, S)
                                /\ Covered(Stamped(e, o).links, S)
                                /\ Covered(Stamped(e, o).partitions, S)
  <1> DEFINE Own(m) == [x \in DOMAIN m |-> [m[x] EXCEPT !.owner = o]]
  <1>1. ASSUME NEW K, NEW T, NEW m, IsMap(m, K, T),
               \A r \in T : [r EXCEPT !.owner = o] \in T /\ [r EXCEPT !.owner = o].owner = o
        PROVE  IsMap(Own(m), K, T) /\ \A S : o \in S => Covered(Own(m), S)
    BY <1>1 DEF IsMap, Covered
  <1>2. /\ \A r \in DeviceRecord :
              [r EXCEPT !.owner = o] \in DeviceRecord /\ [r EXCEPT !.owner = o].owner = o
        /\ \A r \in SwitchRecord :
              [r EXCEPT !.owner = o] \in SwitchRecord /\ [r EXCEPT !.owner = o].owner = o
        /\ \A r \in PortRecord :
              [r EXCEPT !.owner = o] \in PortRecord /\ [r EXCEPT !.owner = o].owner = o
        /\ \A r \in LinkRecord :
              [r EXCEPT !.owner = o] \in LinkRecord /\ [r EXCEPT !.owner = o].owner = o
        /\ \A r \in PartitionRecord :
              [r EXCEPT !.owner = o] \in PartitionRecord /\ [r EXCEPT !.owner = o].owner = o
    BY DEF DeviceRecord, SwitchRecord, PortRecord, LinkRecord, PartitionRecord
  <1>3. /\ Stamped(e, o).devices = Own(e.devices) /\ Stamped(e, o).switches = Own(e.switches)
        /\ Stamped(e, o).ports = Own(e.ports) /\ Stamped(e, o).links = Own(e.links)
        /\ Stamped(e, o).partitions = Own(e.partitions)
    BY DEF Stamped
  <1> HIDE DEF Own
  <1>4. QED  BY <1>1, <1>2, <1>3 DEF IsBulkEdit

\* Publishing keeps the evidence covered if the publisher is.
LEMMA BulkCovered ==
    ASSUME TopoInv, NEW e, IsBulkEdit(e), NEW S, AllCovered(current, S),
           Covered(e.devices, S), Covered(e.switches, S), Covered(e.ports, S),
           Covered(e.links, S), Covered(e.partitions, S)
    PROVE  AllCovered(BulkTopology(current, e), S)
  <1>1. ASSUME NEW m, NEW n, Covered(m, S), Covered(n, S)  PROVE Covered(Overlay(m, n), S)
    BY <1>1 DEF Covered, Overlay
  <1> DEFINE b == BulkTopology(current, e)
  <1>2. /\ b.devices = Overlay(current.devices, e.devices)
        /\ b.switches = Overlay(current.switches, e.switches)
        /\ b.ports = Overlay(current.ports, e.ports)
        /\ b.links = Overlay(current.links, e.links)
        /\ b.partitions = Overlay(current.partitions, e.partitions)
    BY DEF TopoInv, IsTopology, BulkTopology, Advance
  <1> HIDE DEF b
  <1>3. AllCovered(b, S)  BY <1>1, <1>2 DEF AllCovered
  <1>4. QED  BY <1>3 DEF b

\* Publishing a candidate keeps the snapshot valid, and its evidence.
LEMMA CommitTopology ==
    ASSUME TopoInv, NEW cand, NEW revs, IsTopology(cand), Commit(cand, revs), UNCHANGED epoch,
           NEW S, AllCovered(cand, S)
    PROVE  TopoInv' /\ AllCovered(current', S)
  <1>1. /\ IsTopology(current')
        /\ current'.devices = cand.devices /\ current'.switches = cand.switches
        /\ current'.ports = cand.ports /\ current'.links = cand.links
        /\ current'.partitions = cand.partitions
    BY PublishedTopology DEF Commit, Published, TopoInv
  <1>2. Whole(cand)  BY DEF Whole, Commit, ValidateCandidate, ValidSuccessor
  <1>3. Whole(current')  BY <1>1, <1>2, WholeMaps
  <1>4. AllCovered(current', S)  BY <1>1 DEF AllCovered
  <1>5. QED  BY <1>1, <1>3, <1>4 DEF TopoInv, Commit

-----------------------------------------------------------------------------
(* The state file. *)

\* What a file, or a call that saves, may hold: a snapshot the registry had.
Snapshot(x) == x \in {NoFile, Torn} \/ (IsTopology(x) /\ Whole(x))

WriterOK(w) ==
    /\ w \in [pc : {w.pc}, data : {w.data}, mixed : {w.mixed}, clean : {w.clean}]
    /\ Snapshot(w.data)

DiskInv ==
    /\ Snapshot(file) /\ Snapshot(tmp)
    /\ writers \in [Callers -> {writers[c] : c \in Callers}]
    /\ \A c \in Callers : WriterOK(writers[c])

\* A call of serializeToFile takes the current snapshot.
LEMMA SerializeStep ==
    ASSUME DiskInv, TopoInv, NEW c \in Callers, Disk!Serialize(c, current)
    PROVE  DiskInv'
  <1>1. UNCHANGED <<file, tmp>>  BY DEF Disk!Serialize
  <1>2. /\ writers'[c] = Disk!Serialized(current)
        /\ \A v \in Callers \ {c} : writers'[v] = [writers[v] EXCEPT !.clean = FALSE]
        /\ writers' \in [Callers -> {writers'[v] : v \in Callers}]
    BY DEF Disk!Serialize
  <1>3. WriterOK(writers'[c])
    BY <1>2 DEF WriterOK, Disk!Serialized, Snapshot, TopoInv
  <1>4. ASSUME NEW v \in Callers \ {c}  PROVE WriterOK(writers'[v])
    BY <1>2, <1>4 DEF WriterOK, DiskInv
  <1>5. QED  BY <1>1, <1>2, <1>3, <1>4 DEF DiskInv

\* The steps of writeFileAtomic move snapshots around and make none up.
LEMMA SaveStepDisk ==
    ASSUME DiskInv, NEW c \in Callers, Disk!SaveStep(c)
    PROVE  DiskInv'
  <1>0. WriterOK(writers[c])  BY DEF DiskInv
  <1>1. CASE Disk!OpenTmp(c)
    <2> DEFINE b == \E u \in Callers : Disk!Writing(u)
    <2>1. /\ writers'[c] = [writers[c] EXCEPT !.pc = "writing", !.mixed = b]
          /\ \A v \in Callers \ {c} :
                writers'[v] \in {writers[v], [writers[v] EXCEPT !.mixed = TRUE]}
          /\ writers' \in [Callers -> {writers'[v] : v \in Callers}]
      BY <1>1 DEF Disk!OpenTmp, Disk!Opened
    <2> HIDE DEF b
    <2>2. WriterOK(writers'[c])  BY <1>0, <2>1 DEF WriterOK
    <2>3. ASSUME NEW v \in Callers \ {c}  PROVE WriterOK(writers'[v])
      BY <2>1, <2>3 DEF WriterOK, DiskInv
    <2>4. file' = file /\ tmp' = Torn  BY <1>1 DEF Disk!OpenTmp
    <2>5. QED  BY <2>1, <2>2, <2>3, <2>4 DEF DiskInv, Snapshot
  <1>2. ASSUME NEW w, WriterOK(w), writers' = [writers EXCEPT ![c] = w],
               Snapshot(file'), Snapshot(tmp')
        PROVE  DiskInv'
    BY <1>2 DEF DiskInv
  <1>3. ASSUME NEW p  PROVE WriterOK([writers[c] EXCEPT !.pc = p])
    BY <1>0 DEF WriterOK
  <1>4. CASE Disk!CloseTmp(c)
    <2>1. writers' = [writers EXCEPT ![c] = [writers[c] EXCEPT !.pc = "written"]]
      BY <1>4, Zenon DEF Disk!CloseTmp
    <2>2. file' = file /\ tmp' \in {writers[c].data, Torn}  BY <1>4 DEF Disk!CloseTmp
    <2>3. Snapshot(file') /\ Snapshot(tmp')
      BY <1>0, <2>2 DEF DiskInv, WriterOK, Snapshot
    <2>4. QED  BY <1>2, <1>3, <2>1, <2>3
  <1>5. CASE Disk!RemoveOld(c)
    <2>1. writers' = [writers EXCEPT ![c] = [writers[c] EXCEPT !.pc = "removed"]]
      BY <1>5, Zenon DEF Disk!RemoveOld
    <2>2. Snapshot(file') /\ Snapshot(tmp')  BY <1>5 DEF Disk!RemoveOld, DiskInv, Snapshot
    <2>3. QED  BY <1>2, <1>3, <2>1, <2>2
  <1>6. CASE Disk!RenameTmp(c)
    <2>1. writers' = [writers EXCEPT ![c] = Disk!NotWriting]  BY <1>6 DEF Disk!RenameTmp
    <2>2. WriterOK(Disk!NotWriting)  BY DEF WriterOK, Disk!NotWriting, Snapshot
    <2>3. Snapshot(file') /\ Snapshot(tmp')  BY <1>6 DEF Disk!RenameTmp, DiskInv, Snapshot
    <2>4. QED  BY <1>2, <2>1, <2>2, <2>3
  <1>7. QED  BY <1>1, <1>4, <1>5, <1>6 DEF Disk!SaveStep

\* A state file nobody touches stays as it is.
LEMMA DiskStutter ==
    ASSUME DiskInv, UNCHANGED diskVars
    PROVE  DiskInv'
  BY DEF DiskInv, diskVars

-----------------------------------------------------------------------------
(* The evidence and its owners. *)

\* The snapshot is valid, and what counts as current in it has a live owner.
EvidenceInv == TopoInv /\ OwnersLive

\* A step that keeps the snapshot and the owners that are served.
LEMMA EvidenceKept ==
    ASSUME EvidenceInv, UNCHANGED <<current, epoch, nextSnapshotId, unfenced>>,
           ServedOwners \subseteq ServedOwners'
    PROVE  EvidenceInv'
  <1>1. TopoInv'  BY DEF EvidenceInv, TopoInv
  <1>2. EvidenceOwners' = EvidenceOwners  BY DEF EvidenceOwners, CurrentOwners
  <1>3. OwnersLive'  BY <1>2 DEF EvidenceInv, OwnersLive
  <1>4. QED  BY <1>1, <1>3 DEF EvidenceInv

\* A connection that was not served, or keeps owner and phase, takes no owner
\* away.
LEMMA ServedKept ==
    ASSUME BootInv, NEW c \in Callers, NEW conn, conns' = [conns EXCEPT ![c] = conn],
           Serving(c) => conn.phase = conns[c].phase /\ conn.owner = conns[c].owner
    PROVE  ServedOwners \subseteq ServedOwners'
  <1>1. conns'[c] = conn /\ \A k \in Callers \ {c} : conns'[k] = conns[k]
    BY DEF BootInv, BootsOK
  <1>2. \A k \in Callers : Serving(k) => Serving(k)' /\ conns'[k].owner = conns[k].owner
    BY <1>1 DEF Serving, Registered
  <1>3. QED  BY <1>2 DEF ServedOwners

\* Only known edits travel.
LEMMA PublishedFrame ==
    ASSUME NEW f \in AnyFrame, f.type = "PUBLISH_TOPOLOGY"
    PROVE  f.topo \in BulkEdits
  BY DEF AnyFrame, Frames, Register

\* PUBLISH_TOPOLOGY keeps the evidence owned: the publisher is being served.
LEMMA PublishStep ==
    ASSUME BootInv, RouteInv, EvidenceInv, NEW c \in Callers, HandlePublish(c)
    PROVE  EvidenceInv'
  <1> DEFINE e == Head(conns[c].inbox).topo
             o == conns[c].owner
             cand == BulkTopology(current, Stamped(e, o))
             heard == Registered(c) /\ conns[c].epoch = epoch /\ Decodes(e)
             S == ServedOwners \cup unfenced
  <1>1. ServedOwners \subseteq ServedOwners' /\ UNCHANGED <<epoch, unfenced>>
    <2>1. UNCHANGED <<epoch, unfenced>>  BY DEF HandlePublish, bootVars
    <2>2. QED  BY <2>1, MiddleConn, ServedKept DEF Middle
  <1>2. CASE heard /\ ValidateCandidate(cand)
    <2>1. Commit(cand, NothingRevoked)  BY <1>2 DEF HandlePublish
    <2>2. conns[c].inbox \in Seq(AnyFrame) /\ o \in Owners
      BY DEF BootInv, BootsOK, ConnOK, Owners
    <2>3. /\ conns[c].inbox # <<>> /\ Head(conns[c].inbox).type = "PUBLISH_TOPOLOGY"
          /\ conns[c].phase = "open"
      BY DEF HandlePublish, Receives
    <2>4. IsBulkEdit(e)
      <3>1. Head(conns[c].inbox) \in AnyFrame  BY <2>2, <2>3, InboxFacts
      <3>2. e \in BulkEdits  BY <2>3, <3>1, PublishedFrame
      <3>3. QED  BY <3>2, InputAssumption
    <2>5. o \in S  BY <1>2, <2>3 DEF ServedOwners, Serving
    <2>6. AllCovered(current, S)  BY OwnersLiveCovered DEF EvidenceInv
    <2> HIDE DEF e, o, S
    <2>7. IsTopology(cand)  BY <2>2, <2>4, StampedFacts, BulkSound DEF EvidenceInv, TopoInv
    <2>8. AllCovered(cand, S)  BY <2>2, <2>4, <2>5, <2>6, StampedFacts, BulkCovered DEF EvidenceInv
    <2> HIDE DEF cand
    <2>9. TopoInv' /\ AllCovered(current', S)
      BY <1>1, <2>1, <2>7, <2>8, CommitTopology DEF EvidenceInv
    <2>10. S \subseteq (ServedOwners \cup unfenced)'  BY <1>1 DEF S
    <2>11. AllCovered(current', (ServedOwners \cup unfenced)')
      BY <2>9, <2>10 DEF AllCovered, Covered
    <2>12. OwnersLive'
      BY <2>11 DEF OwnersLive, EvidenceOwners, CurrentOwners, AllCovered, Covered
    <2>13. QED  BY <2>9, <2>12 DEF EvidenceInv
  <1>3. CASE ~ (heard /\ ValidateCandidate(cand))
    <2>1. UNCHANGED snapshotVars  BY <1>3, Zenon DEF HandlePublish
    <2>2. QED  BY <1>1, <2>1, EvidenceKept DEF snapshotVars
  <1>4. QED  BY <1>2, <1>3

\* The end of a handler keeps the evidence owned: what its worker published is
\* fenced in the step that stops serving it, unless a generation is exhausted.
LEMMA FenceStep ==
    ASSUME BootInv, EvidenceInv, NEW c \in Callers, LeaveLoop(c)
    PROVE  EvidenceInv'
  <1> DEFINE o == conns[c].owner
             cand == FencedTopology(current, o)
             S == ServedOwners \cup unfenced
             S2 == (ServedOwners \cup unfenced)'
  <1>1. /\ conns'[c].phase = "fenced" /\ \A k \in Callers \ {c} : conns'[k] = conns[k]
        /\ UNCHANGED epoch
    BY DEF LeaveLoop, BootInv, BootsOK, ConnOK
  <1>2. ServedOwners \ {o} \subseteq ServedOwners'
    BY <1>1 DEF ServedOwners, Serving, Registered
  <1>3. AllCovered(current, S)  BY OwnersLiveCovered DEF EvidenceInv
  <1>4. ASSUME TopoInv', AllCovered(current', S2)  PROVE EvidenceInv'
    BY <1>4 DEF EvidenceInv, OwnersLive, EvidenceOwners, CurrentOwners, AllCovered, Covered
  <1>5. CASE ~ Registered(c)
    <2>1. UNCHANGED <<unfenced, snapshotVars>>  BY <1>5 DEF LeaveLoop
    <2>2. ServedOwners \subseteq ServedOwners'
      BY <1>1, <1>5 DEF ServedOwners, Serving, Registered
    <2>3. QED  BY <1>1, <2>1, <2>2, EvidenceKept DEF snapshotVars
  <1>6. CASE Registered(c)
    <2>0. o \in Workers \X Boots
      BY <1>6, OwnerFacts DEF BootInv, BootsOK, ConnOK, Registered, Owners
    <2>1. unfenced' = IF o \in Unfenceable THEN unfenced \cup {o} ELSE unfenced \ {o}
      BY <1>6 DEF LeaveLoop
    <2>2. /\ AllCovered(cand, S \ {o})
          /\ o \notin Unfenceable => ValidateCandidate(cand)
      BY <1>3, <2>0, FencedTopologyFacts DEF EvidenceInv
    <2>3. S \ {o} \subseteq S2  BY <1>2, <2>1
    <2>4. CASE ValidateCandidate(cand)
      <3>1. Commit(cand, FenceRevocations(current, o))  BY <1>6, <2>4 DEF LeaveLoop
      <3>2. IsTopology(cand)  BY FenceEdit DEF EvidenceInv, TopoInv, Edit
      <3> HIDE DEF cand
      <3>3. TopoInv' /\ AllCovered(current', S \ {o})
        BY <1>1, <2>2, <3>1, <3>2, CommitTopology DEF EvidenceInv
      <3> HIDE DEF S, S2
      <3>4. AllCovered(current', S2)  BY <2>3, <3>3 DEF AllCovered, Covered
      <3>5. QED  BY <1>4, <3>3, <3>4
    <2>5. CASE ~ ValidateCandidate(cand)
      <3>1. UNCHANGED snapshotVars  BY <1>6, <2>5 DEF LeaveLoop
      <3>2. o \in S2  BY <2>1, <2>2, <2>5
      <3>3. S \subseteq S2  BY <2>3, <3>2
      <3> HIDE DEF S, S2
      <3>4. AllCovered(current', S2)
        BY <1>3, <3>1, <3>3 DEF AllCovered, Covered, snapshotVars
      <3>5. TopoInv'  BY <1>1, <3>1 DEF EvidenceInv, TopoInv, snapshotVars
      <3>6. QED  BY <1>4, <3>4, <3>5
    <2>6. QED  BY <2>4, <2>5
  <1>7. QED  BY <1>5, <1>6

\* Every step of a peer or a handler keeps the evidence owned.
LEMMA EvidenceInvStep ==
    ASSUME BootInv, RouteInv, EvidenceInv, NEW c \in Callers, Handler(c) \/ Peer(c)
    PROVE  EvidenceInv'
  <1>0. ConnOK(conns[c])  BY DEF BootInv, BootsOK
  <1>1. CASE Middle(c) /\ ~ HandlePublish(c)
    <2>1. UNCHANGED <<current, epoch, nextSnapshotId>>
      BY <1>1 DEF Middle, SaveSnapshot, SaveStep, HandleMeasurement, HandleQuery, ComputeAnswer,
           SendAnswer, PublishMeasurement, RouteSnapshot, RouteCompute, RouteLog, regVars,
           snapshotVars
    <2>2. UNCHANGED unfenced  BY <1>1, MiddleConn DEF bootVars
    <2>3. QED  BY <1>1, <2>1, <2>2, MiddleConn, ServedKept, EvidenceKept
  <1>2. CASE HandleRegister(c)
    <2>1. UNCHANGED <<current, epoch, nextSnapshotId, unfenced>>
      BY <1>2 DEF HandleRegister, regVars, bootVars
    <2>2. conns[c].inbox # <<>>  BY <1>2 DEF HandleRegister, Receives
    <2>3. \E conn : /\ conns' = [conns EXCEPT ![c] = conn]
                    /\ Serving(c) => conn.phase = conns[c].phase /\ conn.owner = conns[c].owner
      <3>1. CASE Admitted(conns[c].peer, conns[c].epoch)
        <4> DEFINE conn == [Done(conns[c]) EXCEPT !.owner = conns[c].peer]
        <4>1. conns' = [conns EXCEPT ![c] = conn]  BY <1>2, <3>1 DEF HandleRegister
        <4>2. conn.phase = conns[c].phase /\ conn.owner = conns[c].peer
          BY <1>0, <2>2, DoneOK DEF ConnOK
        <4>3. Serving(c) => conns[c].owner = conns[c].peer
          BY <1>0 DEF ConnOK, Serving, Registered
        <4> HIDE DEF conn
        <4>4. QED  BY <4>1, <4>2, <4>3
      <3>2. CASE ~ Admitted(conns[c].peer, conns[c].epoch)
        <4>1. conns' = [conns EXCEPT ![c] = Done(conns[c])]  BY <1>2, <3>2 DEF HandleRegister
        <4>2. QED  BY <1>0, <2>2, <4>1, DoneOK
      <3>3. QED  BY <3>1, <3>2
    <2>4. QED  BY <2>1, <2>3, ServedKept, EvidenceKept
  <1>3. CASE Release(c)
    <2>1. UNCHANGED <<current, epoch, nextSnapshotId, unfenced>>
      BY <1>3 DEF Release, regVars, bootVars
    <2>2. ~ Serving(c)  BY <1>3 DEF Release, Serving
    <2>3. QED  BY <1>3, <2>1, <2>2, ServedKept, EvidenceKept DEF Release
  <1>4. ASSUME NEW p \in Workers \X Boots, NEW ep \in Epochs, Accept(c, p, ep)
        PROVE  EvidenceInv'
    <2>1. UNCHANGED <<current, epoch, nextSnapshotId, unfenced>>
      BY <1>4 DEF Accept, regVars, bootVars
    <2>2. ~ Serving(c)  BY <1>4 DEF Accept, Serving
    <2>3. QED  BY <1>4, <2>1, <2>2, ServedKept, EvidenceKept DEF Accept
  <1>5. ASSUME NEW f \in Frames, Send(c, f)  PROVE EvidenceInv'
    <2>1. UNCHANGED <<current, epoch, nextSnapshotId, unfenced>>
      BY <1>5 DEF Send, regVars, bootVars
    <2>2. /\ Queued(conns[c], f).phase = conns[c].phase
          /\ Queued(conns[c], f).owner = conns[c].owner
      BY <1>0 DEF Queued, ConnOK
    <2>3. QED  BY <1>5, <2>1, <2>2, ServedKept, EvidenceKept DEF Send
  <1>6. ASSUME Disconnect(c)  PROVE EvidenceInv'
    <2>1. UNCHANGED <<current, epoch, nextSnapshotId, unfenced>>
      BY <1>6 DEF Disconnect, regVars, bootVars
    <2>2. PICK n : conns' = [conns EXCEPT ![c] = HungUp(conns[c], n)]
      BY <1>6 DEF Disconnect
    <2>3. /\ HungUp(conns[c], n).phase = conns[c].phase
          /\ HungUp(conns[c], n).owner = conns[c].owner
      BY <1>0 DEF HungUp, ConnOK
    <2>4. QED  BY <2>1, <2>2, <2>3, ServedKept, EvidenceKept
  <1>7. QED
    BY <1>1, <1>2, <1>3, <1>4, <1>5, <1>6, PublishStep, FenceStep DEF Handler, Peer, Middle

\* Every step of a peer or a handler keeps the files whole.
LEMMA DiskInvStep ==
    ASSUME DiskInv, TopoInv, NEW c \in Callers, Handler(c) \/ Peer(c)
    PROVE  DiskInv'
  <1>1. CASE SaveSnapshot(c)  BY <1>1, SerializeStep DEF SaveSnapshot
  <1>2. CASE SaveStep(c)  BY <1>2, SaveStepDisk DEF SaveStep
  <1>3. CASE ~ SaveSnapshot(c) /\ ~ SaveStep(c)
    <2>1. UNCHANGED diskVars
      BY <1>3 DEF Handler, Peer, HandleRegister, HandlePublish, HandleMeasurement, HandleQuery,
           ComputeAnswer, SendAnswer, LeaveLoop, Release, Accept, Send, Disconnect
    <2>2. QED  BY <2>1, DiskStutter
  <1>4. QED  BY <1>1, <1>2, <1>3

-----------------------------------------------------------------------------

\* The inductive invariant of the coordinator.
CoordInv == BootInv /\ RouteInv /\ LiveInv /\ EvidenceInv /\ DiskInv

\* A coordinator that has just started, with or without a state file to
\* restore, satisfies the invariant.
LEMMA StartedInv ==
    ASSUME conns = [c \in Callers |-> Closed], callers = [c \in Callers |-> Idle],
           maxBoot = EmptyMap, activeBoot = EmptyMap
    PROVE  BootInv /\ RouteInv /\ LiveInv
  <1>1. BootsOK  BY ClosedOK DEF BootsOK, IsMap, EmptyMap
  <1>2. UniqueIncarnation  BY DEF UniqueIncarnation, Serving, Closed
  <1>3. RouteInv  BY DEF RouteInv
  <1>4. Live = {}  BY DEF Live, Closed
  <1>5. LiveInv  BY <1>4, FS_EmptySet, CoordinatorAssumption DEF LiveInv
  <1>6. QED  BY <1>1, <1>2, <1>3, <1>5 DEF BootInv

\* The coordinator starts in the invariant.
LEMMA CoordInitInv ==
    ASSUME CoordInit
    PROVE  CoordInv
  <1>1. BootInv /\ RouteInv /\ LiveInv  BY StartedInv DEF CoordInit, RegInit
  <1>2. TopoInv
    <2>1. RegInv  BY RegInitInv DEF CoordInit
    <2>2. QED  BY <2>1 DEF RegInv, SnapshotOK, TopoInv, CoordInit, RegInit
  <1>3. OwnersLive
    BY DEF OwnersLive, EvidenceOwners, CurrentOwners, CoordInit, RegInit, InitialTopology, EmptyMap
  <1>4. DiskInv
    <2>1. /\ file = NoFile /\ tmp = NoFile
          /\ writers = [c \in Callers |-> Disk!NotWriting]
      BY DEF CoordInit, Disk!FileInit
    <2>2. WriterOK(Disk!NotWriting)  BY DEF WriterOK, Disk!NotWriting, Snapshot
    <2>3. QED  BY <2>1, <2>2 DEF DiskInv, Snapshot
  <1>5. QED  BY <1>1, <1>2, <1>3, <1>4 DEF CoordInv, EvidenceInv

\* A restarted coordinator serves nobody, has restored a valid topology or
\* none, and trusts no owned evidence in it.
LEMMA RestartStep ==
    ASSUME CoordInv, NEW ep \in Epochs, Restart(ep)
    PROVE  CoordInv'
  <1>1. BootInv' /\ RouteInv' /\ LiveInv'
    <2>1. /\ conns' = [c \in Callers |-> Closed] /\ callers' = [c \in Callers |-> Idle]
          /\ maxBoot' = EmptyMap /\ activeBoot' = EmptyMap
      BY DEF Restart
    <2>2. BootsOK'  BY <2>1, ClosedOK DEF BootsOK, IsMap, EmptyMap
    <2>3. UniqueIncarnation'  BY <2>1 DEF UniqueIncarnation, Serving, Closed
    <2>4. RouteInv'  BY <2>1 DEF RouteInv
    <2>5. Live' = {}  BY <2>1 DEF Live, Closed
    <2>6. LiveInv'  BY <2>5, FS_EmptySet, CoordinatorAssumption DEF LiveInv
    <2>7. QED  BY <2>2, <2>3, <2>4, <2>6 DEF BootInv
  <1>2. EvidenceInv'
    <2>1. ep \in Nat /\ epoch' = ep  BY InputAssumption DEF Restart
    <2>2. IsTopology(current') /\ Whole(current') /\ AllCovered(current', {})
      <3>1. CASE Disk!Readable
        <4>1. IsTopology(file) /\ Whole(file)
          BY <3>1 DEF CoordInv, DiskInv, Snapshot, Disk!Readable
        <4>2. current' = RestoredTopology(file, ep)  BY <3>1 DEF Restart
        <4>3. QED  BY <2>1, <4>1, <4>2, RestoreFacts
      <3>2. CASE ~ Disk!Readable
        <4>1. current' = InitialTopology  BY <3>2 DEF Restart
        <4>2. IsTopology(InitialTopology)
          BY WidthAssumption DEF IsTopology, InitialTopology, EmptyMap, IsMap, Gens, Provenance
        <4>3. Whole(InitialTopology)
          BY FS_EmptySet, LimitAssumption DEF InitialTopology, EmptyMap, Whole, CheckIntegrity,
               WithinLimits
        <4>4. AllCovered(InitialTopology, {})
          BY DEF AllCovered, Covered, InitialTopology, EmptyMap
        <4>5. QED  BY <4>1, <4>2, <4>3, <4>4
      <3>3. QED  BY <3>1, <3>2
    <2>3. nextSnapshotId' \in Nat  BY DEF Restart
    <2>4. OwnersLive'
      BY <2>2 DEF OwnersLive, EvidenceOwners, CurrentOwners, AllCovered, Covered
    <2>5. QED  BY <2>1, <2>2, <2>3, <2>4 DEF EvidenceInv, TopoInv
  <1>3. DiskInv'
    <2>1. /\ file' = file /\ tmp' = tmp
          /\ writers' = [c \in Callers |-> Disk!NotWriting]
      BY DEF Restart, Disk!Killed
    <2>2. WriterOK(Disk!NotWriting)  BY DEF WriterOK, Disk!NotWriting, Snapshot
    <2>3. QED  BY <2>1, <2>2 DEF CoordInv, DiskInv
  <1>4. QED  BY <1>1, <1>2, <1>3 DEF CoordInv

\* Every step of the coordinator keeps the invariant.
LEMMA CoordStep ==
    ASSUME CoordInv, [CoordNext]_coordVars
    PROVE  CoordInv'
  <1>1. ASSUME NEW c \in Callers, Handler(c) \/ Peer(c)  PROVE CoordInv'
    BY <1>1, HandlerStep, PeerStep, RouteInvStep, LiveInvStep, EvidenceInvStep, DiskInvStep
       DEF CoordInv, EvidenceInv
  <1>2. CASE UNCHANGED coordVars
    <2>1. BootInv'  BY <1>2, BootStutter DEF CoordInv, coordVars
    <2>2. RouteInv'  BY <1>2 DEF CoordInv, RouteInv, coordVars, regVars
    <2>3. LiveInv'  BY <1>2 DEF CoordInv, LiveInv, Live, coordVars
    <2>4. EvidenceInv'
      <3>1. ServedOwners' = ServedOwners
        BY <1>2 DEF ServedOwners, Serving, Registered, coordVars
      <3>2. QED  BY <1>2, <3>1, EvidenceKept DEF CoordInv, coordVars, regVars, bootVars
    <2>5. DiskInv'  BY <1>2, DiskStutter DEF CoordInv, coordVars
    <2>6. QED  BY <2>1, <2>2, <2>3, <2>4, <2>5 DEF CoordInv
  <1>3. QED  BY <1>1, <1>2, RestartStep DEF CoordNext

\* The inductive invariant holds in every reachable state of the coordinator.
THEOREM CoordInvariance == CoordSpec => []CoordInv
  <1>1. CoordInit => CoordInv  BY CoordInitInv
  <1>2. CoordInv /\ [CoordNext]_coordVars => CoordInv'  BY CoordStep
  <1>3. QED  BY <1>1, <1>2, PTL DEF CoordSpec

\* The connections and the boot maps keep their types, no stream outgrows its
\* bound, and acceptLoop never serves more than kMaxConnections.
THEOREM CoordTypeCorrect == CoordSpec => []CoordTypeOK
  <1>1. CoordInv => CoordTypeOK
    BY DEF CoordInv, BootInv, BootsOK, ConnOK, LiveInv, CoordTypeOK
  <1>2. QED  BY <1>1, CoordInvariance, PTL

\* Whatever order connections register, publish, end and are fenced in, and
\* whatever restarts there are, at most one connection serves a worker
\* incarnation, its boot is not above maxBoot_, and activeBoot_ names it unless
\* a newer incarnation has taken over (handleConnection).
THEOREM IncarnationsUnique == CoordSpec => []UniqueIncarnation
  <1>1. CoordInv => UniqueIncarnation  BY DEF CoordInv, BootInv
  <1>2. QED  BY <1>1, CoordInvariance, PTL

\* What a worker published counts as current only while a connection serves
\* that incarnation: the step that stops serving it fences it, a restart
\* expires it, and only a generation that was exhausted then is an exception.
THEOREM EvidenceHasLiveOwner == CoordSpec => []OwnersLive
  <1>1. CoordInv => OwnersLive  BY DEF CoordInv, EvidenceInv
  <1>2. QED  BY <1>1, CoordInvariance, PTL

\* A restart restores whatever readable file it finds: the file holds a
\* snapshot that was once valid, however calls of serializeToFile overlapped
\* and wherever the process was killed, so applyBulk and expireDynamicEvidence,
\* whose errors restoreFromAndRevalidate ignores, succeed.
THEOREM RestoreSucceeds == CoordSpec => []RestoreValid
  <1>1. CoordInv => RestoreValid
    BY RestoreFacts DEF CoordInv, DiskInv, Snapshot, RestoreValid, Disk!Readable
  <1>2. QED  BY <1>1, CoordInvariance, PTL
-----------------------------------------------------------------------------
(* The registry inside the coordinator. *)

\* A step that publishes a sound edit, or none, keeps the registry's invariant.
LEMMA RegistryCommit ==
    ASSUME RegInv, NEW cand, NEW revs, Edit(cand, revs),
           Commit(cand, revs) \/ UNCHANGED snapshotVars,
           UNCHANGED <<epoch, measureVars, logVars, callVars>>
    PROVE  RegInv'
  <1>1. SnapshotOK'
    BY CommitSound, SnapshotStutter DEF RegInv, LogsOK
  <1>2. LogsOK' /\ IdsOK'
    BY DEF RegInv, LogsOK, IdsOK, DecisionIdsDistinct, measureVars, logVars, callVars
  <1>3. QED  BY <1>1, <1>2 DEF RegInv

\* A worker's measurement is typed like any other.
LEMMA MeasuredFrame ==
    ASSUME NEW f \in AnyFrame, f.type = "PUBLISH_MEASUREMENT", NEW o \in Owners
    PROVE  [f.measurement EXCEPT !.id = 0, !.owner = o, !.kind = "SYNTHETIC_FIXTURE"] \in Measurement
  <1>1. f.measurement \in MeasurementInputs  BY DEF AnyFrame, Frames, Register
  <1>2. f.measurement \in Measurement  BY <1>1, InputAssumption
  <1>3. "SYNTHETIC_FIXTURE" \in MeasurementKind  BY DEF MeasurementKind
  <1>4. QED  BY <1>2, <1>3 DEF Measurement

\* Only known queries travel.
LEMMA QueryFrame ==
    ASSUME NEW f \in AnyFrame, f.type = "QUERY_ROUTE"
    PROVE  f.pair \in Queries /\ f.policy \in Policies
  BY DEF AnyFrame, Frames, Register

\* Every step of a peer or a handler is a step of the registry, or publishes a
\* sound edit, or leaves the registry alone.
LEMMA RegInvStep ==
    ASSUME CoordInv, RegInv, NEW c \in Callers, Handler(c) \/ Peer(c)
    PROVE  RegInv'
  <1> DEFINE o == conns[c].owner
             f == Head(conns[c].inbox)
  <1>0. /\ ConnOK(conns[c]) /\ conns[c].inbox \in Seq(AnyFrame) /\ o \in Owners
        /\ IsTopology(current)
    BY DEF CoordInv, BootInv, BootsOK, ConnOK, Owners, EvidenceInv, TopoInv
  <1>1. conns[c].inbox # <<>> => f \in AnyFrame  BY <1>0, InboxFacts
  <1>2. CASE UNCHANGED regVars
    BY <1>2, RegStep
  <1>3. CASE HandlePublish(c)
    <2> DEFINE cand == BulkTopology(current, Stamped(f.topo, o))
    <2>1. f \in AnyFrame /\ f.type = "PUBLISH_TOPOLOGY"
      BY <1>1, <1>3 DEF HandlePublish, Receives
    <2>2. IsBulkEdit(f.topo)  BY <2>1, PublishedFrame, InputAssumption
    <2>3. IsTopology(cand)  BY <1>0, <2>2, StampedFacts, BulkSound
    <2>4. Edit(cand, NothingRevoked)  BY <2>3, NoRevs
    <2>5. Commit(cand, NothingRevoked) \/ UNCHANGED snapshotVars
      BY <1>3, Zenon DEF HandlePublish
    <2>6. UNCHANGED <<epoch, measureVars, logVars, callVars>>  BY <1>3 DEF HandlePublish
    <2> HIDE DEF cand
    <2>7. QED  BY <2>4, <2>5, <2>6, RegistryCommit
  <1>4. CASE LeaveLoop(c)
    <2> DEFINE cand == FencedTopology(current, o)
               revs == FenceRevocations(current, o)
    <2>1. Edit(cand, revs)  BY <1>0, FenceEdit
    <2>2. Commit(cand, revs) \/ UNCHANGED snapshotVars
      BY <1>4, Zenon DEF LeaveLoop
    <2>3. UNCHANGED <<epoch, measureVars, logVars, callVars>>  BY <1>4 DEF LeaveLoop
    <2> HIDE DEF cand, revs
    <2>4. QED  BY <2>1, <2>2, <2>3, RegistryCommit
  <1>5. CASE HandleMeasurement(c)
    <2> DEFINE m == [f.measurement EXCEPT !.id = 0, !.owner = o, !.kind = "SYNTHETIC_FIXTURE"]
    <2>1. f \in AnyFrame /\ f.type = "PUBLISH_MEASUREMENT"
      BY <1>1, <1>5 DEF HandleMeasurement, Receives
    <2>2. m \in Measurement  BY <1>0, <2>1, MeasuredFrame
    <2>3. PublishMeasurement(m) \/ UNCHANGED regVars  BY <1>5, Zenon DEF HandleMeasurement
    <2> HIDE DEF m
    <2>4. ASSUME PublishMeasurement(m)  PROVE RegInv'
      <3>1. LogsOK'  BY <2>2, <2>4, MeasurementStep DEF RegInv
      <3>2. SnapshotOK'  BY <2>4, SnapshotStutter DEF RegInv, PublishMeasurement
      <3>3. IdsOK'
        BY <2>4, IdsKept DEF RegInv, PublishMeasurement, logVars, callVars
      <3>4. QED  BY <3>1, <3>2, <3>3 DEF RegInv
    <2>5. QED  BY <1>2, <2>3, <2>4
  <1>6. CASE HandleQuery(c)
    <2>1. f \in AnyFrame /\ f.type = "QUERY_ROUTE"
      BY <1>1, <1>6 DEF HandleQuery, Receives
    <2>2. UNCHANGED regVars \/ RouteSnapshot(c, f.pair[1], f.pair[2], f.policy)
      BY <1>6, Zenon DEF HandleQuery
    <2>3. RouteSnapshot(c, f.pair[1], f.pair[2], f.policy) => RegNext
      BY <2>1, QueryFrame, Zenon DEF RegNext, RouteOps
    <2>4. QED  BY <1>2, <2>2, <2>3, RegStep
  <1>7. CASE ComputeAnswer(c)
    BY <1>7, RegStep DEF ComputeAnswer, RegNext, RouteOps
  <1>8. CASE SendAnswer(c)
    BY <1>8, RegStep DEF SendAnswer, RegNext, RouteOps
  <1>9. QED
    BY <1>2, <1>3, <1>4, <1>5, <1>6, <1>7, <1>8 DEF Handler, Peer, HandleRegister, SaveSnapshot,
         SaveStep, Release, Accept, Send, Disconnect

\* A restart starts the registry afresh: its logs and counters are empty and
\* nothing has been revoked in it.
LEMMA RegInvRestart ==
    ASSUME CoordInv, CoordInv', RegInv, NEW ep \in Epochs, Restart(ep)
    PROVE  RegInv'
  <1>1. IsTopology(current') /\ Whole(current') /\ nextSnapshotId' \in Nat
    BY DEF CoordInv, EvidenceInv, TopoInv
  <1>2. version' \in 0 .. MaxVersion
    BY CoordinatorAssumption, LimitAssumption DEF Restart
  <1>3. Integrity'
    BY <1>1, IntegrityFacts DEF Whole, Integrity
  <1>4. revoked' \in Revocations /\ RevokedBehind'
    BY DEF Restart, NothingRevoked, Revocations, RevokedBehind, Behind
  <1>5. SnapshotOK'  BY <1>1, <1>2, <1>3, <1>4 DEF SnapshotOK
  <1>6. LogsOK'
    BY InputAssumption, LimitAssumption DEF Restart, LogsOK, RegInv
  <1>7. IdsOK'
    BY DEF Restart, IdsOK, DecisionIdsDistinct, Idle
  <1>8. QED  BY <1>5, <1>6, <1>7 DEF RegInv

\* The registry's invariant holds of the registry that the coordinator's
\* handlers share, whatever they interleave and across restarts.
THEOREM SharedRegistryInvariance == CoordSpec => []RegInv
  <1>1. CoordInit => RegInv  BY RegInitInv DEF CoordInit
  <1>2. CoordInv /\ CoordInv' /\ RegInv /\ [CoordNext]_coordVars => RegInv'
    <2>1. ASSUME CoordInv, CoordInv', RegInv, UNCHANGED coordVars  PROVE RegInv'
      BY <2>1, RegStep DEF coordVars
    <2>2. QED  BY <2>1, RegInvStep, RegInvRestart DEF CoordNext
  <1>3. QED  BY <1>1, <1>2, CoordInvariance, PTL DEF CoordSpec

\* No topology that a worker publishes, replays or publishes late brings back
\* the authority of a route that rests on what fencing has revoked.
THEOREM WorkersRestoreNoAuthority ==
    ASSUME Headroom
    PROVE  CoordSpec => []RevokedNeverAuthoritative
  <1>1. RegInv => RevokedNeverAuthoritative
    BY BehindNotAuthoritative DEF RegInv, SnapshotOK, RevokedNeverAuthoritative
  <1>2. QED  BY <1>1, SharedRegistryInvariance, PTL

\* The handlers of any number of connections answer with distinct decision ids.
THEOREM AnswerIdsUnique == CoordSpec => []DecisionIdsDistinct
  <1>1. RegInv => DecisionIdsDistinct  BY DEF RegInv, IdsOK
  <1>2. QED  BY <1>1, SharedRegistryInvariance, PTL

\* Every handler step makes a call go on, or leaves the calls alone.
LEMMA CallsShared ==
    ASSUME CoordInv, RegInv, CallsOK, [CoordNext]_coordVars
    PROVE  CallsOK'
  <1>1. CASE UNCHANGED callers  BY <1>1, CallsKept
  <1>2. CASE RegNext  BY <1>2, CallsStep
  <1>3. ASSUME NEW ep, Restart(ep)  PROVE CallsOK'
    <2>1. callers' = [c \in Callers |-> Idle]  BY <1>3 DEF Restart
    <2>2. CallOK(Idle)  BY DEF CallOK, Idle
    <2>3. QED  BY <2>1, <2>2, CallsKept
  <1>4. ASSUME NEW c \in Callers, HandleQuery(c)  PROVE CallsOK'
    <2> DEFINE f == Head(conns[c].inbox)
    <2>1. conns[c].inbox \in Seq(AnyFrame)  BY DEF CoordInv, BootInv, BootsOK, ConnOK
    <2>2. f \in AnyFrame /\ f.type = "QUERY_ROUTE"
      BY <1>4, <2>1, InboxFacts DEF HandleQuery, Receives
    <2>3. UNCHANGED regVars \/ RouteSnapshot(c, f.pair[1], f.pair[2], f.policy)
      BY <1>4, Zenon DEF HandleQuery
    <2>4. RouteSnapshot(c, f.pair[1], f.pair[2], f.policy) => RegNext
      BY <2>2, QueryFrame, Zenon DEF RegNext, RouteOps
    <2>5. QED  BY <1>1, <1>2, <2>3, <2>4 DEF regVars
  <1>5. ASSUME NEW c \in Callers, ComputeAnswer(c) \/ SendAnswer(c)  PROVE CallsOK'
    BY <1>2, <1>5 DEF ComputeAnswer, SendAnswer, RegNext, RouteOps
  <1>6. ASSUME NEW c \in Callers, HandlePublish(c) \/ HandleMeasurement(c) \/ LeaveLoop(c)
        PROVE  CallsOK'
    BY <1>1, <1>6 DEF HandlePublish, HandleMeasurement, LeaveLoop, PublishMeasurement, callVars,
         regVars
  <1>7. CASE UNCHANGED regVars  BY <1>1, <1>7 DEF regVars
  <1>8. ASSUME NEW c \in Callers, Handler(c) \/ Peer(c)  PROVE CallsOK'
    BY <1>4, <1>5, <1>6, <1>7, <1>8 DEF Handler, Peer, HandleRegister, SaveSnapshot, SaveStep,
         Release, Accept, Send, Disconnect
  <1>9. QED  BY <1>3, <1>7, <1>8 DEF CoordNext, coordVars

\* Every route a worker is granted is one that the snapshot it was computed
\* from offers, whatever other workers publish and however they are fenced
\* between the critical sections of the call, and across restarts.
THEOREM AnsweredRoutesSound == CoordSpec => []RouteSound
  <1>1. CoordInit => CallsOK  BY DEF CoordInit, RegInit, Idle, CallsOK, CallOK
  <1>2. CoordInv /\ RegInv /\ CallsOK /\ [CoordNext]_coordVars => CallsOK'  BY CallsShared
  <1>3. CallsOK => RouteSound  BY Zenon DEF CallsOK, CallOK, RouteSound
  <1>4. QED
    BY <1>1, <1>2, <1>3, CoordInvariance, SharedRegistryInvariance, PTL DEF CoordSpec
=============================================================================
