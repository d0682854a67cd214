--------------------- MODULE CoordinatorThreads_proofs ----------------------
(***************************************************************************)
(* Proofs that the coordinator's threads keep the connection limit, that   *)
(* stop leaves nothing running, that no socket is closed twice and that    *)
(* crc32 never computes with a table another thread is still filling.      *)
(***************************************************************************)
EXTENDS CoordinatorThreads, FiniteSetTheorems, TLAPS

\* The connection the accept loop holds between accept and the thread's start.
Admitting(c) == acceptor \in {"push", "spawn"} /\ c = current

Active == {"recv", "fill", "compute", "send", "leave", "erase"}

\* Where stop is decides what the accept loop can still do.
StagesInv ==
    /\ running \in BOOLEAN /\ listening \in BOOLEAN
    /\ main = "up" => running /\ listening
    /\ main = "closeListener" => ~ running /\ listening
    /\ main = "joinAcceptor" => ~ running /\ ~ listening
    /\ main \in {"closeLive", "swap", "join", "down"} =>
          ~ running /\ ~ listening /\ acceptor \in {"none", "ended"}

\* Each connection belongs to the accept loop or to its handler, in the
\* order it is admitted, and a socket is open or live only then.
SocketsInv ==
    /\ acceptor \in {"push", "spawn"} => current \in Conns /\ handler[current].pc = "unused"
    /\ \A c \in Conns :
          /\ peer[c] \in {"away", "waiting"} => handler[c].pc = "unused" /\ ~ Admitting(c)
          /\ c \in live => handler[c].pc \in Active \/ (acceptor = "spawn" /\ c = current)
          /\ c \in open => handler[c].pc \in Active \cup {"close"} \/ Admitting(c)
          /\ handler[c].pc \in {"erase", "close", "done"} => c \in fenced

\* Every handler that runs is one stop has joined or still has to.
JoinableInv ==
    /\ main # "join" => joining = {}
    /\ main \in {"join", "down"} => threads = {}
    /\ \A c \in Conns : handler[c].pc \in Active \cup {"close"} => c \in threads \cup joining

\* A thread that fills the table has filled all below its index, and the flag
\* is set, and the table used, when it is whole.
CrcInv ==
    /\ init \in BOOLEAN
    /\ init => table = 1 .. TableSize
    /\ \A c \in Conns :
          /\ handler[c].pc = "fill" => handler[c].i >= 1 /\ 1 .. handler[c].i - 1 \subseteq table
          /\ handler[c].pc = "compute" => table = 1 .. TableSize

\* The limit is tested before the socket is added; in between the list only
\* shrinks.
LimitInv == acceptor = "push" => Cardinality(live) < kMaxConnections

\* The inductive invariant.
ThreadsInv ==
    ThreadsTypeOK /\ StagesInv /\ SocketsInv /\ JoinableInv /\ CrcInv /\ LimitInv

\* liveSocks_ is finite, so that its size counts its elements.
LEMMA LiveFinite ==
    ASSUME ThreadsTypeOK
    PROVE  IsFiniteSet(live) /\ Cardinality(live) \in Nat
  <1>1. IsFiniteSet(Conns)  BY FS_Interval, ThreadsAssumption DEF Conns
  <1>2. IsFiniteSet(live)  BY <1>1, FS_Subset DEF ThreadsTypeOK
  <1>3. QED  BY <1>2, FS_CardinalityType

\* start and every step of stop keep the invariant: a step of stop past the
\* accept thread's end meets no connection that is still being admitted.
LEMMA StopKeeps ==
    ASSUME ThreadsInv, start \/ StopBegin \/ StopStep
    PROVE  ThreadsInv'
  <1> USE DEF ThreadsInv, ThreadsTypeOK, StagesInv, SocketsInv, JoinableInv, CrcInv, LimitInv,
              Admitting, Active, acceptVars, sharedVars, crcVars, boundVars
  <1>1. CASE start  BY <1>1 DEF start
  <1>2. CASE StopBegin  BY <1>2 DEF StopBegin
  <1>3. CASE StopListener  BY <1>3 DEF StopListener
  <1>4. CASE StopJoinAcceptor  BY <1>4 DEF StopJoinAcceptor
  <1>5. CASE StopCloseLive  BY <1>5 DEF StopCloseLive
  <1>6. CASE StopSwap  BY <1>6 DEF StopSwap
  <1>7. CASE StopJoin  BY <1>7 DEF StopJoin
  <1>8. QED  BY <1>1, <1>2, <1>3, <1>4, <1>5, <1>6, <1>7 DEF StopStep

\* A handler that moves: where it is now, and that the others are where they were.
LEMMA Moves ==
    ASSUME ThreadsTypeOK, NEW c \in Conns, NEW pc \in HandlerPlaces, NEW i \in 0 .. TableSize + 1,
           handler' = [handler EXCEPT ![c] = [pc |-> pc, i |-> i]]
    PROVE  /\ handler' \in [Conns -> [pc : HandlerPlaces, i : 0 .. TableSize + 1]]
           /\ handler'[c].pc = pc /\ handler'[c].i = i
           /\ \A k \in Conns \ {c} : handler'[k] = handler[k]
  BY DEF ThreadsTypeOK

\* The accept loop keeps the invariant: what it admits is a connection no handler
\* has had, and the limit it tested still holds when it adds the socket.
LEMMA AcceptorKeeps ==
    ASSUME ThreadsInv, (\E c \in Conns : AcceptOne(c)) \/ AcceptTest \/ AcceptEnds \/ AcceptError
           \/ PushLive \/ Spawn
    PROVE  ThreadsInv'
  <1> USE DEF ThreadsInv, ThreadsTypeOK, StagesInv, SocketsInv, JoinableInv, CrcInv, LimitInv,
              Admitting, Active, acceptVars, sharedVars, crcVars, boundVars
  <1>1. CASE AcceptTest  BY <1>1 DEF AcceptTest
  <1>2. CASE AcceptEnds  BY <1>2 DEF AcceptEnds
  <1>3. CASE AcceptError  BY <1>3 DEF AcceptError
  <1>4. CASE PushLive
    <2>1. current \in Conns /\ live' = live \cup {current}  BY <1>4 DEF PushLive
    <2>2. Cardinality(live) + 1 <= kMaxConnections
      BY <1>4, LiveFinite, ThreadsAssumption DEF PushLive
    <2>3. Cardinality(live') <= kMaxConnections
      <3> HIDE DEF ThreadsTypeOK
      <3>1. CASE current \in live
        <4>1. live' = live  BY <2>1, <3>1
        <4>2. QED  BY <4>1, <2>2, LiveFinite, ThreadsAssumption
      <3>2. CASE current \notin live
        <4>1. Cardinality(live') = Cardinality(live) + 1
          BY <2>1, <3>2, LiveFinite, FS_AddElement
        <4>2. QED  BY <4>1, <2>2
      <3>3. QED  BY <3>1, <3>2
    <2>4. QED  BY <1>4, <2>1, <2>3 DEF PushLive
  <1>5. CASE Spawn
    <2>1. /\ current \in Conns /\ handler' = [handler EXCEPT ![current] = [pc |-> "recv", i |-> 0]]
          /\ "recv" \in HandlerPlaces /\ 0 \in 0 .. TableSize + 1
      BY <1>5, ThreadsAssumption DEF Spawn, At, HandlerPlaces
    <2>2. /\ handler' \in [Conns -> [pc : HandlerPlaces, i : 0 .. TableSize + 1]]
          /\ handler'[current].pc = "recv"
          /\ \A k \in Conns \ {current} : handler'[k] = handler[k]
      <3> HIDE DEF ThreadsTypeOK
      <3>1. QED  BY <2>1, Moves
    <2>3. QED  BY <1>5, <2>1, <2>2 DEF Spawn, NoConn
  <1>6. CASE \E c \in Conns : AcceptOne(c)
    BY <1>6, LiveFinite, ThreadsAssumption DEF AcceptOne, Full
  <1>7. QED  BY <1>1, <1>2, <1>3, <1>4, <1>5, <1>6

\* A handler keeps the invariant: it fences before it takes its socket off the
\* list, and closes the socket after.
LEMMA HandlerKeeps ==
    ASSUME ThreadsInv, NEW c \in Conns, Handler(c)
    PROVE  ThreadsInv'
  <1> USE ThreadsAssumption DEF ThreadsInv, acceptVars, sharedVars, crcVars, boundVars, Goes, At
  <1>0. 0 \in 0 .. TableSize + 1  OBVIOUS
  <1>1. CASE HandlerRecv(c)
    <2> USE <1>1 DEF HandlerRecv
    <2>1. ThreadsTypeOK'  BY <1>0, Moves DEF ThreadsTypeOK, HandlerPlaces
    <2>2. StagesInv'  BY DEF StagesInv
    <2>3. SocketsInv'  BY <1>0, Moves DEF SocketsInv, Admitting, Active, HandlerPlaces, ThreadsTypeOK
    <2>4. JoinableInv'  BY <1>0, Moves DEF JoinableInv, Active, HandlerPlaces
    <2>5. CrcInv'  BY <1>0, Moves DEF CrcInv, HandlerPlaces, ThreadsTypeOK
    <2>6. LimitInv'  BY DEF LimitInv
    <2>7. QED  BY <2>1, <2>2, <2>3, <2>4, <2>5, <2>6
  <1>2. CASE Crc32Fill(c)
    <2> DEFINE n == handler[c].i
    <2>0. n \in 0 .. TableSize + 1 /\ n \in Int /\ n >= 1 /\ 1 .. n - 1 \subseteq table
          /\ handler[c].pc = "fill" /\ table \subseteq 1 .. TableSize
      BY <1>2 DEF Crc32Fill, CrcInv, ThreadsTypeOK
    <2>1. CASE n > TableSize
      <3>1. handler' = [handler EXCEPT ![c] = [pc |-> "compute", i |-> 0]] /\ init' /\ table' = table
        BY <1>2, <2>1 DEF Crc32Fill
      <3>2. table = 1 .. TableSize
        <4>1. n - 1 = TableSize  BY <2>0, <2>1
        <4> HIDE DEF n
        <4>2. QED  BY <2>0, <4>1
      <3>3. "compute" \in HandlerPlaces  BY DEF HandlerPlaces
      <3>4. /\ handler' \in [Conns -> [pc : HandlerPlaces, i : 0 .. TableSize + 1]]
            /\ handler'[c].pc = "compute"
            /\ \A k \in Conns \ {c} : handler'[k] = handler[k]
        BY <1>0, <3>1, <3>3, Moves
      <3>5. ThreadsTypeOK'  BY <1>2, <3>1, <3>4 DEF Crc32Fill, ThreadsTypeOK
      <3>6. SocketsInv' /\ JoinableInv'
        BY <1>2, <2>0, <3>4 DEF Crc32Fill, SocketsInv, JoinableInv, Admitting, Active
      <3>7. CrcInv'  BY <1>2, <3>1, <3>2, <3>4 DEF Crc32Fill, CrcInv
      <3>8. QED  BY <1>2, <3>5, <3>6, <3>7 DEF Crc32Fill, StagesInv, LimitInv
    <2>2. CASE ~ (n > TableSize)
      <3>1. /\ handler' = [handler EXCEPT ![c] = [pc |-> "fill", i |-> n + 1]]
            /\ table' = table \cup {n} /\ init' = init
        BY <1>2, <2>2 DEF Crc32Fill
      <3>2. n \in 1 .. TableSize /\ n + 1 \in 0 .. TableSize + 1 /\ 1 .. (n + 1) - 1 \subseteq table'
        BY <2>0, <2>2, <3>1
      <3>3. "fill" \in HandlerPlaces  BY DEF HandlerPlaces
      <3>4. /\ handler' \in [Conns -> [pc : HandlerPlaces, i : 0 .. TableSize + 1]]
            /\ handler'[c].pc = "fill" /\ handler'[c].i = n + 1
            /\ \A k \in Conns \ {c} : handler'[k] = handler[k]
        BY <3>1, <3>2, <3>3, Moves
      <3>5. ThreadsTypeOK'  BY <1>2, <3>1, <3>2, <3>4 DEF Crc32Fill, ThreadsTypeOK
      <3>6. SocketsInv' /\ JoinableInv'
        BY <1>2, <2>0, <3>4 DEF Crc32Fill, SocketsInv, JoinableInv, Admitting, Active
      <3>7. CrcInv'
        <4>1. n + 1 >= 1  BY <2>0
        <4>2. (init => table' = 1 .. TableSize) /\ (table = 1 .. TableSize => table' = 1 .. TableSize)
          BY <3>1, <3>2 DEF CrcInv
        <4>3. QED  BY <3>1, <3>2, <3>4, <4>1, <4>2 DEF CrcInv
      <3>8. QED  BY <1>2, <3>5, <3>6, <3>7 DEF Crc32Fill, StagesInv, LimitInv
    <2>3. QED  BY <2>1, <2>2
  <1>3. CASE HandlerFed(c)
    <2> USE <1>3 DEF HandlerFed
    <2>1. ThreadsTypeOK'  BY <1>0, Moves DEF ThreadsTypeOK, HandlerPlaces
    <2>2. StagesInv'  BY DEF StagesInv
    <2>3. SocketsInv'  BY <1>0, Moves DEF SocketsInv, Admitting, Active, HandlerPlaces, ThreadsTypeOK
    <2>4. JoinableInv'  BY <1>0, Moves DEF JoinableInv, Active, HandlerPlaces
    <2>5. CrcInv'  BY <1>0, Moves DEF CrcInv, HandlerPlaces, ThreadsTypeOK
    <2>6. LimitInv'  BY DEF LimitInv
    <2>7. QED  BY <2>1, <2>2, <2>3, <2>4, <2>5, <2>6
  <1>4. CASE HandlerSent(c)
    <2> USE <1>4 DEF HandlerSent
    <2>1. ThreadsTypeOK'  BY <1>0, Moves DEF ThreadsTypeOK, HandlerPlaces
    <2>2. StagesInv'  BY DEF StagesInv
    <2>3. SocketsInv'  BY <1>0, Moves DEF SocketsInv, Admitting, Active, HandlerPlaces, ThreadsTypeOK
    <2>4. JoinableInv'  BY <1>0, Moves DEF JoinableInv, Active, HandlerPlaces
    <2>5. CrcInv'  BY <1>0, Moves DEF CrcInv, HandlerPlaces, ThreadsTypeOK
    <2>6. LimitInv'  BY DEF LimitInv
    <2>7. QED  BY <2>1, <2>2, <2>3, <2>4, <2>5, <2>6
  <1>5. CASE Fence(c)
    <2> USE <1>5 DEF Fence
    <2>1. ThreadsTypeOK'  BY <1>0, Moves DEF ThreadsTypeOK, HandlerPlaces
    <2>2. StagesInv'  BY DEF StagesInv
    <2>3. SocketsInv'  BY <1>0, Moves DEF SocketsInv, Admitting, Active, HandlerPlaces, ThreadsTypeOK
    <2>4. JoinableInv'  BY <1>0, Moves DEF JoinableInv, Active, HandlerPlaces
    <2>5. CrcInv'  BY <1>0, Moves DEF CrcInv, HandlerPlaces, ThreadsTypeOK
    <2>6. LimitInv'  BY DEF LimitInv
    <2>7. QED  BY <2>1, <2>2, <2>3, <2>4, <2>5, <2>6
  <1>6. CASE EraseLive(c)
    <2> USE <1>6 DEF EraseLive
    <2>0. Cardinality(live') \in Nat /\ Cardinality(live') <= Cardinality(live)
      <3>1. live' \subseteq live  OBVIOUS
      <3>2. QED  BY <3>1, LiveFinite, FS_Subset, FS_CardinalityType
    <2>1. ThreadsTypeOK'  BY <1>0, <2>0, LiveFinite, Moves DEF ThreadsTypeOK, HandlerPlaces
    <2>2. StagesInv'  BY DEF StagesInv
    <2>3. SocketsInv'  BY <1>0, Moves DEF SocketsInv, Admitting, Active, HandlerPlaces, ThreadsTypeOK
    <2>4. JoinableInv'  BY <1>0, Moves DEF JoinableInv, Active, HandlerPlaces
    <2>5. CrcInv'  BY <1>0, Moves DEF CrcInv, HandlerPlaces, ThreadsTypeOK
    <2>6. LimitInv'  BY <2>0, LiveFinite DEF LimitInv
    <2>7. QED  BY <2>1, <2>2, <2>3, <2>4, <2>5, <2>6
  <1>7. CASE HandlerClose(c)
    <2> USE <1>7 DEF HandlerClose
    <2>1. ThreadsTypeOK'  BY <1>0, Moves DEF ThreadsTypeOK, HandlerPlaces
    <2>2. StagesInv'  BY DEF StagesInv
    <2>3. SocketsInv'  BY <1>0, Moves DEF SocketsInv, Admitting, Active, HandlerPlaces, ThreadsTypeOK
    <2>4. JoinableInv'  BY <1>0, Moves DEF JoinableInv, Active, HandlerPlaces
    <2>5. CrcInv'  BY <1>0, Moves DEF CrcInv, HandlerPlaces, ThreadsTypeOK
    <2>6. LimitInv'  BY DEF LimitInv
    <2>7. QED  BY <2>1, <2>2, <2>3, <2>4, <2>5, <2>6
  <1>8. QED  BY <1>1, <1>2, <1>3, <1>4, <1>5, <1>6, <1>7 DEF Handler

\* The peers keep the invariant.
LEMMA PeersKeep ==
    ASSUME ThreadsInv, NEW c \in Conns, Connect(c) \/ PeerMoves(c)
    PROVE  ThreadsInv'
  <1> USE DEF ThreadsInv, ThreadsTypeOK, StagesInv, SocketsInv, JoinableInv, CrcInv, LimitInv,
              Admitting, Active, acceptVars, sharedVars, crcVars, boundVars
  <1>1. CASE Connect(c)  BY <1>1 DEF Connect
  <1>2. CASE PeerMoves(c)  BY <1>2 DEF PeerMoves
  <1>3. QED  BY <1>1, <1>2

\* The invariant holds in every reachable state.
LEMMA ThreadsInvariant == ThreadsSpec => []ThreadsInv
  <1>1. ThreadsInit => ThreadsInv
    <2>1. Cardinality({}) = 0  BY FS_EmptySet
    <2>2. 0 \in 0 .. TableSize + 1  BY ThreadsAssumption
    <2> SUFFICES ASSUME ThreadsInit  PROVE ThreadsInv
      OBVIOUS
    <2>3. handler \in [Conns -> [pc : HandlerPlaces, i : 0 .. TableSize + 1]]
          /\ \A c \in Conns : handler[c].pc = "unused"
      BY <2>2 DEF ThreadsInit, Unused, HandlerPlaces
    <2>4. ThreadsTypeOK
      BY <2>1, <2>3, ThreadsAssumption DEF ThreadsInit, ThreadsTypeOK
    <2>5. StagesInv /\ SocketsInv /\ JoinableInv /\ CrcInv /\ LimitInv
      BY <2>3 DEF ThreadsInit, StagesInv, SocketsInv, JoinableInv, CrcInv, LimitInv, Admitting, Active
    <2>6. QED  BY <2>4, <2>5 DEF ThreadsInv
  <1>2. ThreadsInv /\ [ThreadsNext]_threadVars => ThreadsInv'
    <2>1. CASE UNCHANGED threadVars
      BY <2>1 DEF ThreadsInv, ThreadsTypeOK, StagesInv, SocketsInv, JoinableInv, CrcInv, LimitInv,
                  Admitting, threadVars, acceptVars, sharedVars, crcVars
    <2>2. QED
      BY <2>1, StopKeeps, AcceptorKeeps, HandlerKeeps, PeersKeep DEF ThreadsNext, Acceptor
  <1>3. QED  BY <1>1, <1>2, PTL DEF ThreadsSpec

\* Type correctness, and at most kMaxConnections live sockets: acceptLoop tests
\* the limit in one critical section and adds the socket in another.
THEOREM ThreadsTypeCorrect == ThreadsSpec => []ThreadsTypeOK
  BY ThreadsInvariant, PTL DEF ThreadsInv

\* When stop has returned no handler, accept thread, socket or thread object
\* is left, and every worker has been fenced.
THEOREM StopLeavesNothing == ThreadsSpec => []StopComplete
  <1>1. ThreadsInv => StopComplete
    BY DEF ThreadsInv, ThreadsTypeOK, StagesInv, SocketsInv, JoinableInv, StopComplete, Admitting,
           Active, HandlerPlaces
  <1>2. QED  BY <1>1, ThreadsInvariant, PTL

\* No handle is closed twice, by stop and by its handler.
THEOREM SocketsClosedOnce == ThreadsSpec => []ClosedOnce
  <1>1. ThreadsInv => ClosedOnce
    BY DEF ThreadsInv, ThreadsTypeOK, SocketsInv, ClosedOnce, Active
  <1>2. QED  BY <1>1, ThreadsInvariant, PTL

\* crc32 computes with a whole table, however many threads race to fill it.
THEOREM CrcTableIsWhole == ThreadsSpec => []CrcTableWhole
  <1>1. ThreadsInv => CrcTableWhole  BY DEF ThreadsInv, CrcInv, CrcTableWhole
  <1>2. QED  BY <1>1, ThreadsInvariant, PTL
=============================================================================
