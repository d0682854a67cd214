------------------------ MODULE CoordinatorThreads --------------------------
(***************************************************************************)
(* The threads of a coordinator process (coordinator.cpp): the caller of   *)
(* start and stop, the accept loop and a handler per connection, and what  *)
(* they share: running_, the listening socket, liveSocks_, threads_, and   *)
(* the table that crc32 (wire.cpp) fills the first time it is called.      *)
(* What a handler does with its frames is in Coordinator.                  *)
(*                                                                         *)
(* Closing a socket ends the accept, recv or send another thread is        *)
(* blocked in.  running_ is atomic; crc32's flag and table are not, but    *)
(* the stores of a thread reach the others in order on the supported       *)
(* build (x86), so every interleaving of them is one of the model's.       *)
(***************************************************************************)
EXTENDS Naturals, FiniteSets

CONSTANTS
    MaxConns,            \* bound on the connections that are ever made
    kMaxConnections,     \* limits.h
    TableSize,           \* bound on the entries of the CRC table
    MaxStarts,           \* bound on the calls of start
    MaxAcceptErrors      \* bound on the accepts that fail by themselves

ASSUME ThreadsAssumption ==
    /\ MaxConns \in Nat /\ kMaxConnections \in Nat /\ TableSize \in Nat
    /\ MaxStarts \in Nat /\ MaxAcceptErrors \in Nat

VARIABLES
    main,                \* where the caller of start and stop is
    acceptor, current,   \* the accept thread, the connection it is admitting
    running, listening,
    live, threads,       \* liveSocks_ and threads_
    joining,             \* the threads stop has yet to join
    peer,                \* the other end of each connection
    handler,             \* each handler: where it is, its index in crc32
    open,                \* the sockets that are open
    fenced,              \* the connections whose worker has been fenced
    table, init,         \* crc32's statics: the entries filled, the flag
    starts, errors

acceptVars == <<acceptor, current, running, listening>>
sharedVars == <<live, threads, open>>
crcVars    == <<table, init>>
boundVars  == <<starts, errors>>
threadVars == <<main, acceptVars, sharedVars, joining, peer, handler, fenced, crcVars, boundVars>>

\* Connections are numbered as they are made.
Conns  == 1 .. MaxConns
NoConn == 0
Unused == [pc |-> "unused", i |-> 0]
At(pc) == [pc |-> pc, i |-> 0]

ThreadsInit ==
    /\ main = "down" /\ acceptor = "none" /\ current = NoConn
    /\ running = FALSE /\ listening = FALSE
    /\ live = {} /\ threads = {} /\ joining = {} /\ open = {}
    /\ peer = [c \in Conns |-> "away"] /\ handler = [c \in Conns |-> Unused]
    /\ fenced = {}
    /\ table = {} /\ init = FALSE
    /\ starts = 0 /\ errors = 0

-----------------------------------------------------------------------------
(* start and stop. *)

start ==
    /\ main = "down" /\ starts < MaxStarts
    /\ main' = "up" /\ starts' = starts + 1
    /\ listening' = TRUE /\ running' = TRUE
    /\ acceptor' = "test"
    /\ UNCHANGED <<current, sharedVars, joining, peer, handler, fenced, crcVars, errors>>

\* stop(), called once the coordinator runs; the destructor calls it again.
StopBegin ==
    /\ main \in {"up", "down"}
    /\ main' = IF running THEN "closeListener" ELSE "closeLive"
    /\ running' = FALSE
    /\ UNCHANGED <<acceptor, current, listening, sharedVars, joining, peer, handler, fenced, crcVars, boundVars>>

\* Connections that nobody has accepted yet are reset.
StopListener ==
    /\ main = "closeListener" /\ main' = "joinAcceptor"
    /\ listening' = FALSE
    /\ peer' = [c \in Conns |-> IF peer[c] = "waiting" THEN "gone" ELSE peer[c]]
    /\ UNCHANGED <<acceptor, current, running, sharedVars, joining, handler, fenced, crcVars, boundVars>>

\* Defect: stop does not wait for the accept thread.
StopJoinAcceptor_NoWait ==
    /\ main = "joinAcceptor"
    /\ main' = "closeLive"
    /\ UNCHANGED <<acceptVars, sharedVars, joining, peer, handler, fenced, crcVars, boundVars>>

StopJoinAcceptor ==
    /\ main = "joinAcceptor" /\ acceptor = "ended"
    /\ main' = "closeLive"
    /\ UNCHANGED <<acceptVars, sharedVars, joining, peer, handler, fenced, crcVars, boundVars>>

\* Defect: the live sockets are left open.
StopCloseLive_LeavesOpen ==
    /\ main = "closeLive" /\ main' = "swap"
    /\ UNCHANGED <<acceptVars, sharedVars, joining, peer, handler, fenced, crcVars, boundVars>>

StopCloseLive ==
    /\ main = "closeLive" /\ main' = "swap"
    /\ open' = open \ live
    /\ UNCHANGED <<acceptVars, live, threads, joining, peer, handler, fenced, crcVars, boundVars>>

StopSwap ==
    /\ main = "swap" /\ main' = "join"
    /\ joining' = threads /\ threads' = {}
    /\ UNCHANGED <<acceptVars, live, open, peer, handler, fenced, crcVars, boundVars>>

StopJoin ==
    /\ main = "join"
    /\ IF joining = {} THEN main' = "down" /\ UNCHANGED joining
       ELSE \E c \in joining : handler[c].pc = "done" /\ joining' = joining \ {c} /\ UNCHANGED main
    /\ UNCHANGED <<acceptVars, sharedVars, peer, handler, fenced, crcVars, boundVars>>

-----------------------------------------------------------------------------
(* acceptLoop. *)

AcceptTest ==
    /\ acceptor = "test"
    /\ acceptor' = IF running THEN "accept" ELSE "ended"
    /\ UNCHANGED <<main, current, running, listening, sharedVars, joining, peer, handler, fenced, crcVars, boundVars>>

\* Defect: one connection too many.
Full_OneMore == Cardinality(live) > kMaxConnections

Full == Cardinality(live) >= kMaxConnections

\* Over the limit a connection is closed again.
\*
\* Defect: it waits until there is room.
AcceptOne_Waits(c) ==
    /\ acceptor = "accept" /\ listening /\ ~ Full
    /\ peer[c] = "waiting" /\ \A k \in 1 .. c - 1 : peer[k] # "waiting"
    /\ peer' = [peer EXCEPT ![c] = "quiet"] /\ acceptor' = "push"
    /\ current' = c /\ open' = open \cup {c}
    /\ UNCHANGED <<main, running, listening, live, threads, joining, handler, fenced, crcVars, boundVars>>

AcceptOne(c) ==
    /\ acceptor = "accept" /\ listening
    /\ peer[c] = "waiting" /\ \A k \in 1 .. c - 1 : peer[k] # "waiting"
    /\ IF Full
         THEN /\ peer' = [peer EXCEPT ![c] = "gone"] /\ acceptor' = "test"
              /\ UNCHANGED <<current, open>>
         ELSE /\ peer' = [peer EXCEPT ![c] = "quiet"] /\ acceptor' = "push"
              /\ current' = c /\ open' = open \cup {c}
    /\ UNCHANGED <<main, running, listening, live, threads, joining, handler, fenced, crcVars, boundVars>>

\* An accept that fails ends the loop, whatever the reason: the listening
\* socket is closed ...
AcceptEnds ==
    /\ acceptor = "accept" /\ ~ listening
    /\ acceptor' = "ended"
    /\ UNCHANGED <<main, current, running, listening, sharedVars, joining, peer, handler, fenced, crcVars, boundVars>>

\* ... or the process has no handles left, or the peer is gone already.
AcceptError ==
    /\ acceptor = "accept" /\ listening /\ errors < MaxAcceptErrors
    /\ acceptor' = "ended" /\ errors' = errors + 1
    /\ UNCHANGED <<main, current, running, listening, sharedVars, joining, peer, handler, fenced, crcVars, starts>>

PushLive ==
    /\ acceptor = "push" /\ acceptor' = "spawn"
    /\ live' = live \cup {current}
    /\ UNCHANGED <<main, current, running, listening, threads, open, joining, peer, handler, fenced, crcVars, boundVars>>

Spawn ==
    /\ acceptor = "spawn" /\ acceptor' = "test"
    /\ threads' = threads \cup {current}
    /\ handler' = [handler EXCEPT ![current] = At("recv")]
    /\ current' = NoConn
    /\ UNCHANGED <<main, running, listening, live, open, joining, peer, fenced, crcVars, boundVars>>

Acceptor == AcceptTest \/ (\E c \in Conns : AcceptOne(c)) \/ AcceptEnds \/ PushLive \/ Spawn

-----------------------------------------------------------------------------
(* handleConnection. *)

Goes(c, from, to) == handler[c].pc = from /\ handler' = [handler EXCEPT ![c] = At(to)]

Broken(c) == c \notin open \/ peer[c] = "gone"

\* recvSome returns data, and feed calls crc32, where a thread that finds the
\* flag unset fills the whole table; or there is nothing more.
HandlerRecv(c) ==
    /\ \/ /\ handler[c].pc = "recv" /\ c \in open /\ peer[c] = "talking"
          /\ handler' = [handler EXCEPT ![c] = IF init THEN At("compute") ELSE [pc |-> "fill", i |-> 1]]
          /\ peer' = [peer EXCEPT ![c] = "quiet"]
       \/ Broken(c) /\ Goes(c, "recv", "leave") /\ UNCHANGED peer
    /\ UNCHANGED <<main, acceptVars, sharedVars, joining, fenced, crcVars, boundVars>>

\* Defect: the flag is set before the entries.
Crc32Fill_FlagFirst(c) ==
    /\ handler[c].pc = "fill"
    /\ init' = TRUE
    /\ table' = table \cup (1 .. handler[c].i - 1)
    /\ handler' = [handler EXCEPT ![c] = IF handler[c].i > TableSize THEN At("compute")
                                         ELSE [pc |-> "fill", i |-> handler[c].i + 1]]
    /\ UNCHANGED <<main, acceptVars, sharedVars, joining, peer, fenced, boundVars>>

Crc32Fill(c) ==
    /\ handler[c].pc = "fill"
    /\ IF handler[c].i > TableSize
         THEN handler' = [handler EXCEPT ![c] = At("compute")] /\ init' = TRUE /\ UNCHANGED table
         ELSE /\ handler' = [handler EXCEPT ![c] = [pc |-> "fill", i |-> handler[c].i + 1]]
              /\ table' = table \cup {handler[c].i} /\ UNCHANGED init
    /\ UNCHANGED <<main, acceptVars, sharedVars, joining, peer, fenced, boundVars>>

\* A bad frame ends the loop; a good one may be answered.
HandlerFed(c) ==
    /\ \E to \in {"recv", "send", "leave"} : Goes(c, "compute", to)
    /\ UNCHANGED <<main, acceptVars, sharedVars, joining, peer, fenced, crcVars, boundVars>>

\* sendAll returns when the peer has read, or the connection is gone.
HandlerSent(c) ==
    /\ Broken(c) \/ peer[c] = "talking"
    /\ Goes(c, "send", "recv")
    /\ UNCHANGED <<main, acceptVars, sharedVars, joining, peer, fenced, crcVars, boundVars>>

Fence(c) ==
    /\ Goes(c, "leave", "erase")
    /\ fenced' = fenced \cup {c}
    /\ UNCHANGED <<main, acceptVars, sharedVars, joining, peer, crcVars, boundVars>>

\* Defect: the socket stays in the list.
EraseLive_Keeps(c) ==
    /\ Goes(c, "erase", "close")
    /\ UNCHANGED <<main, acceptVars, sharedVars, joining, peer, fenced, crcVars, boundVars>>

EraseLive(c) ==
    /\ Goes(c, "erase", "close")
    /\ live' = live \ {c}
    /\ UNCHANGED <<main, acceptVars, threads, open, joining, peer, fenced, crcVars, boundVars>>

HandlerClose(c) ==
    /\ Goes(c, "close", "done")
    /\ open' = open \ {c}
    /\ UNCHANGED <<main, acceptVars, live, threads, joining, peer, fenced, crcVars, boundVars>>

Handler(c) ==
    \/ HandlerRecv(c) \/ Crc32Fill(c) \/ HandlerFed(c) \/ HandlerSent(c)
    \/ Fence(c) \/ EraseLive(c) \/ HandlerClose(c)

-----------------------------------------------------------------------------
(* The peers: they connect, talk, fall silent and go as they like; one that  *)
(* is silent does not read either.                                           *)

Connect(c) ==
    /\ listening /\ peer[c] = "away" /\ \A k \in 1 .. c - 1 : peer[k] # "away"
    /\ peer' = [peer EXCEPT ![c] = "waiting"]
    /\ UNCHANGED <<main, acceptVars, sharedVars, joining, handler, fenced, crcVars, boundVars>>

PeerMoves(c) ==
    /\ c \in open /\ peer[c] \in {"quiet", "talking"}
    /\ \E p \in {"talking", "gone"} \ {peer[c]} : peer' = [peer EXCEPT ![c] = p]
    /\ UNCHANGED <<main, acceptVars, sharedVars, joining, handler, fenced, crcVars, boundVars>>

StopStep == StopListener \/ StopJoinAcceptor \/ StopCloseLive \/ StopSwap \/ StopJoin

ThreadsNext ==
    \/ start \/ StopBegin \/ StopStep \/ Acceptor \/ AcceptError
    \/ \E c \in Conns : Handler(c) \/ Connect(c) \/ PeerMoves(c)

\* The threads are scheduled; nobody has to call stop, no peer has to move
\* and no accept has to fail.
ThreadsSpec ==
    /\ ThreadsInit /\ [][ThreadsNext]_threadVars
    /\ WF_threadVars(StopStep) /\ WF_threadVars(Acceptor)
    /\ \A c \in Conns : WF_threadVars(Handler(c))

-----------------------------------------------------------------------------

HandlerPlaces == {"unused", "recv", "fill", "compute", "send", "leave", "erase", "close", "done"}

\* Type correctness; the limit on connections holds although it is checked in
\* one critical section and the socket is added in another.
ThreadsTypeOK ==
    /\ main \in {"down", "up", "closeListener", "joinAcceptor", "closeLive", "swap", "join"}
    /\ acceptor \in {"none", "test", "accept", "push", "spawn", "ended"}
    /\ current \in Conns \cup {NoConn}
    /\ live \subseteq Conns /\ threads \subseteq Conns /\ joining \subseteq Conns
    /\ open \subseteq Conns /\ fenced \subseteq Conns
    /\ peer \in [Conns -> {"away", "waiting", "quiet", "talking", "gone"}]
    /\ handler \in [Conns -> [pc : HandlerPlaces, i : 0 .. TableSize + 1]]
    /\ table \subseteq 1 .. TableSize
    /\ Cardinality(live) <= kMaxConnections

\* When stop has returned nothing is left running: no handler, no accept
\* thread, no open socket, no thread object, and every worker has been fenced.
StopComplete ==
    main = "down" =>
        /\ ~ running /\ ~ listening /\ acceptor \in {"none", "ended"}
        /\ live = {} /\ threads = {} /\ open = {}
        /\ \A c \in Conns : handler[c].pc \in {"unused", "done"}
        /\ {c \in Conns : handler[c].pc = "done"} \subseteq fenced

\* stop closes only sockets whose handler has not come to close them itself: no
\* handle is closed twice.
ClosedOnce == \A c \in live : handler[c].pc \notin {"close", "done"}

\* crc32 computes with a whole table, however many threads call it first.
CrcTableWhole == \A c \in Conns : handler[c].pc = "compute" => table = 1 .. TableSize

\* stop returns, whatever the peers do or fail to do.
StopReturns == (main \notin {"up", "down"}) ~> (main \in {"up", "down"})

\* A peer that connects is accepted or turned away, unless an accept failed.
ConnectServed ==
    \A c \in Conns : (peer[c] = "waiting") ~> (peer[c] # "waiting" \/ errors > 0)
=============================================================================
