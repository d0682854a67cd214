--------------------------- MODULE WorkerSession ----------------------------
(***************************************************************************)
(* One connection between a worker (worker.cpp) and the handler thread the *)
(* coordinator runs for it (handleConnection), over two frame streams: the *)
(* requests and the answers.  The worker calls connect, then publishes and *)
(* asks for routes, one call at a time; only queryRoute waits for an       *)
(* answer, and nothing here has a timeout.  What the requests do to the    *)
(* registry is in Coordinator, whose connections this module justifies.    *)
(***************************************************************************)
EXTENDS FrameCodec, SequencesExt

CONSTANTS MaxCalls,      \* bound on the calls after connect
          MaxFaults      \* bound on the units corrupted

VARIABLES reqTx, reqRx, reqSent, reqGot,     \* worker to coordinator
          ansTx, ansRx, ansSent, ansGot,     \* coordinator to worker
          worker,        \* what the worker is doing, its calls, its last query
          registered,    \* the handler's local of that name
          faults

reqVars == <<reqTx, reqRx, reqSent, reqGot>>
ansVars == <<ansTx, ansRx, ansSent, ansGot>>
sessionVars == <<reqVars, ansVars, worker, registered, faults>>

Req == INSTANCE FrameStream WITH tx <- reqTx, rx <- reqRx, sent <- reqSent, delivered <- reqGot
Ans == INSTANCE FrameStream WITH tx <- ansTx, rx <- ansRx, sent <- ansSent, delivered <- ansGot

HELLO == 1
REGISTER == 2
PUBLISH_TOPOLOGY == 3
QUERY_ROUTE == 5
ROUTE_RESULT == 6

Message(type, payload) == [type |-> type, payload |-> payload]

\* What the two sides send.  The payload of a call, and of the answer to it, is
\* the number of the call.
Messages ==
    {Message(type, <<>>) : type \in {HELLO, REGISTER}}
    \cup {Message(type, << <<n>> >>) :
             type \in {PUBLISH_TOPOLOGY, QUERY_ROUTE, ROUTE_RESULT}, n \in 1 .. MaxCalls}

ASSUME SessionAssumption ==
    MaxCalls \in Nat /\ MaxFaults \in Nat /\ Messages \subseteq Frame

SessionInit ==
    /\ Req!StreamInit /\ Ans!StreamInit
    /\ worker = [pc |-> "new", calls |-> 0]
    /\ registered = FALSE
    /\ faults = 0

-----------------------------------------------------------------------------
(* The worker. *)

\* Worker::connect sends two frames.
Connect ==
    /\ \/ /\ worker.pc = "new" /\ Req!BeginSend(Message(HELLO, <<>>))
          /\ worker' = [worker EXCEPT !.pc = "hello"]
       \/ /\ worker.pc = "hello" /\ Req!BeginSend(Message(REGISTER, <<>>))
          /\ worker' = [worker EXCEPT !.pc = "idle"]
    /\ UNCHANGED <<ansVars, registered, faults>>

Call(type, pc) ==
    /\ worker.pc = "idle" /\ worker.calls < MaxCalls
    /\ Req!BeginSend(Message(type, << <<worker.calls + 1>> >>))
    /\ worker' = [pc |-> pc, calls |-> worker.calls + 1]
    /\ UNCHANGED <<ansVars, registered, faults>>

publishTopology == Call(PUBLISH_TOPOLOGY, "idle")

queryRoute == Call(QUERY_ROUTE, "asking")

WorkerSend == Req!SendSome /\ UNCHANGED <<ansVars, worker, registered, faults>>

\* sendAll fails once the coordinator has closed the connection; so does the
\* call it is in.
WorkerSendFails ==
    /\ ~ ansTx.open /\ Req!SendFails
    /\ worker' = [worker EXCEPT !.pc = "idle"]
    /\ UNCHANGED <<ansVars, registered, faults>>

\* Worker::recvFrame.
recvFrame ==
    /\ worker.pc = "asking" /\ reqTx.todo = <<>>
    /\ Ans!Recv \/ Ans!RecvEnd \/ Ans!Parse
    /\ UNCHANGED <<reqVars, worker, registered, faults>>

Answered ==
    /\ worker.pc = "asking" /\ Ans!TakeFront
    /\ worker' = [worker EXCEPT !.pc = "idle"]
    /\ UNCHANGED <<reqVars, registered, faults>>

\* The query returns the error; the next one reads on.
\*
\* Defect: with the error forgotten.
QueryError_Forgotten ==
    /\ worker.pc = "asking" /\ ansRx.phase \in {"false", "end"}
    /\ worker' = [worker EXCEPT !.pc = "idle"]
    /\ ansRx' = [ansRx EXCEPT !.phase = "run", !.err = FALSE]
    /\ UNCHANGED <<reqVars, ansTx, ansSent, ansGot, registered, faults>>

QueryError ==
    /\ worker.pc = "asking" /\ ansRx.phase \in {"false", "end"}
    /\ worker' = [worker EXCEPT !.pc = "idle"]
    /\ ansRx' = [ansRx EXCEPT !.phase = "run"]
    /\ UNCHANGED <<reqVars, ansTx, ansSent, ansGot, registered, faults>>

\* Worker::close, or its death.
WorkerClose ==
    /\ worker.pc # "closed" /\ worker' = [worker EXCEPT !.pc = "closed"]
    /\ Req!CloseTx \/ (~ reqTx.open /\ UNCHANGED reqVars)
    /\ UNCHANGED <<ansVars, registered, faults>>

-----------------------------------------------------------------------------
(* The handler.  It reads nothing while it is in sendAll. *)

HandlerRecv ==
    /\ ansTx.todo = <<>>
    /\ Req!Recv \/ Req!RecvEnd \/ Req!Parse
    /\ UNCHANGED <<ansVars, worker, registered, faults>>

\* The frames that are answered: the queries of a peer that has registered, the
\* policies sent being ones decodePolicy takes (RouteCodec).
\*
\* Defect: publications are, too.
Answerable_Publications(f) == f.type \in {PUBLISH_TOPOLOGY, QUERY_ROUTE} /\ registered

\* Defect: only the first query is.
Answerable_FirstOnly(f) == f.type = QUERY_ROUTE /\ registered /\ ansSent = <<>>

Answerable(f) == f.type = QUERY_ROUTE /\ registered

\* REGISTER is refused or not (Coordinator!Admitted).
HandlerTake ==
    /\ ansTx.todo = <<>>
    /\ Req!Take
    /\ LET f == Head(reqRx.frames)
       IN  /\ registered' \in IF f.type = REGISTER THEN {TRUE, registered} ELSE {registered}
           /\ IF Answerable(f) THEN Ans!BeginSend(Message(ROUTE_RESULT, f.payload))
                              ELSE UNCHANGED ansVars
    /\ UNCHANGED <<worker, faults>>

HandlerSend == Ans!SendSome /\ UNCHANGED <<reqVars, worker, registered, faults>>

HandlerSendFails ==
    /\ worker.pc = "closed" /\ Ans!SendFails
    /\ UNCHANGED <<reqVars, worker, registered, faults>>

\* The end of the stream or a false feed: the handler fences and closes.
HandlerLeave ==
    /\ reqRx.phase \in {"false", "end"} /\ Ans!CloseTx
    /\ UNCHANGED <<reqVars, worker, registered, faults>>

Fault ==
    /\ faults < MaxFaults /\ faults' = faults + 1
    /\ \/ Req!Corrupt /\ UNCHANGED ansVars
       \/ Ans!Corrupt /\ UNCHANGED reqVars
    /\ UNCHANGED <<worker, registered>>

-----------------------------------------------------------------------------

Worker ==
    \/ WorkerSend \/ WorkerSendFails \/ recvFrame \/ Answered \/ QueryError

Handler ==
    HandlerRecv \/ HandlerTake \/ HandlerSend \/ HandlerSendFails \/ HandlerLeave

SessionNext ==
    \/ Connect \/ publishTopology \/ queryRoute \/ Worker \/ WorkerClose
    \/ Handler \/ Fault

\* Both threads are scheduled, and the network moves what it is given.
SessionSpec ==
    /\ SessionInit /\ [][SessionNext]_sessionVars
    /\ WF_sessionVars(Worker) /\ WF_sessionVars(Handler)

-----------------------------------------------------------------------------

\* Type correctness; recvFrame, which drops all but the first frame it gets,
\* has nothing to drop: there is at most one answer under way.
SessionTypeOK ==
    /\ worker.pc \in {"new", "hello", "idle", "asking", "closed"} /\ worker.calls \in 0 .. MaxCalls
    /\ registered \in BOOLEAN /\ faults \in 0 .. MaxFaults
    /\ \A r \in {reqRx, ansRx} : r.phase \in {"run", "parse", "false", "end"} /\ r.err \in BOOLEAN
    /\ Len(ansRx.frames) <= 1

\* The handler acts on the worker's requests as they were sent, in their order,
\* or not at all, however recvSome cut the stream and whatever the wire did to
\* it; so do the coordinator's answers reach queryRoute, through a recvFrame
\* that keeps only the first frame of a feed and a feed that may fail in
\* between: both directions over FrameStream::feed implement FrameChannel.
StreamsInOrder == Req!InOrder /\ Ans!InOrder

\* queryRoute returns the answer to the query it sent, never that to an
\* earlier one, whatever became of the calls before it.
AnswersMatch ==
    [][ansGot' # ansGot => Last(ansGot').payload = << <<worker.calls>> >>]_sessionVars

\* Without faults every request the worker got to send is acted on, however
\* the stream was cut, unless the worker is gone.
RequestsArrive ==
    (reqGot # reqSent) ~> (reqGot = reqSent \/ worker.pc = "closed" \/ faults > 0)

\* A registered worker's query returns, with an answer or an error: neither
\* side waits for the other, unless the wire changed what was sent.
QueryReturns ==
    (worker.pc = "asking") ~> (worker.pc # "asking" \/ faults > 0
                                 \/ (~ registered /\ Len(reqGot) > 1))
=============================================================================
