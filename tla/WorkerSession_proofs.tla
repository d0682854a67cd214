------------------------ MODULE WorkerSession_proofs ------------------------
(***************************************************************************)
(* Proof that, for every set of messages, number of calls and sequence of  *)
(* faults, the two directions of a worker's connection implement           *)
(* FrameChannel, that a query gets the answer to it and no other, and that *)
(* recvFrame never drops a frame.                                          *)
(*                                                                         *)
(* The streams are proved in FrameStream_proofs.  What is left is that at  *)
(* most one query is under way, though a query may fail and the next one   *)
(* read on: a failed query means that no answer comes any more.            *)
(***************************************************************************)
EXTENDS WorkerSession, SequenceTheorems, TLAPS

\* The theorems about a stream, for each of the two.
ReqP == INSTANCE FrameStream_proofs
            WITH tx <- reqTx, rx <- reqRx, sent <- reqSent, delivered <- reqGot
AnsP == INSTANCE FrameStream_proofs
            WITH tx <- ansTx, rx <- ansRx, sent <- ansSent, delivered <- ansGot

-----------------------------------------------------------------------------
(* The invariant. *)

\* The worker will get no more answers: its feed has failed, or there is nothing
\* left to read and nobody to send.
Ended ==
    /\ ~ ansTx.open /\ ansTx.wire = <<>>
    /\ ansRx.frames = <<>> /\ ansRx.phase # "parse"

Done == ansRx.err \/ Ended

\* The queries the handler has not come to.
Pending == {i \in Len(reqGot) + 1 .. Len(reqSent) : reqSent[i].type = QUERY_ROUTE}

\* A query has at most one place: it is pending, or its answer is under way.  The
\* worker that has returned from its calls has neither.
OneUnderWay ==
    /\ \A i, j \in Pending : i = j
    /\ Pending # {} => Len(ansSent) = Len(ansGot)
    /\ Len(ansSent) <= Len(ansGot) + 1
    /\ worker.pc \in {"new", "hello", "idle"} /\ reqTx.open
          => Pending = {} /\ Len(ansSent) = Len(ansGot)

\* It is the query of the worker's last call.
IsLastCall ==
    /\ \A i \in Pending : reqSent[i].payload = << <<worker.calls>> >>
    /\ Len(ansSent) = Len(ansGot) + 1
          => ansSent[Len(ansSent)].payload = << <<worker.calls>> >>

\* The payload of a query is the number of a call.
QueriesNumbered ==
    \A i \in 1 .. Len(reqSent) : reqSent[i].type = QUERY_ROUTE =>
        \E n \in 1 .. MaxCalls : reqSent[i].payload = << <<n>> >>

\* What the phases of the worker's receiver and a closed socket mean.
EndInv ==
    /\ ansRx.phase = "false" => ansRx.err
    /\ ansRx.phase = "end" => Ended
    /\ ~ ansTx.open => ansTx.todo = <<>>

\* The types of what belongs to no stream.
LocalTypeOK ==
    /\ worker \in [pc : {"new", "hello", "idle", "asking", "closed"}, calls : 0 .. MaxCalls]
    /\ registered \in BOOLEAN /\ faults \in 0 .. MaxFaults

\* Once there will be no more answers, it does not matter what was asked.
CallInv == ~ Done => OneUnderWay /\ IsLastCall

\* What every step of the session is: in each direction a step of the channel, and
\* the answer it takes, if it takes one, that to the worker's last call.
Moves ==
    /\ [Req!Channel!ChannelNext]_Req!Channel!channelVars
    /\ [Ans!Channel!ChannelNext]_Ans!Channel!channelVars
    /\ ansGot' # ansGot => Last(ansGot').payload = << <<worker.calls>> >>

\* The inductive invariant.
SessionInv ==
    /\ LocalTypeOK /\ ReqP!StreamInv /\ AnsP!StreamInv
    /\ QueriesNumbered /\ EndInv /\ CallInv

-----------------------------------------------------------------------------
(* The streams. *)

\* A step of the request stream, whichever instance of FrameStream it is read in.
LEMMA ReqStep ==
    ASSUME ReqP!StreamInv, [Req!StreamNext]_Req!streamVars
    PROVE  ReqP!StreamInv' /\ [Req!Channel!ChannelNext]_Req!Channel!channelVars
  <1>1. ASSUME NEW f \in Frame, Req!BeginSend(f)  PROVE ReqP!BeginSend(f)
    BY <1>1 DEF Req!BeginSend, ReqP!BeginSend, Req!encodeFrame, ReqP!encodeFrame,
           Req!Header, ReqP!Header, Req!crc32, ReqP!crc32
  <1>2. Req!SendSome => ReqP!SendSome
    BY DEF Req!SendSome, ReqP!SendSome, Req!Taken, ReqP!Taken, Req!Rest, ReqP!Rest
  <1>3. Req!SendFails \/ Req!CloseTx \/ Req!Corrupt
            => ReqP!SendFails \/ ReqP!CloseTx \/ ReqP!Corrupt
    BY DEF Req!SendFails, ReqP!SendFails, Req!CloseTx, ReqP!CloseTx, Req!Corrupt,
           ReqP!Corrupt, Req!Taken, ReqP!Taken
  <1>4. Req!Recv \/ Req!RecvEnd => ReqP!Recv \/ ReqP!RecvEnd
    BY DEF Req!Recv, ReqP!Recv, Req!RecvEnd, ReqP!RecvEnd, Req!Idle, ReqP!Idle,
           Req!Taken, ReqP!Taken, Req!Rest, ReqP!Rest
  <1>5. Req!ParseFrame => ReqP!ParseFrame
    BY Zenon DEF Req!ParseFrame, ReqP!ParseFrame, Req!Intact, ReqP!Intact, Req!Incomplete,
           ReqP!Incomplete, Req!HeaderAccepted, ReqP!HeaderAccepted, Req!validMsgType,
           ReqP!validMsgType, Req!crc32, ReqP!crc32, Req!Taken, ReqP!Taken, Req!Rest,
           ReqP!Rest, Req!Total, ReqP!Total, Req!Payload, ReqP!Payload, Req!kHeader,
           ReqP!kHeader
  <1>6. Req!ParseWait => ReqP!ParseWait
    BY Zenon DEF Req!ParseWait, ReqP!ParseWait, Req!Incomplete, ReqP!Incomplete,
           Req!HeaderAccepted, ReqP!HeaderAccepted, Req!validMsgType,
           ReqP!validMsgType, Req!Total, ReqP!Total, Req!kHeader, ReqP!kHeader
  <1>7. Req!ParseError => ReqP!ParseError
    BY Zenon DEF Req!ParseError, ReqP!ParseError, Req!Intact, ReqP!Intact, Req!Incomplete,
           ReqP!Incomplete, Req!HeaderAccepted, ReqP!HeaderAccepted, Req!validMsgType,
           ReqP!validMsgType, Req!crc32, ReqP!crc32, Req!Taken, ReqP!Taken, Req!Total,
           ReqP!Total, Req!Payload, ReqP!Payload, Req!kHeader, ReqP!kHeader
  <1>8. Req!Take => ReqP!Take
    BY DEF Req!Take, ReqP!Take
  <1>9. [ReqP!StreamNext]_ReqP!streamVars
    <2>1. Req!StreamNext => ReqP!StreamNext
      BY <1>1, <1>2, <1>3, <1>4, <1>5, <1>6, <1>7, <1>8, Zenon
         DEF Req!StreamNext, ReqP!StreamNext, Req!Parse, ReqP!Parse
    <2>2. QED  BY <2>1 DEF Req!streamVars, ReqP!streamVars
  <1>10. ReqP!StreamInv' /\ [ReqP!Channel!ChannelNext]_ReqP!Channel!channelVars
    BY <1>9, ReqP!StreamStep, CodecAssumption, Zenon DEF ReqP!Plain, Plain
  <1>11. QED
    BY <1>10
       DEF Req!Channel!ChannelNext, ReqP!Channel!ChannelNext, Req!Channel!channelVars,
           ReqP!Channel!channelVars, Req!Channel!Send, ReqP!Channel!Send,
           Req!Channel!Deliver, ReqP!Channel!Deliver, Req!Channel!Break,
           ReqP!Channel!Break

\* A step of the answer stream, whichever instance of FrameStream it is read in.
LEMMA AnsStep ==
    ASSUME AnsP!StreamInv, [Ans!StreamNext]_Ans!streamVars
    PROVE  AnsP!StreamInv' /\ [Ans!Channel!ChannelNext]_Ans!Channel!channelVars
  <1>1. ASSUME NEW f \in Frame, Ans!BeginSend(f)  PROVE AnsP!BeginSend(f)
    BY <1>1 DEF Ans!BeginSend, AnsP!BeginSend, Ans!encodeFrame, AnsP!encodeFrame,
           Ans!Header, AnsP!Header, Ans!crc32, AnsP!crc32
  <1>2. Ans!SendSome => AnsP!SendSome
    BY DEF Ans!SendSome, AnsP!SendSome, Ans!Taken, AnsP!Taken, Ans!Rest, AnsP!Rest
  <1>3. Ans!SendFails \/ Ans!CloseTx \/ Ans!Corrupt
            => AnsP!SendFails \/ AnsP!CloseTx \/ AnsP!Corrupt
    BY DEF Ans!SendFails, AnsP!SendFails, Ans!CloseTx, AnsP!CloseTx, Ans!Corrupt,
           AnsP!Corrupt, Ans!Taken, AnsP!Taken
  <1>4. Ans!Recv \/ Ans!RecvEnd => AnsP!Recv \/ AnsP!RecvEnd
    BY DEF Ans!Recv, AnsP!Recv, Ans!RecvEnd, AnsP!RecvEnd, Ans!Idle, AnsP!Idle,
           Ans!Taken, AnsP!Taken, Ans!Rest, AnsP!Rest
  <1>5. Ans!ParseFrame => AnsP!ParseFrame
    BY Zenon DEF Ans!ParseFrame, AnsP!ParseFrame, Ans!Intact, AnsP!Intact, Ans!Incomplete,
           AnsP!Incomplete, Ans!HeaderAccepted, AnsP!HeaderAccepted, Ans!validMsgType,
           AnsP!validMsgType, Ans!crc32, AnsP!crc32, Ans!Taken, AnsP!Taken, Ans!Rest,
           AnsP!Rest, Ans!Total, AnsP!Total, Ans!Payload, AnsP!Payload, Ans!kHeader,
           AnsP!kHeader
  <1>6. Ans!ParseWait => AnsP!ParseWait
    BY Zenon DEF Ans!ParseWait, AnsP!ParseWait, Ans!Incomplete, AnsP!Incomplete,
           Ans!HeaderAccepted, AnsP!HeaderAccepted, Ans!validMsgType,
           AnsP!validMsgType, Ans!Total, AnsP!Total, Ans!kHeader, AnsP!kHeader
  <1>7. Ans!ParseError => AnsP!ParseError
    BY Zenon DEF Ans!ParseError, AnsP!ParseError, Ans!Intact, AnsP!Intact, Ans!Incomplete,
           AnsP!Incomplete, Ans!HeaderAccepted, AnsP!HeaderAccepted, Ans!validMsgType,
           AnsP!validMsgType, Ans!crc32, AnsP!crc32, Ans!Taken, AnsP!Taken, Ans!Total,
           AnsP!Total, Ans!Payload, AnsP!Payload, Ans!kHeader, AnsP!kHeader
  <1>8. Ans!Take => AnsP!Take
    BY DEF Ans!Take, AnsP!Take
  <1>9. [AnsP!StreamNext]_AnsP!streamVars
    <2>1. Ans!StreamNext => AnsP!StreamNext
      BY <1>1, <1>2, <1>3, <1>4, <1>5, <1>6, <1>7, <1>8, Zenon
         DEF Ans!StreamNext, AnsP!StreamNext, Ans!Parse, AnsP!Parse
    <2>2. QED  BY <2>1 DEF Ans!streamVars, AnsP!streamVars
  <1>10. AnsP!StreamInv' /\ [AnsP!Channel!ChannelNext]_AnsP!Channel!channelVars
    BY <1>9, AnsP!StreamStep, CodecAssumption, Zenon DEF AnsP!Plain, Plain
  <1>11. QED
    BY <1>10
       DEF Ans!Channel!ChannelNext, AnsP!Channel!ChannelNext, Ans!Channel!channelVars,
           AnsP!Channel!channelVars, Ans!Channel!Send, AnsP!Channel!Send,
           Ans!Channel!Deliver, AnsP!Channel!Deliver, Ans!Channel!Break,
           AnsP!Channel!Break

-----------------------------------------------------------------------------
(* The end of the answers. *)

\* What the invariants of the streams say about the types of the state.
LEMMA StreamTypes ==
    ASSUME SessionInv
    PROVE  /\ reqTx = [todo |-> reqTx.todo, wire |-> reqTx.wire, open |-> reqTx.open]
           /\ ansTx = [todo |-> ansTx.todo, wire |-> ansTx.wire, open |-> ansTx.open]
           /\ ansRx = [buf |-> ansRx.buf, err |-> ansRx.err, frames |-> ansRx.frames,
                       phase |-> ansRx.phase]
           /\ reqTx.open \in BOOLEAN /\ ansTx.open \in BOOLEAN
           /\ \A r \in {reqRx, ansRx} :
                 r.phase \in {"run", "parse", "false", "end"} /\ r.err \in BOOLEAN
           /\ reqSent \in Seq(Frame) /\ reqGot \in Seq(Frame) /\ reqRx.frames \in Seq(Frame)
           /\ ansSent \in Seq(Frame) /\ ansGot \in Seq(Frame) /\ ansRx.frames \in Seq(Frame)
  <1>1. ReqP!StreamTypeOK /\ AnsP!StreamTypeOK
    BY DEF SessionInv, ReqP!StreamInv, AnsP!StreamInv
  <1>2. QED  BY <1>1 DEF ReqP!StreamTypeOK, AnsP!StreamTypeOK

\* Steps of the answer stream that leave its history alone.
LEMMA AnsEnd ==
    ASSUME SessionInv,
           \/ Ans!Recv \/ Ans!RecvEnd \/ Ans!Parse
           \/ Ans!SendSome \/ Ans!SendFails \/ Ans!CloseTx \/ Ans!Corrupt
    PROVE  /\ EndInv' /\ (Done => Done') /\ UNCHANGED <<ansSent, ansGot>>
           /\ [Ans!StreamNext]_Ans!streamVars
  <1> USE DEF EndInv, Done, Ended
  <1>1. EndInv  BY DEF SessionInv
  <1>2. /\ ansTx = [todo |-> ansTx.todo, wire |-> ansTx.wire, open |-> ansTx.open]
        /\ ansRx = [buf |-> ansRx.buf, err |-> ansRx.err, frames |-> ansRx.frames,
                    phase |-> ansRx.phase]
        /\ ansTx.open \in BOOLEAN /\ ansRx.err \in BOOLEAN
    BY StreamTypes
  <1>3. ansRx.err => ansRx.frames = <<>> /\ ansRx.phase # "parse"
    BY DEF SessionInv, AnsP!StreamInv, AnsP!OrderInv
  <1>4. CASE Ans!Recv
    <2>1. PICK n \in 1 .. Len(ansTx.wire) :
              /\ ansTx' = [ansTx EXCEPT !.wire = Ans!Rest(ansTx.wire, n)]
              /\ ansRx' = IF ansRx.err THEN [ansRx EXCEPT !.phase = "false"]
                          ELSE [ansRx EXCEPT !.buf = ansRx.buf \o Ans!Taken(ansTx.wire, n),
                                             !.phase = "parse"]
      BY <1>4 DEF Ans!Recv
    <2>2. UNCHANGED <<ansSent, ansGot>>  BY <1>4 DEF Ans!Recv
    <2>3. ansTx.wire # <<>>  BY <2>1
    <2>4. ansTx'.todo = ansTx.todo /\ ansTx'.open = ansTx.open  BY <1>2, <2>1
    <2>5. ansRx'.err = ansRx.err /\ (ansRx'.phase = "parse" \/ (ansRx.err /\ ansRx'.phase = "false"))
      BY <1>2, <2>1
    <2>6. QED  BY <1>1, <1>4, <2>2, <2>3, <2>4, <2>5 DEF Ans!StreamNext
  <1>5. CASE Ans!RecvEnd
    BY <1>1, <1>2, <1>5 DEF Ans!RecvEnd, Ans!Idle, Ans!StreamNext
  <1>6. CASE Ans!Parse
    <2>1. UNCHANGED <<ansTx, ansSent, ansGot>> /\ ansRx.phase = "parse"
      BY <1>6 DEF Ans!Parse, Ans!ParseFrame, Ans!ParseWait, Ans!ParseError
    <2>2. ansRx'.phase \in {"parse", "run"} \/ (ansRx'.err /\ ansRx'.phase = "false")
      <3>1. CASE Ans!ParseFrame  BY <1>2, <2>1, <3>1 DEF Ans!ParseFrame
      <3>2. CASE Ans!ParseWait  BY <1>2, <3>2 DEF Ans!ParseWait
      <3>3. CASE Ans!ParseError  BY <1>2, <3>3 DEF Ans!ParseError
      <3>4. QED  BY <1>6, <3>1, <3>2, <3>3 DEF Ans!Parse
    <2>3. QED  BY <1>1, <1>3, <1>6, <2>1, <2>2 DEF Ans!StreamNext
  <1>7. CASE Ans!SendSome
    <2>1. PICK n \in 1 .. Len(ansTx.todo) :
              ansTx' = [ansTx EXCEPT !.wire = ansTx.wire \o Ans!Taken(ansTx.todo, n),
                                     !.todo = Ans!Rest(ansTx.todo, n)]
      BY <1>7 DEF Ans!SendSome
    <2>2. UNCHANGED <<ansRx, ansSent, ansGot>>  BY <1>7 DEF Ans!SendSome
    <2>3. ansTx.todo # <<>>  BY <2>1
    <2>4. ansTx'.open = ansTx.open  BY <1>2, <2>1
    <2>5. QED  BY <1>1, <1>7, <2>2, <2>3, <2>4 DEF Ans!StreamNext
  <1>8. CASE Ans!SendFails
    BY <1>1, <1>2, <1>8 DEF Ans!SendFails, Ans!StreamNext
  <1>9. CASE Ans!CloseTx
    <2>1. ansTx.open /\ ansTx'.todo = <<>> /\ UNCHANGED <<ansRx, ansSent, ansGot>>
      BY <1>9 DEF Ans!CloseTx
    <2>2. QED  BY <1>1, <1>9, <2>1 DEF Ans!StreamNext
  <1>10. CASE Ans!Corrupt
    <2>1. PICK i \in 1 .. Len(ansTx.wire), u \in Garbage : ansTx' = [ansTx EXCEPT !.wire[i] = u]
      BY <1>10 DEF Ans!Corrupt
    <2>2. ansTx.wire # <<>>  BY <2>1
    <2> DEFINE w == [ansTx.wire EXCEPT ![i] = u]
    <2>3. ansTx' = [ansTx EXCEPT !.wire = w]  BY <2>1
    <2> HIDE DEF w
    <2>4. ansTx'.open = ansTx.open /\ ansTx'.todo = ansTx.todo  BY <1>2, <2>3
    <2>5. UNCHANGED <<ansRx, ansSent, ansGot>>  BY <1>10 DEF Ans!Corrupt
    <2>6. QED  BY <1>1, <1>10, <2>2, <2>4, <2>5 DEF Ans!StreamNext
  <1>11. QED
    BY <1>4, <1>5, <1>6, <1>7, <1>8, <1>9, <1>10

\* Steps that touch nothing of the answer stream.
LEMMA AnsStands ==
    ASSUME SessionInv, UNCHANGED ansVars
    PROVE  /\ EndInv' /\ (Done => Done') /\ UNCHANGED <<ansSent, ansGot>>
           /\ [Ans!StreamNext]_Ans!streamVars
  <1>1. ansTx' = ansTx /\ ansRx' = ansRx /\ ansSent' = ansSent /\ ansGot' = ansGot
    BY DEF ansVars
  <1>2. QED  BY <1>1 DEF SessionInv, EndInv, Done, Ended, Ans!streamVars

\* The same of the request stream.
LEMMA ReqStands ==
    ASSUME UNCHANGED reqVars
    PROVE  /\ UNCHANGED <<reqSent, reqGot>> /\ (reqTx'.open => reqTx.open)
           /\ [Req!StreamNext]_Req!streamVars
  BY DEF reqVars, Req!streamVars

\* Steps of the request stream that leave its history alone.
LEMMA ReqQuiet ==
    ASSUME SessionInv,
           \/ Req!Recv \/ Req!RecvEnd \/ Req!Parse
           \/ Req!SendSome \/ Req!SendFails \/ Req!CloseTx \/ Req!Corrupt
    PROVE  /\ UNCHANGED <<reqSent, reqGot>> /\ (reqTx'.open => reqTx.open)
           /\ [Req!StreamNext]_Req!streamVars
  <1>1. reqTx = [todo |-> reqTx.todo, wire |-> reqTx.wire, open |-> reqTx.open]
    BY StreamTypes
  <1>2. UNCHANGED <<reqSent, reqGot>>
    BY DEF Req!Recv, Req!RecvEnd, Req!Parse, Req!ParseFrame, Req!ParseWait, Req!ParseError,
           Req!SendSome, Req!SendFails, Req!CloseTx, Req!Corrupt
  <1>3. reqTx'.open => reqTx.open
    <2>1. CASE Req!Recv
      <3>1. PICK w : reqTx' = [reqTx EXCEPT !.wire = w]  BY <2>1 DEF Req!Recv
      <3>2. QED  BY <1>1, <3>1
    <2>2. CASE Req!RecvEnd \/ Req!Parse
      BY <2>2 DEF Req!RecvEnd, Req!Parse, Req!ParseFrame, Req!ParseWait, Req!ParseError
    <2>3. CASE Req!SendSome
      <3>1. PICK w, t : reqTx' = [reqTx EXCEPT !.wire = w, !.todo = t]  BY <2>3 DEF Req!SendSome
      <3>2. QED  BY <1>1, <3>1
    <2>4. CASE Req!SendFails  BY <1>1, <2>4 DEF Req!SendFails
    <2>5. CASE Req!CloseTx  BY <2>5 DEF Req!CloseTx
    <2>6. CASE Req!Corrupt
      <3>1. PICK i, u : reqTx' = [reqTx EXCEPT !.wire[i] = u]  BY <2>6 DEF Req!Corrupt
      <3> DEFINE w == [reqTx.wire EXCEPT ![i] = u]
      <3>2. reqTx' = [reqTx EXCEPT !.wire = w]  BY <3>1
      <3> HIDE DEF w
      <3>3. QED  BY <1>1, <3>2
    <2>7. QED  BY <2>1, <2>2, <2>3, <2>4, <2>5, <2>6
  <1>4. QED  BY <1>2, <1>3, Zenon DEF Req!StreamNext

-----------------------------------------------------------------------------
(* The steps of the session. *)

\* A step that sends and takes no message, and returns to no worker that could
\* send one unless the answers have ended.
LEMMA QuietKeeps ==
    ASSUME SessionInv, LocalTypeOK', EndInv', Done => Done',
           UNCHANGED <<reqSent, reqGot, ansSent, ansGot>>,
           [Req!StreamNext]_Req!streamVars, AnsP!StreamInv',
           [Ans!Channel!ChannelNext]_Ans!Channel!channelVars,
           worker'.calls = worker.calls,
           \/ Done
           \/ worker'.pc \in {"new", "hello", "idle"} /\ reqTx'.open
                 => worker.pc \in {"new", "hello", "idle"} /\ reqTx.open
    PROVE  SessionInv' /\ Moves
  <1>1. /\ ReqP!StreamInv' /\ [Req!Channel!ChannelNext]_Req!Channel!channelVars
    BY ReqStep DEF SessionInv
  <1>2. QueriesNumbered'  BY DEF SessionInv, QueriesNumbered
  <1>3. CallInv'
    <2>1. SUFFICES ASSUME ~ Done'  PROVE OneUnderWay' /\ IsLastCall'
      BY DEF CallInv
    <2>2. ~ Done /\ OneUnderWay /\ IsLastCall  BY <2>1 DEF SessionInv, CallInv
    <2>3. Pending' = Pending  BY DEF Pending
    <2>4. QED  BY <2>2, <2>3 DEF OneUnderWay, IsLastCall
  <1>4. QED  BY <1>1, <1>2, <1>3 DEF SessionInv, Moves

\* What becomes of the answer stream in such a step.
LEMMA AnsMoves ==
    ASSUME SessionInv,
           \/ UNCHANGED ansVars
           \/ Ans!Recv \/ Ans!RecvEnd \/ Ans!Parse
           \/ Ans!SendSome \/ Ans!SendFails \/ Ans!CloseTx \/ Ans!Corrupt
    PROVE  /\ EndInv' /\ (Done => Done') /\ UNCHANGED <<ansSent, ansGot>>
           /\ AnsP!StreamInv' /\ [Ans!Channel!ChannelNext]_Ans!Channel!channelVars
  <1>1. /\ EndInv' /\ (Done => Done') /\ UNCHANGED <<ansSent, ansGot>>
        /\ [Ans!StreamNext]_Ans!streamVars
    BY AnsStands, AnsEnd
  <1>2. QED  BY <1>1, AnsStep DEF SessionInv

\* The worker in its system calls.
LEMMA WorkerKeeps ==
    ASSUME SessionInv, WorkerSend \/ WorkerSendFails \/ recvFrame \/ WorkerClose
    PROVE  SessionInv' /\ Moves
  <1>1. LocalTypeOK  BY DEF SessionInv
  <1>2. reqTx = [todo |-> reqTx.todo, wire |-> reqTx.wire, open |-> reqTx.open]
    BY StreamTypes
  <1>3. CASE WorkerSend
    <2>1. UNCHANGED <<ansVars, worker, registered, faults>> /\ Req!SendSome
      BY <1>3 DEF WorkerSend
    <2>2. LocalTypeOK'  BY <1>1, <2>1 DEF LocalTypeOK
    <2>3. QED  BY <2>1, <2>2, ReqQuiet, AnsMoves, QuietKeeps
  <1>4. CASE WorkerSendFails
    <2>1. /\ UNCHANGED <<ansVars, registered, faults>> /\ Req!SendFails
          /\ worker' = [worker EXCEPT !.pc = "idle"]
      BY <1>4 DEF WorkerSendFails
    <2>2. LocalTypeOK' /\ worker'.calls = worker.calls  BY <1>1, <2>1 DEF LocalTypeOK
    <2>3. ~ reqTx'.open  BY <1>2, <2>1 DEF Req!SendFails
    <2>4. QED  BY <2>1, <2>2, <2>3, ReqQuiet, AnsMoves, QuietKeeps
  <1>5. CASE recvFrame
    <2>1. /\ UNCHANGED <<reqVars, worker, registered, faults>>
          /\ Ans!Recv \/ Ans!RecvEnd \/ Ans!Parse
      BY <1>5 DEF recvFrame
    <2>2. LocalTypeOK'  BY <1>1, <2>1 DEF LocalTypeOK
    <2>3. QED  BY <2>1, <2>2, ReqStands, AnsMoves, QuietKeeps
  <1>6. CASE WorkerClose
    <2>1. /\ UNCHANGED <<ansVars, registered, faults>>
          /\ Req!CloseTx \/ UNCHANGED reqVars
          /\ worker' = [worker EXCEPT !.pc = "closed"]
      BY <1>6 DEF WorkerClose
    <2>2. LocalTypeOK' /\ worker'.calls = worker.calls /\ worker'.pc = "closed"
      BY <1>1, <2>1 DEF LocalTypeOK
    <2>3. QED  BY <2>1, <2>2, ReqQuiet, ReqStands, AnsMoves, QuietKeeps
  <1>7. QED  BY <1>3, <1>4, <1>5, <1>6

\* The handler in its system calls, and the wire.
LEMMA HandlerKeeps ==
    ASSUME SessionInv,
           HandlerRecv \/ HandlerSend \/ HandlerSendFails \/ HandlerLeave \/ Fault
    PROVE  SessionInv' /\ Moves
  <1>1. LocalTypeOK  BY DEF SessionInv
  <1>2. worker' = worker /\ LocalTypeOK'
    <2>1. CASE Fault
      BY <1>1, <2>1, SessionAssumption DEF Fault, LocalTypeOK
    <2>2. CASE HandlerRecv \/ HandlerSend \/ HandlerSendFails \/ HandlerLeave
      BY <1>1, <2>2
         DEF HandlerRecv, HandlerSend, HandlerSendFails, HandlerLeave, LocalTypeOK
    <2>3. QED  BY <2>1, <2>2
  <1>3. \/ UNCHANGED ansVars
        \/ Ans!Recv \/ Ans!RecvEnd \/ Ans!Parse
        \/ Ans!SendSome \/ Ans!SendFails \/ Ans!CloseTx \/ Ans!Corrupt
    BY DEF HandlerRecv, HandlerSend, HandlerSendFails, HandlerLeave, Fault
  <1>4. \/ UNCHANGED reqVars
        \/ Req!Recv \/ Req!RecvEnd \/ Req!Parse
        \/ Req!SendSome \/ Req!SendFails \/ Req!CloseTx \/ Req!Corrupt
    BY DEF HandlerRecv, HandlerSend, HandlerSendFails, HandlerLeave, Fault
  <1>5. /\ UNCHANGED <<reqSent, reqGot>> /\ (reqTx'.open => reqTx.open)
        /\ [Req!StreamNext]_Req!streamVars
    BY <1>4, ReqQuiet, ReqStands
  <1>6. QED  BY <1>2, <1>3, <1>5, AnsMoves, QuietKeeps

\* A query that has failed: there will be no more answers.
LEMMA QueryErrorKeeps ==
    ASSUME SessionInv, QueryError
    PROVE  SessionInv' /\ Moves
  <1>1. /\ ansRx.phase \in {"false", "end"} /\ ansRx' = [ansRx EXCEPT !.phase = "run"]
        /\ worker' = [worker EXCEPT !.pc = "idle"]
        /\ UNCHANGED <<reqVars, ansTx, ansSent, ansGot, registered, faults>>
    BY DEF QueryError
  <1>2. EndInv /\ AnsP!StreamInv /\ LocalTypeOK  BY DEF SessionInv
  <1>3. ansRx = [buf |-> ansRx.buf, err |-> ansRx.err, frames |-> ansRx.frames, phase |-> ansRx.phase]
    BY StreamTypes
  <1>4. ansRx'.err = ansRx.err /\ ansRx'.frames = ansRx.frames /\ ansRx'.phase = "run"
    BY <1>1, <1>3
  <1>5. Done /\ Done'  BY <1>1, <1>2, <1>4 DEF EndInv, Done, Ended
  <1>6. EndInv'  BY <1>1, <1>2, <1>4 DEF EndInv
  <1>7. LocalTypeOK' /\ worker'.calls = worker.calls
    BY <1>1, <1>2 DEF LocalTypeOK
  <1>8. AnsP!StreamInv'
    <2>1. "run" \in {"run", "end"} /\ UNCHANGED <<ansTx, ansSent, ansGot>>  BY <1>1
    <2>2. QED  BY <1>1, <1>2, <2>1, AnsP!PhaseKeeps, CodecAssumption, Zenon DEF AnsP!Plain, Plain
  <1>9. [Ans!Channel!ChannelNext]_Ans!Channel!channelVars
    BY <1>1, <1>4 DEF Ans!Channel!channelVars
  <1>10. QED  BY <1>1, <1>5, <1>6, <1>7, <1>8, <1>9, ReqStands, QuietKeeps

\* The worker sends a request: what becomes of the request stream.
LEMMA RequestSent ==
    ASSUME SessionInv, NEW f \in Frame, Req!BeginSend(f)
    PROVE  /\ ReqP!StreamInv' /\ [Req!Channel!ChannelNext]_Req!Channel!channelVars
           /\ reqTx.open /\ reqGot' = reqGot /\ Len(reqSent) \in Nat /\ Len(reqGot) \in Nat
           /\ Len(reqGot) <= Len(reqSent)
           /\ Len(reqSent') = Len(reqSent) + 1 /\ reqSent'[Len(reqSent) + 1] = f
           /\ \A i \in 1 .. Len(reqSent) : reqSent'[i] = reqSent[i]
  <1>1. Req!StreamNext  BY DEF Req!StreamNext
  <1>2. ReqP!StreamInv' /\ [Req!Channel!ChannelNext]_Req!Channel!channelVars
    BY <1>1, ReqStep DEF SessionInv
  <1>3. reqTx.open /\ reqGot' = reqGot /\ reqSent' = Append(reqSent, f)
    BY DEF Req!BeginSend
  <1>4. reqSent \in Seq(Frame) /\ reqGot \in Seq(Frame)  BY StreamTypes
  <1>5. Len(reqGot) <= Len(reqSent)
    BY DEF SessionInv, ReqP!StreamInv, ReqP!OrderInv
  <1>6. QED  BY <1>2, <1>3, <1>4, <1>5

\* The messages are frames.
LEMMA MessagesAreFrames ==
    /\ Message(HELLO, <<>>) \in Frame /\ Message(REGISTER, <<>>) \in Frame
    /\ \A n \in 1 .. MaxCalls :
          /\ Message(PUBLISH_TOPOLOGY, << <<n>> >>) \in Frame
          /\ Message(QUERY_ROUTE, << <<n>> >>) \in Frame
          /\ Message(ROUTE_RESULT, << <<n>> >>) \in Frame
  <1>1. Message(HELLO, <<>>) \in Messages /\ Message(REGISTER, <<>>) \in Messages
    BY DEF Messages
  <1>2. ASSUME NEW n \in 1 .. MaxCalls
        PROVE  /\ Message(PUBLISH_TOPOLOGY, << <<n>> >>) \in Messages
               /\ Message(QUERY_ROUTE, << <<n>> >>) \in Messages
               /\ Message(ROUTE_RESULT, << <<n>> >>) \in Messages
    BY DEF Messages
  <1>3. QED  BY <1>1, <1>2, SessionAssumption, Zenon

\* A worker that can send a request, and has returned from its calls, has no query
\* under way.
LEMMA NoneUnderWay ==
    ASSUME SessionInv, worker.pc \in {"new", "hello", "idle"}, reqTx.open, ~ Done
    PROVE  /\ \A i \in Len(reqGot) + 1 .. Len(reqSent) : reqSent[i].type # QUERY_ROUTE
           /\ Len(ansSent) = Len(ansGot)
  BY DEF SessionInv, CallInv, OneUnderWay, Pending

\* The two frames of connect and those of publishTopology ask nothing.
LEMMA NoticeKeeps ==
    ASSUME SessionInv, NEW f \in Frame, f.type # QUERY_ROUTE, Req!BeginSend(f),
           worker.pc \in {"new", "hello", "idle"}, LocalTypeOK',
           UNCHANGED <<ansVars, registered, faults>>
    PROVE  SessionInv' /\ Moves
  <1>1. /\ ReqP!StreamInv' /\ [Req!Channel!ChannelNext]_Req!Channel!channelVars
        /\ reqTx.open /\ reqGot' = reqGot /\ Len(reqSent) \in Nat /\ Len(reqGot) \in Nat
        /\ Len(reqSent') = Len(reqSent) + 1 /\ reqSent'[Len(reqSent) + 1] = f
        /\ \A i \in 1 .. Len(reqSent) : reqSent'[i] = reqSent[i]
    BY RequestSent
  <1>2. /\ EndInv' /\ (Done => Done') /\ UNCHANGED <<ansSent, ansGot>>
        /\ AnsP!StreamInv' /\ [Ans!Channel!ChannelNext]_Ans!Channel!channelVars
    BY AnsMoves
  <1>3. QueriesNumbered'
    BY <1>1 DEF SessionInv, QueriesNumbered
  <1>4. CallInv'
    <2>1. SUFFICES ASSUME ~ Done'  PROVE OneUnderWay' /\ IsLastCall'
      BY DEF CallInv
    <2>2. /\ \A i \in Len(reqGot) + 1 .. Len(reqSent) : reqSent[i].type # QUERY_ROUTE
          /\ Len(ansSent) = Len(ansGot)
      BY <1>1, <1>2, <2>1, NoneUnderWay
    <2>3. Pending' = {}  BY <1>1, <2>2 DEF Pending
    <2>4. ansSent \in Seq(Frame) /\ ansGot \in Seq(Frame)  BY StreamTypes
    <2>5. Len(ansSent') = Len(ansGot') /\ Len(ansGot') \in Nat  BY <1>2, <2>2, <2>4
    <2>6. QED  BY <2>3, <2>5 DEF OneUnderWay, IsLastCall
  <1>5. QED  BY <1>1, <1>2, <1>3, <1>4 DEF SessionInv, Moves

\* queryRoute asks.
LEMMA QueryKeeps ==
    ASSUME SessionInv, queryRoute
    PROVE  SessionInv' /\ Moves
  <1> DEFINE n == worker.calls + 1
             f == Message(QUERY_ROUTE, << <<n>> >>)
  <1>1. /\ worker.pc = "idle" /\ worker.calls < MaxCalls /\ Req!BeginSend(f)
        /\ worker' = [pc |-> "asking", calls |-> n]
        /\ UNCHANGED <<ansVars, registered, faults>>
    BY DEF queryRoute, Call
  <1>2. LocalTypeOK /\ LocalTypeOK' /\ n \in 1 .. MaxCalls
    BY <1>1, SessionAssumption DEF SessionInv, LocalTypeOK
  <1>3. f \in Frame /\ f.type = QUERY_ROUTE /\ f.payload = << <<n>> >>
    BY <1>2, MessagesAreFrames DEF Message
  <1>4. worker'.pc = "asking" /\ worker'.calls = n  BY <1>1
  <1> HIDE DEF n, f
  <1>5. /\ ReqP!StreamInv' /\ [Req!Channel!ChannelNext]_Req!Channel!channelVars
        /\ reqTx.open /\ reqGot' = reqGot /\ Len(reqSent) \in Nat /\ Len(reqGot) \in Nat
        /\ Len(reqGot) <= Len(reqSent)
        /\ Len(reqSent') = Len(reqSent) + 1 /\ reqSent'[Len(reqSent) + 1] = f
        /\ \A i \in 1 .. Len(reqSent) : reqSent'[i] = reqSent[i]
    BY <1>1, <1>3, RequestSent
  <1>6. /\ EndInv' /\ (Done => Done') /\ UNCHANGED <<ansSent, ansGot>>
        /\ AnsP!StreamInv' /\ [Ans!Channel!ChannelNext]_Ans!Channel!channelVars
    BY <1>1, AnsMoves
  <1>7. QueriesNumbered'
    BY <1>2, <1>3, <1>5 DEF SessionInv, QueriesNumbered
  <1>8. CallInv'
    <2>1. SUFFICES ASSUME ~ Done'  PROVE OneUnderWay' /\ IsLastCall'
      BY DEF CallInv
    <2>2. /\ \A i \in Len(reqGot) + 1 .. Len(reqSent) : reqSent[i].type # QUERY_ROUTE
          /\ Len(ansSent) = Len(ansGot)
      BY <1>1, <1>5, <1>6, <2>1, NoneUnderWay
    <2>3. Pending' = {Len(reqSent) + 1}  BY <1>3, <1>5, <2>2, SMTT(40) DEF Pending
    <2>4. ansSent \in Seq(Frame) /\ ansGot \in Seq(Frame)  BY StreamTypes
    <2>5. Len(ansSent') = Len(ansGot') /\ Len(ansGot') \in Nat  BY <1>6, <2>2, <2>4
    <2>6. QED  BY <1>3, <1>4, <1>5, <2>3, <2>5 DEF OneUnderWay, IsLastCall
  <1>9. QED  BY <1>2, <1>5, <1>6, <1>7, <1>8 DEF SessionInv, Moves

\* The worker takes an answer: the only one there is, that to its last call.
LEMMA AnsweredKeeps ==
    ASSUME SessionInv, Answered
    PROVE  SessionInv' /\ Moves
  <1>1. /\ ansRx.phase = "run" /\ ansRx.frames # <<>> /\ ansTx' = ansTx /\ ansSent' = ansSent
        /\ ansGot' = Append(ansGot, Head(ansRx.frames))
        /\ ansRx' = [ansRx EXCEPT !.frames = <<>>]
        /\ worker' = [worker EXCEPT !.pc = "idle"]
        /\ UNCHANGED <<reqVars, registered, faults>>
    BY DEF Answered, Ans!TakeFront
  <1>2. /\ ansRx = [buf |-> ansRx.buf, err |-> ansRx.err, frames |-> ansRx.frames, phase |-> ansRx.phase]
        /\ ansSent \in Seq(Frame) /\ ansGot \in Seq(Frame) /\ ansRx.frames \in Seq(Frame)
    BY StreamTypes
  <1>3. EndInv /\ AnsP!StreamInv /\ LocalTypeOK  BY DEF SessionInv
  <1>4. ~ ansRx.err /\ ~ Done
    BY <1>1, <1>3 DEF AnsP!StreamInv, AnsP!OrderInv, Done, Ended
  <1>5. OneUnderWay /\ IsLastCall  BY <1>4 DEF SessionInv, CallInv
  <1>6. /\ Len(ansGot) + Len(ansRx.frames) <= Len(ansSent)
        /\ \A i \in 1 .. Len(ansRx.frames) : ansRx.frames[i] = ansSent[Len(ansGot) + i]
    BY <1>3, <1>4 DEF AnsP!StreamInv, AnsP!OrderInv, AnsP!Parsed
  <1> DEFINE u == ansRx.frames
  <1>7. /\ u \in Seq(Frame) /\ u # <<>> /\ Len(ansGot) + Len(u) <= Len(ansSent)
        /\ \A i \in 1 .. Len(u) : u[i] = ansSent[Len(ansGot) + i]
        /\ ansGot' = Append(ansGot, Head(u))
    BY <1>1, <1>2, <1>6
  <1> HIDE DEF u
  <1>8. Len(ansSent) <= Len(ansGot) + 1  BY <1>5 DEF OneUnderWay
  <1>9. /\ Len(u) = 1 /\ Len(ansSent) = Len(ansGot) + 1 /\ Len(ansGot) \in Nat
        /\ Head(u) = ansSent[Len(ansSent)] /\ Tail(u) = <<>>
    <2>1. Len(u) \in Nat /\ Len(u) >= 1 /\ Len(ansGot) \in Nat /\ Len(ansSent) \in Nat
      BY <1>2, <1>7
    <2>2. Len(u) = 1 /\ Len(ansSent) = Len(ansGot) + 1
      <3> DEFINE l == Len(u)
                 m == Len(ansGot)
                 n == Len(ansSent)
      <3>1. /\ l \in Nat /\ l >= 1 /\ m \in Nat /\ n \in Nat
            /\ m + l <= n /\ n <= m + 1
        BY <1>7, <1>8, <2>1, Zenon
      <3> HIDE DEF l, m, n
      <3>2. l = 1 /\ n = m + 1  BY <3>1
      <3>3. QED  BY <3>2 DEF l, m, n
    <2>3. Head(u) = u[1]  BY <1>7, <2>2
    <2>4. u[1] = ansSent[Len(ansGot) + 1]  BY <1>7, <2>2
    <2>5. Tail(u) = <<>>
      <3>1. Tail(u) \in Seq(Frame) /\ Len(Tail(u)) = 0  BY <1>7, <2>2
      <3>2. QED  BY <3>1, EmptySeq
    <2>6. QED  BY <2>1, <2>2, <2>3, <2>4, <2>5
  <1>10. Ans!Take
    <2>1. ansRx' = [ansRx EXCEPT !.frames = Tail(ansRx.frames)]
      BY <1>1, <1>9 DEF u
    <2>2. QED  BY <1>1, <2>1 DEF Ans!Take
  <1>11. AnsP!StreamInv' /\ [Ans!Channel!ChannelNext]_Ans!Channel!channelVars
    BY <1>3, <1>10, AnsStep DEF Ans!StreamNext
  <1>12. Pending = {}  BY <1>5, <1>9 DEF OneUnderWay
  <1>13. UNCHANGED <<reqSent, reqGot, reqTx>>  BY <1>1 DEF reqVars
  <1>14. Pending' = {}  BY <1>12, <1>13 DEF Pending
  <1>15. Len(ansGot') = Len(ansGot) + 1 /\ Last(ansGot') = ansSent[Len(ansSent)]
    <2>1. Head(u) \in Frame  BY <1>7
    <2>2. QED  BY <1>2, <1>7, <1>9, <2>1 DEF Last
  <1>16. Last(ansGot').payload = << <<worker.calls>> >>
    BY <1>5, <1>9, <1>15 DEF IsLastCall
  <1>17. CallInv'
    BY <1>1, <1>9, <1>14, <1>15 DEF CallInv, OneUnderWay, IsLastCall
  <1>18. EndInv'
    <2>1. ansRx'.phase = "run"  BY <1>1, <1>2
    <2>2. QED  BY <1>1, <1>3, <2>1 DEF EndInv
  <1>19. LocalTypeOK'  BY <1>1, <1>3 DEF LocalTypeOK
  <1>20. ReqP!StreamInv' /\ [Req!Channel!ChannelNext]_Req!Channel!channelVars
    BY <1>1, ReqStands, ReqStep DEF SessionInv
  <1>21. QueriesNumbered'  BY <1>13 DEF SessionInv, QueriesNumbered
  <1>22. QED  BY <1>11, <1>16, <1>17, <1>18, <1>19, <1>20, <1>21 DEF SessionInv, Moves

\* The handler acts on a request; if it is a query, the answer goes out.
LEMMA HandlerTakeKeeps ==
    ASSUME SessionInv, HandlerTake
    PROVE  SessionInv' /\ Moves
  <1> DEFINE f == Head(reqRx.frames)
             k == Len(reqGot) + 1
  <1>1. /\ Req!Take /\ worker' = worker /\ faults' = faults
        /\ registered' \in IF f.type = REGISTER THEN {TRUE, registered} ELSE {registered}
        /\ IF Answerable(f) THEN Ans!BeginSend(Message(ROUTE_RESULT, f.payload))
                           ELSE UNCHANGED ansVars
    BY DEF HandlerTake
  <1>2. /\ reqSent \in Seq(Frame) /\ reqGot \in Seq(Frame)
        /\ ansSent \in Seq(Frame) /\ ansGot \in Seq(Frame)
    BY StreamTypes
  <1>3. /\ Len(reqSent) \in Nat /\ Len(reqGot) \in Nat
        /\ Len(ansSent) \in Nat /\ Len(ansGot) \in Nat
    BY <1>2
  <1>4. LocalTypeOK /\ LocalTypeOK'
    BY <1>1 DEF SessionInv, LocalTypeOK
  <1>5. /\ ReqP!StreamInv' /\ [Req!Channel!ChannelNext]_Req!Channel!channelVars
    BY <1>1, ReqStep DEF SessionInv, Req!StreamNext
  <1>6. Len(reqGot) < Len(reqSent) /\ f = reqSent[k]
    <2>1. ReqP!Take  BY <1>1 DEF Req!Take, ReqP!Take
    <2>2. QED
      BY <2>1, ReqP!TakeKeeps, CodecAssumption, Zenon DEF SessionInv, ReqP!Plain, Plain
  <1>7. UNCHANGED <<reqTx, reqSent>> /\ reqGot' = Append(reqGot, f)
    BY <1>1 DEF Req!Take
  <1> HIDE DEF f, k
  <1>8. k \in 1 .. Len(reqSent) /\ f \in Frame /\ Len(reqGot') = k /\ k = Len(reqGot) + 1
    <2>1. k \in 1 .. Len(reqSent) /\ k = Len(reqGot) + 1  BY <1>3, <1>6 DEF k
    <2>2. f \in Frame  BY <1>2, <1>6, <2>1
    <2>3. QED  BY <1>2, <1>7, <2>1, <2>2
  <1>9. QueriesNumbered /\ QueriesNumbered'
    BY <1>7 DEF SessionInv, QueriesNumbered
  <1>10. Pending' = Pending \ {k}  BY <1>3, <1>7, <1>8 DEF Pending
  <1>11. CASE ~ Answerable(f)
    <2>1. UNCHANGED ansVars  BY <1>1, <1>11
    <2>2. /\ EndInv' /\ (Done => Done') /\ UNCHANGED <<ansSent, ansGot>>
          /\ AnsP!StreamInv' /\ [Ans!Channel!ChannelNext]_Ans!Channel!channelVars
      BY <2>1, AnsMoves
    <2>3. CallInv'
      <3>1. SUFFICES ASSUME ~ Done'  PROVE OneUnderWay' /\ IsLastCall'
        BY DEF CallInv
      <3>2. OneUnderWay /\ IsLastCall  BY <2>2, <3>1 DEF SessionInv, CallInv
      <3>3. OneUnderWay'  BY <1>1, <1>7, <1>10, <2>2, <3>2 DEF OneUnderWay
      <3>4. IsLastCall'  BY <1>1, <1>7, <1>10, <2>2, <3>2 DEF IsLastCall
      <3>5. QED  BY <3>3, <3>4
    <2>4. QED  BY <1>4, <1>5, <1>9, <2>2, <2>3 DEF SessionInv, Moves
  <1>12. CASE Answerable(f)
    <2> DEFINE g == Message(ROUTE_RESULT, f.payload)
    <2>1. Ans!BeginSend(g) /\ f.type = QUERY_ROUTE  BY <1>1, <1>12 DEF Answerable
    <2>2. PICK n \in 1 .. MaxCalls : f.payload = << <<n>> >>
      BY <1>6, <1>8, <1>9, <2>1 DEF QueriesNumbered
    <2>3. g \in Frame /\ g.payload = f.payload  BY <2>2, MessagesAreFrames DEF Message
    <2> HIDE DEF g
    <2>4. AnsP!StreamInv' /\ [Ans!Channel!ChannelNext]_Ans!Channel!channelVars
      BY <2>1, <2>3, AnsStep DEF SessionInv, Ans!StreamNext
    <2>5. /\ ansTx.open /\ ansRx' = ansRx /\ ansGot' = ansGot /\ ansSent' = Append(ansSent, g)
      BY <2>1 DEF Ans!BeginSend
    <2>6. ansTx'.open = ansTx.open /\ ansTx'.wire = ansTx.wire
      <3>1. /\ ansTx = [todo |-> ansTx.todo, wire |-> ansTx.wire, open |-> ansTx.open]
        BY StreamTypes
      <3>2. PICK e : ansTx' = [ansTx EXCEPT !.todo = e]  BY <2>1 DEF Ans!BeginSend
      <3>3. QED  BY <3>1, <3>2
    <2>7. EndInv' /\ (Done => Done')
      BY <2>5, <2>6 DEF SessionInv, EndInv, Done, Ended
    <2>8. CallInv'
      <3>1. SUFFICES ASSUME ~ Done'  PROVE OneUnderWay' /\ IsLastCall'
        BY DEF CallInv
      <3>2. OneUnderWay /\ IsLastCall  BY <2>7, <3>1 DEF SessionInv, CallInv
      <3>3. k \in Pending  BY <1>3, <1>6, <1>8, <2>1 DEF Pending
      <3>4. Pending' = {} /\ Len(ansSent) = Len(ansGot)
        BY <1>10, <3>2, <3>3 DEF OneUnderWay
      <3>5. g.payload = << <<worker.calls>> >>
        BY <1>6, <2>3, <3>2, <3>3 DEF IsLastCall
      <3>6. Len(ansSent') = Len(ansGot') + 1 /\ ansSent'[Len(ansSent')] = g
        BY <1>2, <2>3, <2>5, <3>4
      <3>7. ~ (worker.pc \in {"new", "hello", "idle"} /\ reqTx.open)
        BY <3>2, <3>3 DEF OneUnderWay
      <3>8. Len(ansSent') <= Len(ansGot') + 1
        BY <1>3, <2>5, <3>6
      <3>9. OneUnderWay'  BY <1>1, <1>7, <3>4, <3>7, <3>8 DEF OneUnderWay
      <3>10. IsLastCall'  BY <1>1, <3>4, <3>5, <3>6 DEF IsLastCall
      <3>11. QED  BY <3>9, <3>10
    <2>9. QED  BY <1>4, <1>5, <1>9, <2>4, <2>5, <2>7, <2>8 DEF SessionInv, Moves
  <1>13. QED  BY <1>11, <1>12

\* Every step keeps the invariant and is a step of both channels.
LEMMA SessionStep ==
    ASSUME SessionInv, [SessionNext]_sessionVars
    PROVE  SessionInv' /\ Moves
  <1>0. LocalTypeOK  BY DEF SessionInv
  <1>1. CASE Connect
    <2>1. PICK f \in Frame :
              /\ f.type # QUERY_ROUTE /\ Req!BeginSend(f)
              /\ worker.pc \in {"new", "hello"}
      <3>1. CASE worker.pc = "new" /\ Req!BeginSend(Message(HELLO, <<>>))
        BY <3>1, MessagesAreFrames DEF Message, HELLO, QUERY_ROUTE
      <3>2. CASE worker.pc = "hello" /\ Req!BeginSend(Message(REGISTER, <<>>))
        BY <3>2, MessagesAreFrames DEF Message, REGISTER, QUERY_ROUTE
      <3>3. QED  BY <1>1, <3>1, <3>2 DEF Connect
    <2>2. LocalTypeOK' /\ UNCHANGED <<ansVars, registered, faults>>
      BY <1>0, <1>1 DEF Connect, LocalTypeOK
    <2>3. QED  BY <2>1, <2>2, NoticeKeeps
  <1>2. CASE publishTopology
    <2> DEFINE f == Message(PUBLISH_TOPOLOGY, << <<worker.calls + 1>> >>)
    <2>1. /\ worker.pc = "idle" /\ worker.calls < MaxCalls /\ Req!BeginSend(f)
          /\ worker' = [pc |-> "idle", calls |-> worker.calls + 1]
          /\ UNCHANGED <<ansVars, registered, faults>>
      BY <1>2 DEF publishTopology, Call
    <2>2. LocalTypeOK' /\ worker.calls + 1 \in 1 .. MaxCalls
      BY <1>0, <2>1, SessionAssumption DEF LocalTypeOK
    <2>3. f \in Frame  BY <2>2, MessagesAreFrames, Zenon
    <2>4. f.type # QUERY_ROUTE  BY DEF Message, PUBLISH_TOPOLOGY, QUERY_ROUTE
    <2>5. QED  BY <2>1, <2>2, <2>3, <2>4, NoticeKeeps
  <1>3. CASE UNCHANGED sessionVars
    <2>1. UNCHANGED <<reqVars, ansVars, worker, registered, faults>>
      BY <1>3 DEF sessionVars
    <2>2. LocalTypeOK'  BY <1>0, <2>1 DEF LocalTypeOK
    <2>3. QED  BY <2>1, <2>2, ReqStands, AnsMoves, QuietKeeps
  <1>4. QED
    BY <1>1, <1>2, <1>3, QueryKeeps, AnsweredKeeps, QueryErrorKeeps, WorkerKeeps, HandlerKeeps,
       HandlerTakeKeeps
       DEF SessionNext, Worker, Handler

\* Both streams begin empty.
LEMMA SessionInitially ==
    ASSUME SessionInit
    PROVE  SessionInv /\ Req!Channel!ChannelInit /\ Ans!Channel!ChannelInit
  <1>1. /\ Req!StreamInit /\ Ans!StreamInit /\ registered = FALSE /\ faults = 0
        /\ worker = [pc |-> "new", calls |-> 0]
    BY DEF SessionInit
  <1>2. ReqP!StreamInit /\ AnsP!StreamInit
    BY <1>1 DEF Req!StreamInit, ReqP!StreamInit, Ans!StreamInit, AnsP!StreamInit
  <1>3. ReqP!StreamInv /\ AnsP!StreamInv
    BY <1>2, ReqP!StreamInitially, AnsP!StreamInitially, CodecAssumption, Zenon
       DEF ReqP!Plain, AnsP!Plain, Plain
  <1>4. Req!Channel!ChannelInit /\ Ans!Channel!ChannelInit
    BY <1>1 DEF Req!StreamInit, Ans!StreamInit, Req!Channel!ChannelInit, Ans!Channel!ChannelInit
  <1>5. LocalTypeOK
    <2>1. 0 \in 0 .. MaxCalls /\ 0 \in 0 .. MaxFaults  BY SessionAssumption
    <2>2. QED  BY <1>1, <2>1 DEF LocalTypeOK
  <1>6. /\ Len(reqSent) = 0 /\ Len(reqGot) = 0 /\ Len(ansSent) = 0 /\ Len(ansGot) = 0
        /\ ansRx.phase = "run" /\ ansTx.open
    BY <1>1 DEF Req!StreamInit, Ans!StreamInit
  <1>7. QueriesNumbered /\ EndInv  BY <1>6 DEF QueriesNumbered, EndInv
  <1>8. Pending = {}  BY <1>6 DEF Pending
  <1>9. CallInv  BY <1>6, <1>8 DEF CallInv, OneUnderWay, IsLastCall
  <1>10. QED  BY <1>3, <1>4, <1>5, <1>7, <1>9 DEF SessionInv

\* The invariant holds throughout.
LEMMA SessionInvariant == SessionSpec => []SessionInv
  <1>1. SessionInit => SessionInv  BY SessionInitially
  <1>2. SessionInv /\ [SessionNext]_sessionVars => SessionInv'  BY SessionStep
  <1>3. QED  BY <1>1, <1>2, PTL DEF SessionSpec

-----------------------------------------------------------------------------
(* The theorems. *)

\* Type correctness, and Worker::recvFrame, which keeps the first frame of a feed
\* and drops the others, never has another to drop.
THEOREM NothingDropped == SessionSpec => []SessionTypeOK
  <1>1. SessionInv => SessionTypeOK
    <2> SUFFICES ASSUME SessionInv PROVE SessionTypeOK  OBVIOUS
    <2>1. /\ \A r \in {reqRx, ansRx} :
                r.phase \in {"run", "parse", "false", "end"} /\ r.err \in BOOLEAN
          /\ ansSent \in Seq(Frame) /\ ansGot \in Seq(Frame) /\ ansRx.frames \in Seq(Frame)
      BY StreamTypes
    <2>2. Len(ansRx.frames) <= 1
      <3>1. CASE ansRx.frames = <<>>  BY <3>1
      <3>2. CASE ansRx.frames # <<>>
        <4>1. ~ ansRx.err /\ ~ Done
          BY <3>2 DEF SessionInv, AnsP!StreamInv, AnsP!OrderInv, Done, Ended
        <4>2. Len(ansSent) <= Len(ansGot) + 1
          BY <4>1 DEF SessionInv, CallInv, OneUnderWay
        <4>3. Len(ansGot) + Len(ansRx.frames) <= Len(ansSent)
          BY <4>1 DEF SessionInv, AnsP!StreamInv, AnsP!OrderInv, AnsP!Parsed
        <4> DEFINE l == Len(ansRx.frames)
                   m == Len(ansGot)
                   n == Len(ansSent)
        <4>4. l \in Nat /\ m \in Nat /\ n \in Nat  BY <2>1
        <4>5. n <= m + 1 /\ m + l <= n  BY <4>2, <4>3
        <4> HIDE DEF l, m, n
        <4>6. l <= 1  BY <4>4, <4>5
        <4>7. QED  BY <4>6 DEF l
      <3>3. QED  BY <3>1, <3>2
    <2>3. QED  BY <2>1, <2>2 DEF SessionInv, LocalTypeOK, SessionTypeOK
  <1>2. QED  BY <1>1, SessionInvariant, PTL

\* Both directions of a worker's connection implement FrameChannel.
THEOREM SessionImplementsChannels == SessionSpec => StreamsInOrder
  <1>1. SessionInit => Req!Channel!ChannelInit /\ Ans!Channel!ChannelInit
    BY SessionInitially
  <1>2. SessionInv /\ [SessionNext]_sessionVars
            => /\ [Req!Channel!ChannelNext]_Req!Channel!channelVars
               /\ [Ans!Channel!ChannelNext]_Ans!Channel!channelVars
    BY SessionStep DEF Moves
  <1>3. QED
    BY <1>1, <1>2, SessionInvariant, PTL
       DEF SessionSpec, StreamsInOrder, Req!InOrder, Ans!InOrder,
           Req!Channel!ChannelSpec, Ans!Channel!ChannelSpec

\* queryRoute returns the answer to its own query.
THEOREM AnswersAreOwn == SessionSpec => AnswersMatch
  <1>1. SessionInv /\ [SessionNext]_sessionVars
            => [ansGot' # ansGot => Last(ansGot').payload = << <<worker.calls>> >>]_sessionVars
    BY SessionStep DEF Moves
  <1>2. QED  BY <1>1, SessionInvariant, PTL DEF SessionSpec, AnswersMatch
=============================================================================
