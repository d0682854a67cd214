---------------------------- MODULE FrameStream -----------------------------
(***************************************************************************)
(* One direction of a framed TCP connection (transport.h, transport.cpp):  *)
(* sendAll and recvSome, which cut the stream anywhere, encodeFrame, and   *)
(* FrameStream::feed, which finds the frames again.  A feed is one step    *)
(* per turn of its loop; its caller then acts on the frames it returned,   *)
(* one by one, or gives up when it returned false.                         *)
(***************************************************************************)
EXTENDS FrameCodec

VARIABLES
    tx,                  \* sender: the rest of the frame in sendAll, the units
                         \* on the wire, and whether the socket is open
    rx,                  \* receiver: buf_, err_, the frames of the last feed
    sent, delivered      \* history: the frames sent, and those acted on

streamVars == <<tx, rx, sent, delivered>>

\* phase "run": the caller acts on frames, then reads on; "parse": in feed;
\* "false": feed has returned false; "end": the stream has ended.
StreamInit ==
    /\ tx = [todo |-> <<>>, wire |-> <<>>, open |-> TRUE]
    /\ rx = [buf |-> <<>>, err |-> FALSE, frames |-> <<>>, phase |-> "run"]
    /\ sent = <<>> /\ delivered = <<>>

-----------------------------------------------------------------------------
(* The sender and the wire. *)

BeginSend(f) ==
    /\ tx.open /\ tx.todo = <<>>
    /\ tx' = [tx EXCEPT !.todo = encodeFrame(f)]
    /\ sent' = Append(sent, f)
    /\ UNCHANGED <<rx, delivered>>

\* One turn of sendAll: the socket takes some of what is left.
SendSome ==
    \E n \in 1 .. Len(tx.todo) :
        /\ tx' = [tx EXCEPT !.wire = tx.wire \o Taken(tx.todo, n), !.todo = Rest(tx.todo, n)]
        /\ UNCHANGED <<rx, sent, delivered>>

\* The peer is gone: what is left is not sent, nor is anything else.
SendFails ==
    /\ tx.todo # <<>>
    /\ tx' = [tx EXCEPT !.todo = <<>>, !.open = FALSE]
    /\ UNCHANGED <<rx, sent, delivered>>

\* The sender closes its socket or dies; a reset loses the units that have not
\* been received.
CloseTx ==
    /\ tx.open
    /\ \E n \in 0 .. Len(tx.wire) :
          tx' = [todo |-> <<>>, wire |-> Taken(tx.wire, n), open |-> FALSE]
    /\ UNCHANGED <<rx, sent, delivered>>

Corrupt ==
    /\ \E i \in 1 .. Len(tx.wire), u \in Garbage :
          u # tx.wire[i] /\ tx' = [tx EXCEPT !.wire[i] = u]
    /\ UNCHANGED <<rx, sent, delivered>>

-----------------------------------------------------------------------------
(* The receiver. *)

Idle == rx.phase = "run" /\ rx.frames = <<>>

\* recvSome returns some units and feed takes them, unless it has failed before.
Recv ==
    /\ Idle
    /\ \E n \in 1 .. Len(tx.wire) :
          /\ n <= kBuffer
          /\ tx' = [tx EXCEPT !.wire = Rest(tx.wire, n)]
          /\ rx' = IF rx.err THEN [rx EXCEPT !.phase = "false"]
                   ELSE [rx EXCEPT !.buf = rx.buf \o Taken(tx.wire, n), !.phase = "parse"]
    /\ UNCHANGED <<sent, delivered>>

RecvEnd ==
    /\ Idle /\ tx.wire = <<>> /\ ~ tx.open
    /\ rx' = [rx EXCEPT !.phase = "end"]
    /\ UNCHANGED <<tx, sent, delivered>>

ParseFrame ==
    /\ rx.phase = "parse" /\ Intact(rx.buf)
    /\ rx' = [rx EXCEPT !.buf = Rest(rx.buf, Total(rx.buf)),
                        !.frames = Append(rx.frames, [type |-> rx.buf[2][1], payload |-> Payload(rx.buf)])]
    /\ UNCHANGED <<tx, sent, delivered>>

\* feed returns true: what is left is not a whole frame yet.
\*
\* Defect: it returns after the first frame.
ParseWait_OneFrame ==
    /\ rx.phase = "parse" /\ (Incomplete(rx.buf) \/ rx.frames # <<>>)
    /\ rx' = [rx EXCEPT !.phase = "run"]
    /\ UNCHANGED <<tx, sent, delivered>>

ParseWait ==
    /\ rx.phase = "parse" /\ Incomplete(rx.buf)
    /\ rx' = [rx EXCEPT !.phase = "run"]
    /\ UNCHANGED <<tx, sent, delivered>>

\* feed returns false.  Its callers ignore the frames found before the error.
ParseError ==
    /\ rx.phase = "parse" /\ ~ Incomplete(rx.buf) /\ ~ Intact(rx.buf)
    /\ rx' = [rx EXCEPT !.err = TRUE, !.frames = <<>>, !.phase = "false"]
    /\ UNCHANGED <<tx, sent, delivered>>

Parse == ParseFrame \/ ParseWait \/ ParseError

\* The caller acts on the next frame: the coordinator on every one ...
Take ==
    /\ rx.phase = "run" /\ rx.frames # <<>>
    /\ delivered' = Append(delivered, Head(rx.frames))
    /\ rx' = [rx EXCEPT !.frames = Tail(rx.frames)]
    /\ UNCHANGED <<tx, sent>>

\* ... and Worker::recvFrame on the first one, dropping the others.
TakeFront ==
    /\ rx.phase = "run" /\ rx.frames # <<>>
    /\ delivered' = Append(delivered, Head(rx.frames))
    /\ rx' = [rx EXCEPT !.frames = <<>>]
    /\ UNCHANGED <<tx, sent>>

\* One direction on its own, with the coordinator as its receiver.
StreamNext ==
    \/ \E f \in Frame : BeginSend(f)
    \/ SendSome \/ SendFails \/ CloseTx \/ Corrupt
    \/ Recv \/ RecvEnd \/ Parse \/ Take

StreamSpec == StreamInit /\ [][StreamNext]_streamVars

-----------------------------------------------------------------------------

Channel == INSTANCE FrameChannel WITH broken <- rx.err

\* However the stream is cut and whatever the wire does to it, the frames acted
\* on are the first of those sent, and there are none after an error: feed
\* implements the channel the coordinator and the worker count on.
InOrder == Channel!ChannelSpec
=============================================================================
