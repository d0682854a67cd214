----------------------------- MODULE FrameCodec -----------------------------
(***************************************************************************)
(* The frames of the coordinator's protocol (transport.h, transport.cpp):  *)
(* how encodeFrame lays one out and how FrameStream::feed judges the start *)
(* of its buffer.                                                          *)
(*                                                                         *)
(* A unit of the stream is a tuple: <<n>> is the field or the payload byte *)
(* n, <<0, s>> the CRC of s, taken to be collision free.  Magic and        *)
(* version, both compared with constants, are one unit.                    *)
(***************************************************************************)
EXTENDS Naturals, Sequences

CONSTANTS
    kFrameMagic,
    kMaxFrameBytes,      \* limits.h
    kBuffer,             \* the size of the buffer recvSome is given
    Garbage,             \* the units a faulty wire may deliver instead
    Frame                \* the frames that are sent

\* A field or a payload byte.
Plain(u) == u \in Seq(Nat) /\ Len(u) = 1

\* A faulty wire does not produce a CRC that fits.
ASSUME CodecAssumption ==
    /\ kFrameMagic \in Nat /\ kMaxFrameBytes \in Nat /\ kBuffer \in Nat \ {0}
    /\ \A u \in Garbage : Plain(u)
    /\ \A f \in Frame :
          /\ f = [type |-> f.type, payload |-> f.payload]
          /\ f.type \in 1 .. 10
          /\ f.payload \in Seq(Seq(Nat)) /\ Len(f.payload) <= kMaxFrameBytes
          /\ \A i \in 1 .. Len(f.payload) : Plain(f.payload[i])

crc32(s) == <<0, s>>

validMsgType(v) == v >= 1 /\ v <= 10

kHeader == 4

Header(f) == << <<kFrameMagic>>, <<f.type>>, <<Len(f.payload)>> >>

encodeFrame(f) ==
    Header(f) \o <<crc32(Header(f))>> \o f.payload \o <<crc32(f.payload)>>

Taken(s, n) == SubSeq(s, 1, n)
Rest(s, n)  == SubSeq(s, n + 1, Len(s))

\* The header's fields are judged first, its CRC only once the whole frame is
\* there.
Total(b) == kHeader + b[3][1] + 1

HeaderAccepted(b) ==
    b[1] = <<kFrameMagic>> /\ validMsgType(b[2][1]) /\ b[3][1] <= kMaxFrameBytes

Incomplete(b) == Len(b) >= kHeader => HeaderAccepted(b) /\ Len(b) < Total(b)

Payload(b) == SubSeq(b, kHeader + 1, Total(b) - 1)

\* Defect: the CRC of the header is not checked.
Intact_NoHeaderCrc(b) ==
    ~ Incomplete(b) /\ HeaderAccepted(b) /\ b[Total(b)] = crc32(Payload(b))

Intact(b) ==
    /\ ~ Incomplete(b) /\ HeaderAccepted(b)
    /\ b[4] = crc32(Taken(b, 3))
    /\ b[Total(b)] = crc32(Payload(b))
=============================================================================
