---------------------------- MODULE FrameChannel ----------------------------
(***************************************************************************)
(* What one direction of a framed connection (transport.h) promises its    *)
(* two ends: the frames handed on are, in order and unchanged, the first   *)
(* of the frames sent, and once the connection has broken no more come.    *)
(***************************************************************************)
EXTENDS Sequences, Naturals

CONSTANT Frame

VARIABLES sent,          \* the frames given to encodeFrame and sendAll
          delivered,     \* the frames the receiver has acted on
          broken         \* the receiver has given the connection up

channelVars == <<sent, delivered, broken>>

ChannelInit == sent = <<>> /\ delivered = <<>> /\ broken = FALSE

Send(f) == sent' = Append(sent, f) /\ UNCHANGED <<delivered, broken>>

Deliver ==
    /\ ~ broken
    /\ Len(delivered) < Len(sent)
    /\ delivered' = Append(delivered, sent[Len(delivered) + 1])
    /\ UNCHANGED <<sent, broken>>

Break == broken' = TRUE /\ UNCHANGED <<sent, delivered>>

ChannelNext == (\E f \in Frame : Send(f)) \/ Deliver \/ Break

ChannelSpec == ChannelInit /\ [][ChannelNext]_channelVars
=============================================================================
