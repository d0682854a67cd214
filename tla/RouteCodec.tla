----------------------------- MODULE RouteCodec -----------------------------
(***************************************************************************)
(* A route query between a worker and the coordinator: the policy          *)
(* (worker.cpp, encodePolicyLite; coordinator.cpp, decodePolicy) and the   *)
(* decision (encodeDecision; Worker::queryRoute) as the sequences of their *)
(* fields.  The fields computeRoute never reads are left out.              *)
(***************************************************************************)
EXTENDS FabricRoute

kMaxFactors == 24        \* a literal in decodePolicy

encodePolicyLite(p) ==
    <<p.requireNonDegradedPath, p.insidePartition, p.maxAllowedHops, p.requiresBandwidth,
      Len(p.factors)>> \o p.factors

PolicyRefused == [refused |-> TRUE]

\* Defect: the first two flags are read in the other order.
decodePolicy_Swapped(f) ==
    IF f[5] > kMaxFactors THEN PolicyRefused
    ELSE [requireNonDegradedPath |-> f[2], insidePartition |-> f[1], maxAllowedHops |-> f[3],
          requiresBandwidth |-> f[4], factors |-> SubSeq(f, 6, 5 + f[5])]

decodePolicy(f) ==
    IF f[5] > kMaxFactors THEN PolicyRefused
    ELSE [requireNonDegradedPath |-> f[1], insidePartition |-> f[2], maxAllowedHops |-> f[3],
          requiresBandwidth |-> f[4], factors |-> SubSeq(f, 6, 5 + f[5])]

\* The path is sent as its key, empty when there is none.
encodeDecision(d) ==
    <<d.outcome, CanonicalKey(d.selected), d.authoritative, d.epoch, d.topologyGen, d.partitionGen>>

\* What queryRoute makes of the answer: it reads no further than the flag, and
\* keeps of the path that there is one.
AnswerRead(f, src, dst) ==
    [source |-> src, destination |-> dst, outcome |-> f[1], selected |-> f[2] # <<>>,
     authoritative |-> f[3]]
=============================================================================
