--------------------------- MODULE MCCoordinator ----------------------------
(* One fabric, SINGLE_SWITCH_TWO_GPU, that two incarnations of a worker     *)
(* publish over two connections at a time; one more is turned away.         *)
EXTENDS Coordinator, FabricBackends

TwoGpu == buildSyntheticScan("SINGLE_SWITCH_TWO_GPU")
MCBulks == {TwoGpu}
\* Its switch alone with the largest generation there is: a later incarnation
\* may take the exhausted record over and leave the others.
Exhausting == [TwoGpu EXCEPT !.switches[10].gen = U64 - 1, !.devices = EmptyMap,
                             !.ports = EmptyMap, !.links = EmptyMap, !.partitions = EmptyMap]
MCExhausted == {TwoGpu, Exhausting}
\* For liveness, which does not depend on what the answer is: a partition in
\* place of the links.
MCLinkless == {[TwoGpu EXCEPT !.ports = EmptyMap, !.links = EmptyMap,
                        !.partitions = 1 :> makeSyntheticPartition({1, 2}, {10}, "ACTIVE")]}
MCQueries == {<<1, 2>>}
MCPolicies ==
    {[insidePartition |-> TRUE, maxAllowedHops |-> 4, requireNonDegradedPath |-> FALSE,
      requiresBandwidth |-> FALSE, factors |-> <<"FEWER_SWITCHES">>]}
MCMeasurements ==
    {[id |-> 0, source |-> 1, destination |-> 2, matched |-> FALSE, kind |-> "UNSUPPORTED",
      throughput |-> 1, latency |-> 1, owner |-> NoOwner]}
Slots == Permutations(Callers)
NoFunction == [x \in {} |-> {}]
=============================================================================
