-------------------------- MODULE MCWorkerSession ---------------------------
EXTENDS WorkerSession

\* A wrong magic, an invalid type, another valid type or length, and a length
\* over the limit.
MCGarbage == {<<n>> : n \in {0, 2, 11}}
=============================================================================
