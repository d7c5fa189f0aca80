--------------------------- MODULE MCFactoryQueue ---------------------------
(* Instances of FactoryQueue for TLC: the id of each process.              *)
EXTENDS FactoryQueue

CONSTANTS w1, w2, a, b

\* Two processes started with the same FACTORY_WORKER_ID.
SharedId == [p \in Workers |-> a]

\* Each process with an id of its own.
OwnIds == [p \in Workers |-> IF p = w1 THEN a ELSE b]

=============================================================================
