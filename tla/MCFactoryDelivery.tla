-------------------------- MODULE MCFactoryDelivery --------------------------
(* Instances of FactoryDelivery for TLC.                                   *)
EXTENDS FactoryDelivery

CONSTANTS w1, w2, a

\* Two processes started with the same FACTORY_WORKER_ID.
SharedId == [p \in Workers |-> a]

=============================================================================
