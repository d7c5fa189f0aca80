------------------------------ MODULE GraphRun ------------------------------
(***************************************************************************)
(* A run of the factory lifecycle as an observer of its accepted           *)
(* checkpoints sees it: no calls, leases or crashes, only the states that  *)
(* follow one another.  GraphThread implements it.                         *)
(***************************************************************************)
EXTENDS GraphLifecycle

VARIABLE run   \* the state of the accepted checkpoint, or None

-----------------------------------------------------------------------------
Init == run = None

Start == run = None /\ run' = StartState

\* The router's node is executed, or its gate is answered with reject.
Execute ==
  /\ run # None
  /\ Route(run) # "end"
  /\ LET n == Route(run)
     IN  \/ run' \in Executed(n, run)
         \/ n \in Gates /\ run' = Rejected(n, run)

OperatorRetry == run # None /\ RetryEligible(run) /\ run' = Retried(run)

OperatorCancel == run # None /\ run.node # None /\ run' = Cancelled(run)

Next == Start \/ Execute \/ OperatorRetry \/ OperatorCancel

Spec == Init /\ [][Next]_run

=============================================================================
