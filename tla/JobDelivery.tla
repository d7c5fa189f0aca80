---------------------------- MODULE JobDelivery ----------------------------
(***************************************************************************)
(* Deliveries of the job runtime.  The application's record of a delivery  *)
(* (job_delivery_registry) and the Graphile Worker job that carries it are *)
(* two tables written one after the other by the port that enqueues, the   *)
(* workers that execute, the operators that retry or cancel, and a runtime *)
(* that shuts down by force.  No transaction spans both.                   *)
(*                                                                         *)
(* Graphile is outside the repository: a job is there or not, is locked    *)
(* while a worker has it, counts its attempts, and is deleted once its     *)
(* task returns.  completeJobs and rescheduleJobs pass over locked jobs.   *)
(* When a job is run again is left open.                                   *)
(***************************************************************************)
EXTENDS Naturals

CONSTANTS
  Deliveries,    \* one per semantic job key
  Workers,       \* worker processes; a task class has one slot in each
  Actions,       \* operator actions, one per idempotency key
  None,
  MaxAttempts    \* max_attempts of the task's catalog entry

ASSUME JobAssumption == MaxAttempts \in Nat \ {0} /\ None \notin Workers \cup Deliveries

VARIABLES
  row,        \* the registry
  job,        \* Graphile's jobs (external)
  port,       \* the enqueue call of each delivery
  worker,     \* what each worker executes, and where it is
  stray,      \* deliveries with a handler body at work that nobody awaits
  killed,     \* workers shut down by force, not yet done with it
  action,     \* the operator actions
  cut,        \* history: workers whose execution a forced shutdown unlocked
  disturbed   \* history: deliveries acted on by an operator, a forced shutdown
              \* or an enqueue that took its job back

vars == <<row, job, port, worker, stray, killed, action, cut, disturbed>>

\* DELIVERY_STATUS, shortened; "absent" and "pruned" are rows that do not exist.
Statuses == {"absent", "pending", "queued", "running", "redelivery",
             "acknowledged", "failed", "cancelled", "pruned"}

Row == [status : Statuses, attached : BOOLEAN, version : Nat]
Job == [state : {"none", "ready", "locked"}, by : Workers \cup {None}, attempts : 0..MaxAttempts]

\* "ack", "retry", "final": about to record success, a failure to be retried, a
\* failure for good.  "return", "throw": about to say so to Graphile.
WorkerSteps == {"idle", "claimed", "handler", "ack", "retry", "final", "return", "throw"}
Execution   == [at : WorkerSteps, on : Deliveries \cup {None}, attempt : 0..MaxAttempts]
Idle        == [at |-> "idle", on |-> None, attempt |-> 0]

PortSteps == {"idle", "created", "added", "undo", "failing", "ended"}

Kinds == {"retry", "requeue", "cancel"}

\* "retry", "cancel": claimed, about to call Graphile.  "retried", "cancelled":
\* Graphile has done it.  "over": recorded as failed, or pending for good since its
\* process stopped.
ActionSteps == {"idle", "retry", "cancel", "retried", "cancelled", "succeeded", "over"}
Action == [ at       : ActionSteps,
            on       : Deliveries \cup {None},
            attached : BOOLEAN,     \* of the record as claimed
            version  : Nat ]        \* expected_version

\* A delivery in these is over.
Done == {"acknowledged", "failed", "pruned"}

Set(d, s) == row' = [row EXCEPT ![d].status = s]
Status(d) == row[d].status

\* markFailed touches these rows only.
MarkFailed(d, s) ==
  row' = IF Status(d) \in {"pending", "queued", "running"}
         THEN [row EXCEPT ![d].status = s] ELSE row

-----------------------------------------------------------------------------
(* Graphile (external).                                                    *)

NoJob == [state |-> "none", by |-> None, attempts |-> 0]

Unlocked(d) == [job[d] EXCEPT !.state = "ready", !.by = None]

\* A success deletes the job by its id; an error unlocks it, if the worker still
\* has it.
Delete(d) == job' = [job EXCEPT ![d] = NoJob]
Release(w, d) == job' = IF job[d].by = w THEN [job EXCEPT ![d] = Unlocked(d)] ELSE job

\* A lock nobody holds any more is taken for dead after four hours.
LockExpires(d) ==
  /\ job[d].state = "locked" /\ job[d].by = None
  /\ job' = [job EXCEPT ![d].state = "ready"]
  /\ UNCHANGED <<row, port, worker, stray, killed, action, cut, disturbed>>

-----------------------------------------------------------------------------
(* The port: a record first, then the job, then the job's id.              *)

portOnly == <<worker, stray, killed, action, cut, disturbed>>
PortStep(d, from, to) == port[d] = from /\ port' = [port EXCEPT ![d] = to]

\* A record of the same semantic key is returned as it is, whatever its state.
CreatePending(d) ==
  /\ PortStep(d, "idle", "created")
  /\ Status(d) = "absent" /\ Set(d, "pending")
  /\ UNCHANGED <<job, portOnly>>

\* The job is added; if the answer is lost, its id is never known.
AddJob(d) ==
  /\ PortStep(d, "created", "added") \/ PortStep(d, "created", "failing")
  /\ job' = [job EXCEPT ![d].state = "ready"]
  /\ UNCHANGED <<row, portOnly>>

AddJobFails(d) ==
  /\ PortStep(d, "created", "failing")
  /\ UNCHANGED <<row, job, portOnly>>

\* Mutant: the id is attached to a record in any state.
AttachAnyStatus(d) ==
  /\ PortStep(d, "added", "ended") \/ PortStep(d, "added", "undo")
  /\ row' = [row EXCEPT ![d].status = "queued", ![d].attached = TRUE]
  /\ UNCHANGED <<job, portOnly>>

\* attachGraphileJob; its answer may be lost.
Attach(d) ==
  /\ PortStep(d, "added", "ended") \/ PortStep(d, "added", "undo")
  /\ Status(d) = "pending"
  /\ row' = [row EXCEPT ![d].status = "queued", ![d].attached = TRUE]
  /\ UNCHANGED <<job, portOnly>>

AttachFails(d) ==
  /\ PortStep(d, "added", "undo")
  /\ UNCHANGED <<row, job, portOnly>>

\* compensate: completeJobs, which may fail or find the job locked.
Compensate(d) ==
  /\ PortStep(d, "undo", "failing")
  /\ \/ UNCHANGED <<job, disturbed>>
     \/ /\ job[d].state = "ready" /\ job' = [job EXCEPT ![d] = NoJob]
        /\ disturbed' = disturbed \cup {d}
  /\ UNCHANGED <<row, worker, stray, killed, action, cut>>

EnqueueFails(d) ==
  /\ PortStep(d, "failing", "ended")
  /\ MarkFailed(d, "failed")
  /\ UNCHANGED <<job, portOnly>>

\* The process stops, or the failure cannot be recorded.
PortStops(d) ==
  /\ PortStep(d, "created", "ended") \/ PortStep(d, "added", "ended")
     \/ PortStep(d, "undo", "ended") \/ PortStep(d, "failing", "ended")
  /\ UNCHANGED <<row, job, portOnly>>

-----------------------------------------------------------------------------
(* Workers: executeTask.                                                   *)

workerOnly == <<port, stray, killed, action, cut, disturbed>>
At(w, s, d)   == worker[w].at = s /\ worker[w].on = d
Goes(w, s)    == worker' = [worker EXCEPT ![w].at = s]
FailStep(w)   == IF worker[w].attempt < MaxAttempts THEN "retry" ELSE "final"

Lock(w, d) ==
  /\ worker[w].at = "idle" /\ w \notin killed
  /\ job[d].state = "ready" /\ job[d].attempts < MaxAttempts
  /\ job' = [job EXCEPT ![d] = [state |-> "locked", by |-> w, attempts |-> @.attempts + 1]]
  /\ worker' = [worker EXCEPT ![w] = [at |-> "claimed", on |-> d, attempt |-> job[d].attempts + 1]]
  /\ UNCHANGED <<row, workerOnly>>

\* Mutant: the record's status is not looked at.
MarkRunningAnyStatus(w, d) ==
  /\ At(w, "claimed", d)
  /\ row[d].attached
  /\ Set(d, "running") /\ Goes(w, "handler")
  /\ UNCHANGED <<job, workerOnly>>

\* recordClaim, whose answer may be lost, then runWithPolicy: the handler is
\* started unless an abort came first.
MarkRunning(w, d) ==
  /\ At(w, "claimed", d)
  /\ Status(d) \in {"queued", "redelivery"} /\ row[d].attached
  /\ Set(d, "running")
  /\ Goes(w, "handler") \/ Goes(w, FailStep(w)) \/ Goes(w, "throw")
  /\ UNCHANGED <<job, workerOnly>>

\* Ownership, validation or the record refuse: thrown at Graphile unrecorded.
ClaimRefused(w, d) ==
  /\ At(w, "claimed", d)
  /\ Goes(w, "throw")
  /\ UNCHANGED <<row, job, workerOnly>>

\* The handler returns, or throws.
HandlerEnds(w, d) ==
  /\ At(w, "handler", d)
  /\ Goes(w, "ack") \/ Goes(w, "final") \/ Goes(w, FailStep(w))
  /\ UNCHANGED <<row, job, workerOnly>>

\* Its time is up, or it is aborted: Promise.race goes on without it, and its body
\* goes on as well.
HandlerAbandoned(w, d) ==
  /\ At(w, "handler", d)
  /\ Goes(w, FailStep(w))
  /\ stray' = stray \cup {d}
  /\ UNCHANGED <<row, job, port, killed, action, cut, disturbed>>

\* Mutant: what an abandoned handler returns is still recorded.
StrayAcknowledges(d) ==
  /\ d \in stray /\ stray' = stray \ {d}
  /\ row' = IF Status(d) = "running" THEN [row EXCEPT ![d].status = "acknowledged"] ELSE row
  /\ UNCHANGED <<job, port, worker, killed, action, cut, disturbed>>

\* The last such body ends, or its process stops: what it returns or throws is lost,
\* for the race is over.
StrayEnds(d) ==
  /\ d \in stray /\ stray' = stray \ {d}
  /\ UNCHANGED <<row, job, port, worker, killed, action, cut, disturbed>>

\* markAcknowledged; its answer may be lost.
Acknowledge(w, d) ==
  /\ At(w, "ack", d)
  /\ Status(d) = "running" /\ Set(d, "acknowledged")
  /\ Goes(w, "return") \/ Goes(w, FailStep(w))
  /\ UNCHANGED <<job, workerOnly>>

\* The record is no longer running, or the query fails.
AcknowledgeFails(w, d) ==
  /\ At(w, "ack", d)
  /\ Goes(w, FailStep(w)) \/ (Status(d) # "running" /\ Goes(w, "final"))
  /\ UNCHANGED <<row, job, workerOnly>>

\* Mutant: a failure to be retried is not thrown on.
RecordFailureReturns(w, d) ==
  /\ \/ At(w, "retry", d) /\ MarkFailed(d, "redelivery")
     \/ At(w, "final", d) /\ MarkFailed(d, "failed")
  /\ Goes(w, "return")
  /\ UNCHANGED <<job, workerOnly>>

\* recordFailure: a failure for good is a success to Graphile, unless the
\* answer of markFailed is lost.
RecordFailure(w, d) ==
  /\ \/ At(w, "retry", d) /\ MarkFailed(d, "redelivery") /\ Goes(w, "throw")
     \/ At(w, "final", d) /\ MarkFailed(d, "failed") /\ (Goes(w, "return") \/ Goes(w, "throw"))
  /\ UNCHANGED <<job, workerOnly>>

\* The failure cannot be recorded: thrown at Graphile.
RecordFailureFails(w, d) ==
  /\ At(w, "retry", d) \/ At(w, "final", d)
  /\ Goes(w, "throw")
  /\ UNCHANGED <<row, job, workerOnly>>

Finish(w, d) ==
  /\ \/ At(w, "return", d) /\ Delete(d)
     \/ At(w, "throw", d) /\ Release(w, d)
  /\ worker' = [worker EXCEPT ![w] = Idle] /\ cut' = cut \ {w}
  /\ UNCHANGED <<row, port, stray, killed, action, disturbed>>

\* The process stops, whatever it is at: its job stays locked.
WorkerStops(w, d) ==
  /\ worker[w].on = d /\ worker[w].at # "idle"
  /\ worker' = [worker EXCEPT ![w] = Idle] /\ cut' = cut \ {w}
  /\ killed' = killed \ {w}
  /\ job' = IF job[d].by = w THEN [job EXCEPT ![d].by = None] ELSE job
  /\ UNCHANGED <<row, port, stray, action, disturbed>>

\* Mutant: the locks of every process are released.
KillUnlocksAll(w) ==
  /\ w \notin killed /\ killed' = killed \cup {w}
  /\ job' = [e \in Deliveries |-> IF job[e].state = "locked" THEN Unlocked(e) ELSE job[e]]
  /\ cut' = IF worker[w].on = None THEN cut ELSE cut \cup {w}
  /\ disturbed' = disturbed \cup ({worker[w].on} \ {None})
  /\ UNCHANGED <<row, port, worker, stray, action>>

\* The drain fails, before or after its abort, or its deadline passes: the locks
\* are released, and what the worker is at goes on without.
Kill(w) ==
  /\ w \notin killed /\ killed' = killed \cup {w}
  /\ job' = [e \in Deliveries |-> IF job[e].by = w THEN Unlocked(e) ELSE job[e]]
  /\ cut' = IF worker[w].on = None THEN cut ELSE cut \cup {w}
  /\ disturbed' = disturbed \cup ({worker[w].on} \ {None})
  /\ UNCHANGED <<row, port, worker, stray, action>>

\* markRunningForRedelivery: every running record, of this process or another.
Sweep(w) ==
  /\ w \in killed /\ killed' = killed \ {w}
  /\ LET running == {d \in Deliveries : Status(d) = "running"}
     IN  /\ row' = [d \in Deliveries |->
                      IF d \in running THEN [row[d] EXCEPT !.status = "redelivery"] ELSE row[d]]
         /\ disturbed' = disturbed \cup running
  /\ UNCHANGED <<job, port, worker, stray, action, cut>>

\* The query fails, or the process stops before it.
SweepFails(w) ==
  /\ w \in killed /\ killed' = killed \ {w}
  /\ UNCHANGED <<row, job, port, worker, stray, action, cut, disturbed>>

-----------------------------------------------------------------------------
(* Operators: claim the action, call Graphile, complete the action.        *)

operatorOnly == <<port, worker, stray, killed, cut>>

\* ACTION_STATUS.
Allowed(kind, s) ==
  CASE kind = "retry"   -> s \in {"redelivery", "failed"}
    [] kind = "requeue" -> s \in {"redelivery", "failed", "queued"}
    [] kind = "cancel"  -> s \in {"pending", "queued", "redelivery", "failed"}

Becomes(a, s) == action' = [action EXCEPT ![a].at = s]

\* claimOperatorAction: the version is compared, and not changed.
ClaimAction(a, d, kind, version) ==
  /\ action[a].at = "idle"
  /\ Status(d) \notin {"absent", "pruned"}
  /\ row[d].version = version
  /\ action' = [action EXCEPT ![a] =
       [ at |-> IF ~Allowed(kind, Status(d)) THEN "over"
                ELSE IF kind = "cancel" THEN "cancel" ELSE "retry",
         on |-> d, attached |-> row[d].attached, version |-> version ]]
  /\ UNCHANGED <<row, job, operatorOnly, disturbed>>

\* Mutant: a delivery that was never enqueued is retried all the same.
RetryNotEnqueued(a) ==
  LET d == action[a].on
  IN  /\ action[a].attached => job[d].state = "ready"
      /\ \/ /\ action[a].at = "retry"
            /\ job' = [job EXCEPT ![d].attempts = 0]
            /\ Becomes(a, "retried")
         \/ /\ action[a].at = "cancel"
            /\ job' = IF action[a].attached THEN [job EXCEPT ![d] = NoJob] ELSE job
            /\ Becomes(a, "cancelled")
      /\ disturbed' = disturbed \cup {d}
      /\ UNCHANGED <<row, operatorOnly>>

\* rescheduleJobs, completeJobs: of a job that is there and not locked.
CallGraphile(a) ==
  LET d == action[a].on
  IN  /\ action[a].attached => job[d].state = "ready"
      /\ \/ /\ action[a].at = "retry" /\ action[a].attached
            /\ job' = [job EXCEPT ![d].attempts = 0]
            /\ Becomes(a, "retried")
         \/ /\ action[a].at = "cancel"
            /\ job' = IF action[a].attached THEN [job EXCEPT ![d] = NoJob] ELSE job
            /\ Becomes(a, "cancelled")
      /\ disturbed' = disturbed \cup {d}
      /\ UNCHANGED <<row, operatorOnly>>

\* There is no such job, it is locked, or its id is not known.
CallFails(a) ==
  /\ action[a].at \in {"retry", "cancel"}
  /\ IF action[a].attached THEN job[action[a].on].state # "ready" ELSE action[a].at = "retry"
  /\ Becomes(a, "over")
  /\ UNCHANGED <<row, job, operatorOnly, disturbed>>

Completed(a, d) ==
  row' = [row EXCEPT ![d].version = @ + 1, ![d].status =
            IF action[a].at = "cancelled" THEN "cancelled" ELSE "redelivery"]

\* Mutant: the version is not compared a second time.
CompleteActionUnfenced(a) ==
  LET d == action[a].on
  IN  /\ action[a].at \in {"retried", "cancelled"}
      /\ Completed(a, d) /\ Becomes(a, "succeeded")
      /\ UNCHANGED <<job, operatorOnly, disturbed>>

\* completeOperatorAction: whatever the status is by now, if the version still holds.
CompleteAction(a) ==
  LET d == action[a].on
  IN  /\ action[a].at \in {"retried", "cancelled"}
      /\ row[d].version = action[a].version
      /\ Completed(a, d) /\ Becomes(a, "succeeded")
      /\ UNCHANGED <<job, operatorOnly, disturbed>>

CompleteConflicts(a) ==
  /\ action[a].at \in {"retried", "cancelled"}
  /\ row[action[a].on].version # action[a].version
  /\ Becomes(a, "over")
  /\ UNCHANGED <<row, job, operatorOnly, disturbed>>

\* The process stops: the action stays pending for good.
OperatorStops(a) ==
  /\ action[a].at \in {"retry", "cancel", "retried", "cancelled"}
  /\ Becomes(a, "over")
  /\ UNCHANGED <<row, job, operatorOnly, disturbed>>

\* pruneTerminalBefore: the actions' foreign key keeps a row they refer to.
Prune(d) ==
  /\ Status(d) \in {"acknowledged", "failed"}
  /\ \A a \in Actions : action[a].on # d
  /\ Set(d, "pruned")
  /\ UNCHANGED <<job, operatorOnly, action, disturbed>>

-----------------------------------------------------------------------------
Init ==
  /\ row = [d \in Deliveries |-> [status |-> "absent", attached |-> FALSE, version |-> 0]]
  /\ job = [d \in Deliveries |-> NoJob]
  /\ port = [d \in Deliveries |-> "idle"]
  /\ worker = [w \in Workers |-> Idle]
  /\ stray = {}
  /\ killed = {}
  /\ action = [a \in Actions |-> [at |-> "idle", on |-> None, attached |-> FALSE, version |-> 0]]
  /\ cut = {}
  /\ disturbed = {}

Enqueues(d) == \/ CreatePending(d) \/ AddJob(d) \/ AddJobFails(d) \/ Attach(d) \/ AttachFails(d)
               \/ Compensate(d) \/ EnqueueFails(d) \/ PortStops(d)

Executes(w, d) == \/ Lock(w, d) \/ MarkRunning(w, d) \/ ClaimRefused(w, d)
                  \/ HandlerEnds(w, d) \/ HandlerAbandoned(w, d)
                  \/ Acknowledge(w, d) \/ AcknowledgeFails(w, d)
                  \/ RecordFailure(w, d) \/ RecordFailureFails(w, d)
                  \/ Finish(w, d) \/ WorkerStops(w, d)

Operates(a) == \/ \E d \in Deliveries, kind \in Kinds :
                    ClaimAction(a, d, kind, row[d].version)
               \/ CallGraphile(a) \/ CallFails(a) \/ CompleteAction(a) \/ CompleteConflicts(a)
               \/ OperatorStops(a)

Next ==
  \/ \E d \in Deliveries : Enqueues(d) \/ LockExpires(d) \/ StrayEnds(d) \/ Prune(d)
  \/ \E w \in Workers : Kill(w) \/ Sweep(w) \/ SweepFails(w)
                          \/ \E d \in Deliveries : Executes(w, d)
  \/ \E a \in Actions : Operates(a)

Spec == Init /\ [][Next]_vars

-----------------------------------------------------------------------------
(* Properties.                                                             *)

\* The tables and the processes hold values of their types, a process that does
\* something does it to a delivery, and a record that waits or runs has a job id.
JobTypeOK ==
  /\ row \in [Deliveries -> Row]
  /\ job \in [Deliveries -> Job]
  /\ port \in [Deliveries -> PortSteps]
  /\ worker \in [Workers -> Execution]
  /\ stray \in SUBSET Deliveries
  /\ killed \in SUBSET Workers
  /\ action \in [Actions -> Action]
  /\ cut \in SUBSET Workers
  /\ disturbed \in SUBSET Deliveries
  /\ \A w \in Workers : worker[w].on = None <=> worker[w].at = "idle"
  /\ \A a \in Actions : action[a].on = None <=> action[a].at = "idle"
  /\ \A d \in Deliveries :
       Status(d) \in {"queued", "running", "redelivery", "acknowledged"} => row[d].attached

\* Two executions of one delivery overlap, in their handlers or anywhere else,
\* only if a forced shutdown released the lock of one that went on.  (The body of
\* a handler that was given up on is no execution: it may run beside the next.)
OneExecution ==
  \A v, w \in Workers \ cut : worker[v].on = worker[w].on /\ worker[v].on # None => v = w

\* The registry's updates name a delivery and no attempt.  All the same, what
\* becomes of a running delivery is written by the one execution it has, which
\* holds its job: not by a handler that was given up on, nor by an earlier
\* execution that is answered late.  Its own enqueue may still fail it.
OutcomeIsOwn ==
  [][\A d \in Deliveries \ disturbed' :
       Status(d) = "running" /\ row'[d].status # "running" =>
         \/ port[d] = "failing"
         \/ \E w \in Workers :
              /\ worker[w].at \in {"ack", "retry", "final"} /\ worker[w].on = d
              /\ job[d].by = w
              /\ \A v \in Workers \ {w} : worker[v].on # d]_vars

\* A delivery that waits has a job that can carry it, whatever crashes, times
\* out or is answered late: only operators, forced shutdowns and an enqueue
\* that takes its job back may leave it without one.
NeverOrphaned ==
  \A d \in Deliveries \ disturbed :
    Status(d) \in {"queued", "redelivery"} => job[d].state # "none"

\* Of the actions claimed on one version of a record at most one succeeds, and
\* the version counts them.
ActionsSerialize ==
  /\ \A a, b \in Actions : a # b /\ action[a].at = "succeeded" /\ action[b].at = "succeeded"
                            /\ action[a].on = action[b].on => action[a].version # action[b].version
  /\ \A a \in Actions : action[a].at = "succeeded" => action[a].version < row[action[a].on].version

\* A cancelled delivery stays cancelled and no handler is started for it, not
\* by a late enqueue, a redelivery, a retry claimed before, or a forced shutdown.
CancelIsFinal ==
  [][\A d \in Deliveries : Status(d) = "cancelled" =>
       /\ row'[d].status = "cancelled"
       /\ \A w \in Workers : At(w, "handler", d)' => At(w, "handler", d)]_vars

\* A delivery that was acknowledged, failed for good or pruned is done: whatever
\* Graphile redelivers and however late answers come, it does not wait again and
\* no handler is started for it, unless an operator or a forced shutdown had it.
DoneIsDone ==
  [][\A d \in Deliveries \ disturbed :
       Status(d) \in Done =>
         /\ row'[d].status \in Done
         /\ \A w \in Workers : At(w, "handler", d)' => At(w, "handler", d)]_vars

\* An operator may retry or requeue a delivery that failed: its retry is not
\* refused, except for the moment while its job is locked.
FailedCanBeRetried ==
  [][\A a \in Actions :
       LET d == action[a].on
       IN  CallFails(a) /\ action[a].attached /\ Status(d) = "failed" =>
             d \in disturbed \/ job[d].state = "locked"]_vars

=============================================================================
