------------------------- MODULE JobDeliveryProofs -------------------------
(***************************************************************************)
(* Proofs about JobDelivery: for any number of deliveries, workers and     *)
(* operator actions, and any MaxAttempts, one execution at a time, nothing *)
(* orphaned, actions in a row, and final states that are final.            *)
(***************************************************************************)
EXTENDS JobDelivery, TLAPS

-----------------------------------------------------------------------------
(* The inductive invariant.                                                *)

Typed ==
  /\ row \in [Deliveries -> Row]
  /\ job \in [Deliveries -> Job]
  /\ port \in [Deliveries -> PortSteps]
  /\ worker \in [Workers -> Execution]
  /\ stray \in SUBSET Deliveries
  /\ killed \in SUBSET Workers
  /\ cut \in SUBSET Workers
  /\ action \in [Actions -> Action]
  /\ disturbed \in SUBSET Deliveries

\* A record that waits or runs has a job id, and before the job was added there
\* is none and nobody executes it.
RecordInv(d) ==
  /\ Status(d) \in {"queued", "running", "redelivery", "acknowledged"} => row[d].attached
  /\ port[d] \in {"idle", "created"} =>
       job[d] = NoJob /\ \A w \in Workers : worker[w].on # d
  /\ d \notin disturbed
     /\ (Status(d) \in {"queued", "redelivery"} \/ (port[d] = "added" /\ Status(d) = "pending"))
       => job[d].state # "none"

\* A lock is held by the worker that executes the delivery.
LockInv(d) ==
  \A w \in Workers : job[d].by = w => job[d].state = "locked" /\ worker[w].on = d

\* What holds of worker w, which executes d.  Only a worker that was cut off, or
\* whose job was completed under it, is without its lock.
ExecutionInv(w, d) ==
  /\ worker[w].at # "idle"
  /\ worker[w].at \in {"handler", "ack", "retry", "final"} => row[d].attached
  /\ w \notin cut => job[d].state = "none" \/ job[d].by = w
  /\ d \notin disturbed =>
       /\ job[d].by = w
       /\ worker[w].at \in {"handler", "ack"} => Status(d) \in {"running", "failed", "pruned"}
       /\ worker[w].at \in {"retry", "final"} => Status(d) \in Done \cup {"running"}
       /\ worker[w].at = "return" => Status(d) \in Done

WorkerInv(w) ==
  IF worker[w].on = None THEN worker[w].at = "idle" ELSE ExecutionInv(w, worker[w].on)

\* An action under way or over, of delivery d.
ActionInv(a, d) ==
  /\ action[a].at # "idle"
  /\ action[a].version <= row[d].version
  /\ action[a].attached => row[d].attached
  /\ action[a].at = "retried" => action[a].attached
  /\ action[a].at \in {"retried", "cancelled"} => d \in disturbed
  /\ action[a].at = "succeeded" => action[a].version < row[d].version
  /\ action[a].at \in {"retry", "cancel", "retried", "cancelled"} /\ Status(d) = "cancelled" =>
       action[a].version < row[d].version

OperatorInv(a) ==
  IF action[a].on = None THEN action[a].at = "idle" ELSE ActionInv(a, action[a].on)

Serial ==
  \A a, b \in Actions :
    a # b /\ action[a].at = "succeeded" /\ action[b].at = "succeeded"
      /\ action[a].on = action[b].on => action[a].version # action[b].version

JobInv ==
  /\ Typed
  /\ \A d \in Deliveries : RecordInv(d) /\ LockInv(d)
  /\ \A w \in Workers : WorkerInv(w)
  /\ OneExecution
  /\ \A a \in Actions : OperatorInv(a)
  /\ Serial

-----------------------------------------------------------------------------
(* Updates of a field: what they keep.                                     *)

LEMMA SetStatus ==
  ASSUME NEW r \in Row, NEW t \in Statuses
  PROVE  LET s == [r EXCEPT !.status = t]
         IN  s \in Row /\ s.status = t /\ s.attached = r.attached /\ s.version = r.version
  BY DEF Row

LEMMA SetAt ==
  ASSUME NEW x \in Execution, NEW s \in WorkerSteps
  PROVE  LET y == [x EXCEPT !.at = s]
         IN  y \in Execution /\ y.at = s /\ y.on = x.on /\ y.attempt = x.attempt
  BY DEF Execution

LEMMA SetState ==
  ASSUME NEW r \in Job, NEW t \in {"none", "ready", "locked"}
  PROVE  LET s == [r EXCEPT !.state = t] IN s \in Job /\ s.state = t /\ s.by = r.by
  BY DEF Job

LEMMA UnlockedIs ==
  ASSUME NEW d \in Deliveries, job[d] \in Job
  PROVE  Unlocked(d) \in Job /\ Unlocked(d).state = "ready" /\ Unlocked(d).by = None
  <1> DEFINE r == [job[d] EXCEPT !.state = "ready"]
  <1>1. r \in Job /\ r.state = "ready"
    BY SetState
  <1>2. Unlocked(d) = [r EXCEPT !.by = None]
    BY DEF Unlocked
  <1> HIDE DEF r
  <1> QED
    BY <1>1, <1>2 DEF Job

LEMMA NoJobIs == NoJob \in Job /\ NoJob.state = "none" /\ NoJob.by = None
  BY JobAssumption DEF NoJob, Job

LEMMA Counted ==
  ASSUME NEW r \in Row, NEW t \in Statuses
  PROVE  [r EXCEPT !.version = @ + 1, !.status = t] \in Row
  <1> DEFINE s == [r EXCEPT !.version = @ + 1]
  <1>1. s \in Row
    BY DEF Row
  <1>2. [r EXCEPT !.version = @ + 1, !.status = t] = [s EXCEPT !.status = t]
    OBVIOUS
  <1> HIDE DEF s
  <1> QED
    BY <1>1, <1>2, SetStatus

-----------------------------------------------------------------------------
(* What a step keeps by leaving variables alone.                           *)

LEMMA Unchanged ==
  ASSUME JobInv
  PROVE  /\ UNCHANGED <<job, worker>> => \A e \in Deliveries : LockInv(e)'
         /\ UNCHANGED <<row, job, worker, cut, disturbed>> => \A v \in Workers : WorkerInv(v)'
         /\ UNCHANGED <<worker, cut>> => OneExecution'
         /\ UNCHANGED <<row, action, disturbed>> => \A b \in Actions : OperatorInv(b)'
         /\ UNCHANGED action => Serial'
         /\ UNCHANGED <<row, job, port, worker, disturbed>> => \A e \in Deliveries : RecordInv(e)'
  BY DEF JobInv, LockInv, WorkerInv, ExecutionInv, OneExecution, OperatorInv, ActionInv, Serial,
         RecordInv, Status

-----------------------------------------------------------------------------
(* The port.                                                               *)

LEMMA CreatePendingKeeps ==
  ASSUME JobInv, NEW d \in Deliveries, CreatePending(d)
  PROVE  JobInv'
  <1> USE JobAssumption DEF CreatePending, Set, Status, PortStep, portOnly
  <1>1. Typed'
    BY DEF JobInv, Typed, Row, Statuses, PortSteps
  <1>2. ASSUME NEW e \in Deliveries PROVE RecordInv(e)'
    BY DEF JobInv, RecordInv
  <1>3. ASSUME NEW v \in Workers PROVE WorkerInv(v)'
    BY DEF JobInv, WorkerInv, ExecutionInv, Typed, Row, Statuses, PortSteps, LockInv, RecordInv
  <1>4. ASSUME NEW b \in Actions PROVE OperatorInv(b)'
    BY DEF JobInv, OperatorInv, ActionInv
  <1> QED
    BY <1>1, <1>2, <1>3, <1>4, Unchanged DEF JobInv

LEMMA AddJobKeeps ==
  ASSUME JobInv, NEW d \in Deliveries, AddJob(d)
  PROVE  JobInv'
  <1> USE JobAssumption DEF AddJob, PortStep, portOnly, Status
  <1>1. Typed'
    <2>1. job' \in [Deliveries -> Job]
      BY SetState DEF JobInv, Typed
    <2> QED
      BY <2>1 DEF JobInv, Typed, PortSteps
  <1>2. ASSUME NEW e \in Deliveries PROVE RecordInv(e)'
    BY DEF JobInv, RecordInv, Typed
  <1>3. ASSUME NEW e \in Deliveries PROVE LockInv(e)'
    <2>1. /\ job[d] = NoJob /\ job \in [Deliveries -> Job]
          /\ \A w \in Workers : worker[w].on # d
      BY DEF JobInv, Typed, RecordInv
    <2>2. job'[d].by = None
      BY <2>1, NoJobIs, SetState
    <2> QED
      BY <2>1, <2>2 DEF JobInv, LockInv
  <1>4. ASSUME NEW v \in Workers PROVE WorkerInv(v)'
    BY DEF JobInv, WorkerInv, ExecutionInv, Typed, Job, PortSteps, LockInv, RecordInv
  <1> QED
    BY <1>1, <1>2, <1>3, <1>4, Unchanged DEF JobInv

LEMMA AddJobFailsKeeps ==
  ASSUME JobInv, NEW d \in Deliveries, AddJobFails(d)
  PROVE  JobInv'
  <1> USE JobAssumption DEF AddJobFails, PortStep, portOnly, Status
  <1>1. Typed'
    BY DEF JobInv, Typed, PortSteps
  <1>2. ASSUME NEW e \in Deliveries PROVE RecordInv(e)'
    BY DEF JobInv, RecordInv
  <1> QED
    BY <1>1, <1>2, Unchanged DEF JobInv

LEMMA AttachKeeps ==
  ASSUME JobInv, NEW d \in Deliveries, Attach(d)
  PROVE  JobInv'
  <1> USE JobAssumption DEF Attach, Status, PortStep, portOnly
  <1>1. Typed'
    <2>1. row \in [Deliveries -> Row]
      BY DEF JobInv, Typed
    <2>2. [row[d] EXCEPT !.status = "queued", !.attached = TRUE] \in Row
      BY <2>1 DEF Row, Statuses
    <2>3. row' = [row EXCEPT ![d] = [row[d] EXCEPT !.status = "queued", !.attached = TRUE]]
      OBVIOUS
    <2>4. row' \in [Deliveries -> Row]
      BY <2>1, <2>2, <2>3
    <2> QED
      BY <2>4 DEF JobInv, Typed, PortSteps
  <1>2. ASSUME NEW e \in Deliveries PROVE RecordInv(e)'
    BY DEF JobInv, RecordInv, Typed
  <1>3. ASSUME NEW v \in Workers PROVE WorkerInv(v)'
    BY DEF JobInv, WorkerInv, ExecutionInv, Typed, LockInv, RecordInv, Done, OperatorInv,
           ActionInv, Row, Job, Execution, Action
  <1>4. ASSUME NEW b \in Actions PROVE OperatorInv(b)'
    BY DEF JobInv, OperatorInv, ActionInv, Typed, RecordInv, Row, Job, Execution, Action
  <1> QED
    BY <1>1, <1>2, <1>3, <1>4, Unchanged DEF JobInv

LEMMA AttachFailsKeeps ==
  ASSUME JobInv, NEW d \in Deliveries, AttachFails(d)
  PROVE  JobInv'
  <1> USE JobAssumption DEF AttachFails, PortStep, portOnly, Status
  <1>1. Typed'
    BY DEF JobInv, Typed, PortSteps
  <1>2. ASSUME NEW e \in Deliveries PROVE RecordInv(e)'
    BY DEF JobInv, RecordInv
  <1> QED
    BY <1>1, <1>2, Unchanged DEF JobInv

LEMMA CompensateKeeps ==
  ASSUME JobInv, NEW d \in Deliveries, Compensate(d)
  PROVE  JobInv'
  <1> USE JobAssumption DEF Compensate, PortStep, NoJob, Status
  <1>1. Typed'
    BY DEF JobInv, Typed, Job, PortSteps
  <1>2. ASSUME NEW e \in Deliveries PROVE RecordInv(e)'
    BY DEF JobInv, RecordInv, Typed
  <1>3. ASSUME NEW e \in Deliveries PROVE LockInv(e)'
    BY DEF JobInv, LockInv, Typed
  <1>4. ASSUME NEW v \in Workers PROVE WorkerInv(v)'
    BY DEF JobInv, WorkerInv, ExecutionInv, Typed, LockInv, RecordInv, Row, Job, Execution, Action
  <1>5. ASSUME NEW b \in Actions PROVE OperatorInv(b)'
    BY DEF JobInv, OperatorInv, ActionInv
  <1> QED
    BY <1>1, <1>2, <1>3, <1>4, <1>5, Unchanged DEF JobInv

LEMMA EnqueueFailsKeeps ==
  ASSUME JobInv, NEW d \in Deliveries, EnqueueFails(d)
  PROVE  JobInv'
  <1> USE JobAssumption DEF EnqueueFails, MarkFailed, Status, PortStep, portOnly
  <1>1. Typed'
    BY DEF JobInv, Typed, Row, Statuses, PortSteps
  <1>2. ASSUME NEW e \in Deliveries PROVE RecordInv(e)'
    BY DEF JobInv, RecordInv
  <1>3. ASSUME NEW v \in Workers PROVE WorkerInv(v)'
    BY DEF JobInv, WorkerInv, ExecutionInv, Typed, Row, Statuses, PortSteps, LockInv, RecordInv,
           Done, OperatorInv, ActionInv
  <1>4. ASSUME NEW b \in Actions PROVE OperatorInv(b)'
    BY DEF JobInv, OperatorInv, ActionInv
  <1> QED
    BY <1>1, <1>2, <1>3, <1>4, Unchanged DEF JobInv

LEMMA PortStopsKeeps ==
  ASSUME JobInv, NEW d \in Deliveries, PortStops(d)
  PROVE  JobInv'
  <1> USE JobAssumption DEF PortStops, PortStep, portOnly, Status
  <1>1. Typed'
    BY DEF JobInv, Typed, PortSteps
  <1>2. ASSUME NEW e \in Deliveries PROVE RecordInv(e)'
    BY DEF JobInv, RecordInv, Typed
  <1> QED
    BY <1>1, <1>2, Unchanged DEF JobInv

LEMMA LockExpiresKeeps ==
  ASSUME JobInv, NEW d \in Deliveries, LockExpires(d)
  PROVE  JobInv'
  <1> USE JobAssumption DEF LockExpires, Status
  <1>1. Typed'
    BY DEF JobInv, Typed, Job
  <1>2. ASSUME NEW e \in Deliveries PROVE RecordInv(e)'
    BY NoJobIs DEF JobInv, RecordInv, Typed, Job
  <1>3. ASSUME NEW e \in Deliveries PROVE LockInv(e)'
    BY DEF JobInv, LockInv
  <1>4. ASSUME NEW v \in Workers PROVE WorkerInv(v)'
    BY DEF JobInv, WorkerInv, ExecutionInv
  <1> QED
    BY <1>1, <1>2, <1>3, <1>4, Unchanged DEF JobInv

LEMMA PruneKeeps ==
  ASSUME JobInv, NEW d \in Deliveries, Prune(d)
  PROVE  JobInv'
  <1> USE JobAssumption DEF Prune, Set, Status, operatorOnly
  <1>1. Typed'
    BY DEF JobInv, Typed, Row, Statuses
  <1>2. ASSUME NEW e \in Deliveries PROVE RecordInv(e)'
    BY DEF JobInv, RecordInv
  <1>3. ASSUME NEW v \in Workers PROVE WorkerInv(v)'
    BY DEF JobInv, WorkerInv, ExecutionInv, Typed, Row, Statuses, LockInv, RecordInv, Done,
           OperatorInv, ActionInv
  <1>4. ASSUME NEW b \in Actions PROVE OperatorInv(b)'
    BY DEF JobInv, OperatorInv, ActionInv
  <1> QED
    BY <1>1, <1>2, <1>3, <1>4, Unchanged DEF JobInv

-----------------------------------------------------------------------------
(* Workers.                                                                *)

LEMMA LockKeeps ==
  ASSUME JobInv, NEW w \in Workers, NEW d \in Deliveries, Lock(w, d)
  PROVE  JobInv'
  <1> USE JobAssumption DEF Lock, workerOnly, Status
  <1>1. Typed'
    BY DEF JobInv, Typed, Job, Execution, WorkerSteps
  <1>2. ASSUME NEW e \in Deliveries PROVE RecordInv(e)'
    BY NoJobIs DEF JobInv, RecordInv, Typed, Job, Execution
  <1>3. ASSUME NEW e \in Deliveries PROVE LockInv(e)'
    BY DEF JobInv, LockInv, WorkerInv, ExecutionInv, Typed, Row, Job, Execution, Action, Statuses,
           WorkerSteps, PortSteps, ActionSteps
  <1>4. ASSUME NEW v \in Workers PROVE WorkerInv(v)'
    BY DEF JobInv, WorkerInv, ExecutionInv, Typed, Job, Execution, WorkerSteps, LockInv, RecordInv
  <1>5. OneExecution'
    BY DEF JobInv, OneExecution, Typed, Job, Execution, WorkerSteps, WorkerInv, ExecutionInv, LockInv
  <1> QED
    BY <1>1, <1>2, <1>3, <1>4, <1>5, Unchanged DEF JobInv

\* A step of the execution w has of d, which may change the status of d.
LEMMA Moves ==
  ASSUME JobInv, NEW w \in Workers, NEW d \in Deliveries,
         worker[w].on = d,
         NEW s \in {"handler", "ack", "retry", "final", "return", "throw"}, Goes(w, s),
         NEW t \in Statuses, Set(d, t),
         UNCHANGED <<job, workerOnly>>,
         t \in {"queued", "running", "redelivery", "acknowledged"} => row[d].attached,
         t \in {"pending", "cancelled"} => t = Status(d),
         s \in {"handler", "ack", "retry", "final"} => row[d].attached,
         d \notin disturbed =>
           /\ s \in {"handler", "ack"} => t \in {"running", "failed", "pruned"}
           /\ s \in {"retry", "final"} => t \in Done \cup {"running"}
           /\ s = "return" => t \in Done
  PROVE  JobInv'
  <1> USE JobAssumption DEF Status, workerOnly
  <1>1. /\ worker \in [Workers -> Execution] /\ row \in [Deliveries -> Row]
        /\ job \in [Deliveries -> Job]
    BY DEF JobInv, Typed
  <1>2. /\ worker' \in [Workers -> Execution]
        /\ worker'[w].at = s
        /\ \A v \in Workers : worker'[v].on = worker[v].on
        /\ \A v \in Workers \ {w} : worker'[v] = worker[v]
    <2>1. worker' = [worker EXCEPT ![w] = [worker[w] EXCEPT !.at = s]] /\ s \in WorkerSteps
      BY DEF Goes, WorkerSteps
    <2> QED
      BY <1>1, <2>1, SetAt
  <1>3. /\ row' \in [Deliveries -> Row]
        /\ row'[d].status = t
        /\ \A e \in Deliveries : row'[e].attached = row[e].attached /\ row'[e].version = row[e].version
        /\ \A e \in Deliveries \ {d} : row'[e] = row[e]
    BY <1>1, SetStatus DEF Set
  <1>4. Typed'
    BY <1>2, <1>3 DEF JobInv, Typed
  <1>5. ASSUME NEW e \in Deliveries PROVE LockInv(e)'
    BY <1>2 DEF JobInv, LockInv
  <1>6. worker[w].at # "idle" /\ (d \notin disturbed => job[d].state = "locked" /\ job[d].by = w)
    BY <1>1 DEF JobInv, WorkerInv, ExecutionInv, LockInv
  <1>7. ASSUME NEW e \in Deliveries PROVE RecordInv(e)'
    BY <1>2, <1>3, <1>6 DEF JobInv, RecordInv
  <1>8. ASSUME NEW v \in Workers PROVE WorkerInv(v)'
    <2>1. CASE v = w
      BY <1>1, <1>2, <1>3, <1>6, <2>1 DEF JobInv, WorkerInv, ExecutionInv
    <2>2. CASE v # w
      BY <1>1, <1>2, <1>3, <1>6, <2>2 DEF JobInv, WorkerInv, ExecutionInv, Execution
    <2> QED
      BY <2>1, <2>2
  <1>9. OneExecution'
    BY <1>1, <1>2 DEF JobInv, OneExecution
  <1>10. ASSUME NEW b \in Actions PROVE OperatorInv(b)'
    BY <1>1, <1>3 DEF JobInv, Typed, OperatorInv, ActionInv, Action
  <1>11. Serial'
    BY DEF JobInv, Serial
  <1> QED
    BY <1>4, <1>5, <1>7, <1>8, <1>9, <1>10, <1>11 DEF JobInv

\* The same for a step that leaves the records alone.
LEMMA MovesOn ==
  ASSUME JobInv, NEW w \in Workers, NEW d \in Deliveries,
         worker[w].on = d, worker[w].at # "idle",
         NEW s \in {"ack", "retry", "final", "throw"}, Goes(w, s),
         UNCHANGED <<row, job, workerOnly>>,
         s # "throw" => worker[w].at \in {"handler", "ack"},
         s = "ack" => worker[w].at = "handler"
  PROVE  JobInv'
  <1>1. row \in [Deliveries -> Row] /\ Status(d) \in Statuses
    BY DEF JobInv, Typed, Row, Status
  <1>2. Set(d, Status(d))
    BY <1>1 DEF Row, Status, Set
  <1>3. /\ Status(d) \in {"queued", "running", "redelivery", "acknowledged"} => row[d].attached
        /\ s # "throw" => row[d].attached
        /\ d \notin disturbed /\ s # "throw" => Status(d) \in {"running", "failed", "pruned"}
    BY JobAssumption DEF JobInv, RecordInv, WorkerInv, ExecutionInv
  <1>4. s \in {"retry", "final"} /\ d \notin disturbed => Status(d) \in Done \cup {"running"}
    BY <1>3 DEF Done
  <1> QED
    BY <1>1, <1>2, <1>3, <1>4, Moves

LEMMA FailStepIs ==
  ASSUME NEW w \in Workers PROVE FailStep(w) \in {"retry", "final"}
  BY DEF FailStep

LEMMA MarkRunningKeeps ==
  ASSUME JobInv, NEW w \in Workers, NEW d \in Deliveries, MarkRunning(w, d)
  PROVE  JobInv'
  <1>1. /\ Set(d, "running") /\ row[d].attached
        /\ worker[w].on = d /\ UNCHANGED <<job, workerOnly>>
    BY DEF MarkRunning, At
  <1>2. PICK s \in {"handler", "retry", "final", "throw"} : Goes(w, s)
    BY FailStepIs DEF MarkRunning
  <1> QED
    BY <1>1, <1>2, Moves DEF Statuses, Done

LEMMA ClaimRefusedKeeps ==
  ASSUME JobInv, NEW w \in Workers, NEW d \in Deliveries, ClaimRefused(w, d)
  PROVE  JobInv'
  BY MovesOn DEF ClaimRefused, At

LEMMA HandlerEndsKeeps ==
  ASSUME JobInv, NEW w \in Workers, NEW d \in Deliveries, HandlerEnds(w, d)
  PROVE  JobInv'
  <1>1. PICK s \in {"ack", "retry", "final"} : Goes(w, s)
    BY FailStepIs DEF HandlerEnds
  <1> QED
    BY <1>1, MovesOn DEF HandlerEnds, At

\* The bodies that nobody awaits are in the way of nothing.
LEMMA HandlerAbandonedKeeps ==
  ASSUME JobInv, NEW w \in Workers, NEW d \in Deliveries, HandlerAbandoned(w, d)
  PROVE  JobInv'
  <1>1. /\ worker[w].on = d /\ worker[w].at = "handler"
        /\ UNCHANGED <<row, job, port, killed, action, cut, disturbed>>
    BY DEF HandlerAbandoned, At
  <1>2. PICK s \in {"retry", "final"} : Goes(w, s)
    BY FailStepIs DEF HandlerAbandoned
  <1>3. worker \in [Workers -> Execution]
    BY DEF JobInv, Typed
  <1>4. /\ worker' \in [Workers -> Execution]
        /\ worker'[w].at = s
        /\ \A v \in Workers : worker'[v].on = worker[v].on
        /\ \A v \in Workers \ {w} : worker'[v] = worker[v]
    <2>1. worker' = [worker EXCEPT ![w] = [worker[w] EXCEPT !.at = s]] /\ s \in WorkerSteps
      BY <1>2 DEF Goes, WorkerSteps
    <2> QED
      BY <1>3, <2>1, SetAt
  <1>5. stray' \in SUBSET Deliveries
    BY DEF HandlerAbandoned, JobInv, Typed
  <1>6. Typed'
    BY <1>1, <1>4, <1>5 DEF JobInv, Typed
  <1>7. ASSUME NEW e \in Deliveries PROVE RecordInv(e)' /\ LockInv(e)'
    BY <1>1, <1>4 DEF JobInv, RecordInv, LockInv, Status
  <1>8. ASSUME NEW v \in Workers PROVE WorkerInv(v)'
    <2>1. CASE v = w
      BY <1>1, <1>4, <2>1 DEF JobInv, WorkerInv, ExecutionInv, Status, Done
    <2>2. CASE v # w
      BY <1>1, <1>4, <2>2 DEF JobInv, WorkerInv, ExecutionInv, Status
    <2> QED
      BY <2>1, <2>2
  <1>9. OneExecution'
    BY <1>1, <1>4 DEF JobInv, OneExecution
  <1> QED
    BY <1>1, <1>6, <1>7, <1>8, <1>9, Unchanged DEF JobInv

LEMMA StrayEndsKeeps ==
  ASSUME JobInv, NEW d \in Deliveries, StrayEnds(d)
  PROVE  JobInv'
  <1>1. Typed'
    BY DEF StrayEnds, JobInv, Typed
  <1> QED
    BY <1>1, Unchanged DEF StrayEnds, JobInv

LEMMA AcknowledgeKeeps ==
  ASSUME JobInv, NEW w \in Workers, NEW d \in Deliveries, Acknowledge(w, d)
  PROVE  JobInv'
  <1>1. /\ Set(d, "acknowledged")
        /\ worker[w].on = d /\ worker[w].at = "ack" /\ UNCHANGED <<job, workerOnly>>
    BY DEF Acknowledge, At
  <1>2. PICK s \in {"return", "retry", "final"} : Goes(w, s)
    BY FailStepIs DEF Acknowledge
  <1>3. row[d].attached
    BY <1>1, JobAssumption DEF JobInv, WorkerInv, ExecutionInv
  <1> QED
    BY <1>1, <1>2, <1>3, Moves DEF Statuses, Done

LEMMA AcknowledgeFailsKeeps ==
  ASSUME JobInv, NEW w \in Workers, NEW d \in Deliveries, AcknowledgeFails(w, d)
  PROVE  JobInv'
  <1>1. PICK s \in {"retry", "final"} : Goes(w, s)
    BY FailStepIs DEF AcknowledgeFails
  <1> QED
    BY <1>1, MovesOn DEF AcknowledgeFails, At

LEMMA RecordFailureKeeps ==
  ASSUME JobInv, NEW w \in Workers, NEW d \in Deliveries, RecordFailure(w, d)
  PROVE  JobInv'
  <1>1. /\ worker[w].on = d /\ worker[w].at \in {"retry", "final"}
        /\ UNCHANGED <<job, workerOnly>>
    BY DEF RecordFailure, At
  <1>2. row[d].attached /\ (d \notin disturbed => Status(d) \in Done \cup {"running"})
    BY <1>1, JobAssumption DEF JobInv, WorkerInv, ExecutionInv
  <1>3. row \in [Deliveries -> Row] /\ Status(d) \in Statuses
    BY DEF JobInv, Typed, Row, Status
  <1>4. CASE Status(d) \in {"pending", "queued", "running"}
    <2>1. PICK t \in {"redelivery", "failed"}, s \in {"return", "throw"} :
            /\ Set(d, t) /\ Goes(w, s)
            /\ s = "return" => t = "failed"
      BY <1>4 DEF RecordFailure, MarkFailed, Set
    <2> QED
      BY <1>1, <1>2, <2>1, Moves DEF Statuses, Done
  <1>5. CASE Status(d) \notin {"pending", "queued", "running"}
    <2>1. PICK s \in {"return", "throw"} : Goes(w, s)
      BY DEF RecordFailure
    <2>2. row' = row
      BY <1>5 DEF RecordFailure, MarkFailed
    <2>3. Set(d, Status(d))
      BY <1>3, <2>2 DEF Row, Status, Set
    <2> QED
      BY <1>1, <1>2, <1>3, <1>5, <2>1, <2>3, Moves DEF Done
  <1> QED
    BY <1>4, <1>5

LEMMA RecordFailureFailsKeeps ==
  ASSUME JobInv, NEW w \in Workers, NEW d \in Deliveries, RecordFailureFails(w, d)
  PROVE  JobInv'
  BY MovesOn DEF RecordFailureFails, At

LEMMA FinishKeeps ==
  ASSUME JobInv, NEW w \in Workers, NEW d \in Deliveries, Finish(w, d)
  PROVE  JobInv'
  <1> USE JobAssumption DEF Finish, At, Delete, Release, Idle, Status, workerOnly
  <1>1. Typed'
    <2>1. job \in [Deliveries -> Job] /\ worker \in [Workers -> Execution]
      BY DEF JobInv, Typed
    <2>2. NoJob \in Job /\ Unlocked(d) \in Job
      BY <2>1, NoJobIs, UnlockedIs
    <2>3. job' = [job EXCEPT ![d] = NoJob] \/ job' = [job EXCEPT ![d] = Unlocked(d)] \/ job' = job
      OBVIOUS
    <2>4. worker' \in [Workers -> Execution]
      BY <2>1 DEF Execution, WorkerSteps
    <2> QED
      BY <2>1, <2>2, <2>3, <2>4 DEF JobInv, Typed
  <1>2. ASSUME NEW e \in Deliveries PROVE RecordInv(e)'
    <2>1. /\ job \in [Deliveries -> Job] /\ worker \in [Workers -> Execution]
          /\ worker' = [worker EXCEPT ![w] = Idle] /\ worker[w].on = d
      BY DEF JobInv, Typed
    <2>2. \A x \in Deliveries \ {d} : job'[x] = job[x]
      BY <2>1
    <2>3. CASE e = d
      <3>1. port[d] \notin {"idle", "created"}
        BY <2>1 DEF JobInv, RecordInv
      <3>2. d \notin disturbed /\ job'[d].state = "none" => Status(d) \in Done
        <4>1. CASE worker[w].at = "return"
          BY <2>1, <4>1 DEF JobInv, WorkerInv, ExecutionInv
        <4>2. CASE worker[w].at = "throw" /\ d \notin disturbed
          <5>1. job[d].by = w
            BY <2>1, <4>2 DEF JobInv, WorkerInv, ExecutionInv
          <5>2. job'[d].state = "ready"
            BY <2>1, <4>2, <5>1, UnlockedIs
          <5> QED
            BY <5>2
        <4> QED
          BY <4>1, <4>2
      <3> QED
        BY <2>1, <2>3, <3>1, <3>2 DEF JobInv, RecordInv, Done
    <2>4. CASE e # d
      BY <2>1, <2>2, <2>4 DEF JobInv, RecordInv
    <2> QED
      BY <2>3, <2>4
  <1>3. ASSUME NEW e \in Deliveries PROVE LockInv(e)'
    <2>1. /\ job \in [Deliveries -> Job] /\ worker \in [Workers -> Execution]
          /\ worker' = [worker EXCEPT ![w] = Idle] /\ worker[w].on = d
      BY DEF JobInv, Typed
    <2>2. \A x \in Deliveries \ {d} : job'[x] = job[x]
      BY <2>1
    <2>3. job'[d].by # None => job'[d] = job[d] /\ job[d].by # w
      BY <2>1, NoJobIs, UnlockedIs
    <2>4. ASSUME NEW v \in Workers, job'[e].by = v
          PROVE  job'[e].state = "locked" /\ worker'[v].on = e
      <3>1. job'[e] = job[e] /\ (e = d => v # w)
        BY <2>2, <2>3, <2>4
      <3>2. job[e].state = "locked" /\ worker[v].on = e
        BY <2>4, <3>1 DEF JobInv, LockInv
      <3> QED
        BY <2>1, <3>1, <3>2
    <2> QED
      BY <2>4 DEF LockInv
  <1>4. ASSUME NEW v \in Workers PROVE WorkerInv(v)'
    <2>1. /\ job \in [Deliveries -> Job] /\ worker \in [Workers -> Execution]
          /\ worker' = [worker EXCEPT ![w] = Idle] /\ worker[w].on = d
      BY DEF JobInv, Typed
    <2>2. \A x \in Deliveries \ {d} : job'[x] = job[x]
      BY <2>1
    <2>3. CASE v = w
      BY <2>1, <2>3 DEF WorkerInv
    <2>4. CASE v # w /\ worker[v].on = d
      <3>1. d \in disturbed
        BY <2>1, <2>4, JobAssumption DEF JobInv, WorkerInv, ExecutionInv
      <3>2. v \notin cut => job[d].state = "none" \/ job[d].by = v
        BY <2>4, JobAssumption DEF JobInv, WorkerInv, ExecutionInv
      <3>3. job[d].by = w => job[d].state = "locked"
        BY DEF JobInv, LockInv
      <3>4. job'[d] = NoJob \/ job'[d] = job[d] \/ (job'[d] = Unlocked(d) /\ job[d].by = w)
        BY <2>1
      <3>5. v \notin cut' => job'[d].state = "none" \/ job'[d].by = v
        BY <2>4, <3>2, <3>3, <3>4, NoJobIs
      <3> QED
        BY <2>1, <2>4, <3>1, <3>5, JobAssumption DEF JobInv, WorkerInv, ExecutionInv
    <2>5. CASE v # w /\ worker[v].on # d
      BY <2>1, <2>2, <2>5 DEF JobInv, WorkerInv, ExecutionInv, Execution
    <2> QED
      BY <2>3, <2>4, <2>5
  <1>5. OneExecution'
    <2> SUFFICES ASSUME NEW u \in Workers \ cut', NEW v \in Workers \ cut',
                        worker'[u].on = worker'[v].on, worker'[u].on # None
                 PROVE  u = v
      BY DEF OneExecution
    <2>1. worker \in [Workers -> Execution]
      BY DEF JobInv, Typed
    <2>2. u # w /\ v # w
      BY <2>1
    <2>3. u \notin cut /\ v \notin cut /\ worker'[u] = worker[u] /\ worker'[v] = worker[v]
      BY <2>1, <2>2
    <2> QED
      BY <2>3 DEF JobInv, OneExecution
  <1> QED
    BY <1>1, <1>2, <1>3, <1>4, <1>5, Unchanged DEF JobInv

LEMMA WorkerStopsKeeps ==
  ASSUME JobInv, NEW w \in Workers, NEW d \in Deliveries, WorkerStops(w, d)
  PROVE  JobInv'
  <1> USE JobAssumption DEF WorkerStops, workerOnly, Idle, Status
  <1>1. Typed'
    <2>1. job' \in [Deliveries -> Job]
      BY DEF JobInv, Typed, Job
    <2>2. worker' \in [Workers -> Execution]
      BY DEF JobInv, Typed, Execution, WorkerSteps
    <2> QED
      BY <2>1, <2>2 DEF JobInv, Typed
  <1>2. ASSUME NEW e \in Deliveries PROVE RecordInv(e)'
    BY DEF JobInv, RecordInv
  <1>3. ASSUME NEW e \in Deliveries PROVE LockInv(e)'
    BY DEF JobInv, LockInv, Typed
  <1>4. ASSUME NEW v \in Workers PROVE WorkerInv(v)'
    BY DEF JobInv, WorkerInv, ExecutionInv, Typed
  <1>5. OneExecution'
    <2> SUFFICES ASSUME NEW u \in Workers \ cut', NEW v \in Workers \ cut',
                        worker'[u].on = worker'[v].on, worker'[u].on # None
                 PROVE  u = v
      BY DEF OneExecution
    <2>1. worker \in [Workers -> Execution]
      BY DEF JobInv, Typed
    <2>2. u # w /\ v # w
      BY <2>1
    <2>3. u \notin cut /\ v \notin cut /\ worker'[u] = worker[u] /\ worker'[v] = worker[v]
      BY <2>1, <2>2
    <2> QED
      BY <2>3 DEF JobInv, OneExecution
  <1> QED
    BY <1>1, <1>2, <1>3, <1>4, <1>5, Unchanged DEF JobInv

\* A forced shutdown unlocks the job of the worker and marks worker and delivery.
LEMMA KillIs ==
  ASSUME JobInv, NEW w \in Workers, Kill(w)
  PROVE  /\ job \in [Deliveries -> Job] /\ worker \in [Workers -> Execution]
         /\ row' = row /\ port' = port /\ worker' = worker /\ disturbed \subseteq disturbed'
         /\ cut \subseteq cut'
         /\ worker[w].on # None => w \in cut' /\ worker[w].on \in disturbed'
         /\ \A x \in Deliveries :
              \/ job[x].by # w /\ job'[x] = job[x]
              \/ /\ job[x].by = w /\ job[x].state = "locked" /\ worker[w].on = x
                 /\ job'[x] = Unlocked(x)
  <1> USE JobAssumption DEF Kill
  <1>1. /\ job \in [Deliveries -> Job] /\ worker \in [Workers -> Execution]
        /\ row' = row /\ port' = port /\ worker' = worker /\ disturbed \subseteq disturbed'
        /\ cut \subseteq cut'
        /\ worker[w].on # None => w \in cut' /\ worker[w].on \in disturbed'
    BY DEF JobInv, Typed, Execution
  <1>2. \A x \in Deliveries :
          \/ job[x].by # w /\ job'[x] = job[x]
          \/ /\ job[x].by = w /\ job[x].state = "locked" /\ worker[w].on = x
             /\ job'[x] = Unlocked(x)
    BY <1>1 DEF JobInv, LockInv
  <1> QED
    BY <1>1, <1>2

LEMMA KillKeeps ==
  ASSUME JobInv, NEW w \in Workers, Kill(w)
  PROVE  JobInv'
  <1> USE JobAssumption DEF Status
  <1>1. Typed'
    <2>1. job' \in [Deliveries -> Job]
      BY UnlockedIs DEF Kill, JobInv, Typed
    <2>2. cut' \in SUBSET Workers
      BY DEF Kill, JobInv, Typed
    <2>3. worker[w].on \in Deliveries \cup {None}
      BY DEF JobInv, Typed, Execution
    <2> QED
      BY <2>1, <2>2, <2>3 DEF Kill, JobInv, Typed
  <1>2. ASSUME NEW e \in Deliveries PROVE RecordInv(e)'
    <2>1. job[e] = NoJob => job'[e] = NoJob
      BY KillIs, NoJobIs
    <2>2. job'[e].state = "none" => job[e].state = "none"
      BY KillIs, UnlockedIs
    <2> QED
      BY KillIs, <2>1, <2>2 DEF JobInv, RecordInv
  <1>3. ASSUME NEW e \in Deliveries PROVE LockInv(e)'
    <2>1. ASSUME NEW v \in Workers, job'[e].by = v PROVE job'[e] = job[e]
      BY KillIs, <2>1, UnlockedIs
    <2> QED
      BY KillIs, <2>1 DEF JobInv, LockInv
  <1>4. ASSUME NEW v \in Workers PROVE WorkerInv(v)'
    <2>1. CASE v = w
      BY KillIs, <2>1 DEF JobInv, WorkerInv, ExecutionInv
    <2>2. CASE v # w /\ worker[v].on # None
      <3>1. worker[v].on \in Deliveries /\ worker'[v] = worker[v]
        BY KillIs, <2>2 DEF Execution
      <3>2. CASE job'[worker[v].on] = job[worker[v].on]
        BY KillIs, <2>2, <3>1, <3>2 DEF JobInv, WorkerInv, ExecutionInv
      <3>3. CASE /\ worker[v].on = worker[w].on
                 /\ job[worker[v].on].by = w /\ job[worker[v].on].state = "locked"
        BY KillIs, <2>2, <3>1, <3>3 DEF JobInv, WorkerInv, ExecutionInv
      <3> QED
        BY KillIs, <3>1, <3>2, <3>3
    <2>3. CASE v # w /\ worker[v].on = None
      BY KillIs, <2>3 DEF JobInv, WorkerInv
    <2> QED
      BY <2>1, <2>2, <2>3
  <1>5. OneExecution'
    BY KillIs DEF JobInv, OneExecution
  <1>6. ASSUME NEW b \in Actions PROVE OperatorInv(b)'
    BY DEF Kill, JobInv, OperatorInv, ActionInv
  <1> QED
    BY <1>1, <1>2, <1>3, <1>4, <1>5, <1>6, Unchanged DEF JobInv, Kill

LEMMA SweepKeeps ==
  ASSUME JobInv, NEW w \in Workers, Sweep(w)
  PROVE  JobInv'
  <1> USE JobAssumption DEF Sweep, Status
  <1>1. Typed'
    BY DEF JobInv, Typed, Row, Statuses
  <1>2. ASSUME NEW e \in Deliveries PROVE RecordInv(e)'
    BY DEF JobInv, RecordInv
  <1>3. ASSUME NEW v \in Workers PROVE WorkerInv(v)'
    BY DEF JobInv, WorkerInv, ExecutionInv, Typed, LockInv, RecordInv, Row, Job, Execution, Action
  <1>4. ASSUME NEW b \in Actions PROVE OperatorInv(b)'
    BY DEF JobInv, OperatorInv, ActionInv, Typed, RecordInv, Row, Job, Execution, Action
  <1> QED
    BY <1>1, <1>2, <1>3, <1>4, Unchanged DEF JobInv

LEMMA SweepFailsKeeps ==
  ASSUME JobInv, NEW w \in Workers, SweepFails(w)
  PROVE  JobInv'
  <1>1. Typed'
    BY DEF SweepFails, JobInv, Typed
  <1> QED
    BY <1>1, Unchanged DEF SweepFails, JobInv

-----------------------------------------------------------------------------
(* Operators.                                                              *)

LEMMA ClaimActionKeeps ==
  ASSUME JobInv, NEW a \in Actions, NEW d \in Deliveries, NEW kind \in Kinds, ClaimAction(a, d,
         kind, row[d].version)
  PROVE  JobInv'
  <1> USE JobAssumption DEF ClaimAction, Status, operatorOnly
  <1>1. Typed'
    BY DEF JobInv, Typed, Row, Job, Execution, Action, Statuses, WorkerSteps, PortSteps,
           ActionSteps
  <1>2. ASSUME NEW b \in Actions PROVE OperatorInv(b)'
    <2>1. /\ action \in [Actions -> Action] /\ row \in [Deliveries -> Row]
      BY DEF JobInv, Typed
    <2>2. CASE b = a
      <3>1. /\ action'[a].on = d /\ action'[a].version = row[d].version
            /\ action'[a].attached = row[d].attached
            /\ action'[a].at \in {"over", "cancel", "retry"}
            /\ Status(d) = "cancelled" => action'[a].at = "over"
        BY <2>1 DEF Allowed, Kinds
      <3> QED
        BY <2>1, <2>2, <3>1 DEF OperatorInv, ActionInv, Row
    <2>3. CASE b # a
      <3>1. action'[b] = action[b]
        BY <2>1, <2>3
      <3> QED
        BY <3>1 DEF JobInv, OperatorInv, ActionInv
    <2> QED
      BY <2>2, <2>3
  <1>3. Serial'
    BY DEF JobInv, Serial
  <1> QED
    BY <1>1, <1>2, <1>3, Unchanged DEF JobInv

LEMMA CallGraphileKeeps ==
  ASSUME JobInv, NEW a \in Actions, CallGraphile(a)
  PROVE  JobInv'
  <1> USE JobAssumption DEF CallGraphile, operatorOnly, NoJob, Becomes, Status
  <1>1. Typed'
    <2>1. /\ job \in [Deliveries -> Job] /\ action \in [Actions -> Action]
          /\ action[a].at # "idle" => action[a].on \in Deliveries
      BY DEF JobInv, Typed, OperatorInv, Action
    <2>2. job' \in [Deliveries -> Job]
      <3>1. \A d \in Deliveries : [job[d] EXCEPT !.attempts = 0] \in Job /\ NoJob \in Job
        BY <2>1 DEF Job
      <3> QED
        BY <2>1, <3>1
    <2>3. action' \in [Actions -> Action]
      BY <2>1 DEF Action, ActionSteps
    <2> QED
      BY <2>1, <2>2, <2>3 DEF JobInv, Typed
  <1>2. ASSUME NEW e \in Deliveries PROVE RecordInv(e)'
    BY DEF JobInv, RecordInv, Typed
  <1>3. ASSUME NEW e \in Deliveries PROVE LockInv(e)'
    <2>1. /\ job \in [Deliveries -> Job] /\ worker' = worker
      BY DEF JobInv, Typed
    <2>2. job'[e].by # None => job'[e].by = job[e].by /\ job'[e].state = job[e].state
      BY <2>1 DEF Job
    <2> QED
      BY <2>1, <2>2 DEF JobInv, LockInv
  <1>4. ASSUME NEW v \in Workers PROVE WorkerInv(v)'
    BY DEF JobInv, WorkerInv, ExecutionInv, Typed, LockInv, RecordInv, Row, Job, Execution, Action
  <1>5. ASSUME NEW b \in Actions PROVE OperatorInv(b)'
    <2>1. /\ action \in [Actions -> Action] /\ row \in [Deliveries -> Row]
      BY DEF JobInv, Typed
    <2>2. CASE b = a
      BY <2>1, <2>2 DEF JobInv, OperatorInv, ActionInv, Action
    <2>3. CASE b # a
      <3>1. action'[b] = action[b] /\ disturbed \subseteq disturbed' /\ row' = row
        BY <2>1, <2>3
      <3> QED
        BY <3>1 DEF JobInv, OperatorInv, ActionInv
    <2> QED
      BY <2>2, <2>3
  <1>6. Serial'
    BY DEF JobInv, Serial, Typed, Job, Action, ActionSteps
  <1> QED
    BY <1>1, <1>2, <1>3, <1>4, <1>5, <1>6, Unchanged DEF JobInv

LEMMA CallFailsKeeps ==
  ASSUME JobInv, NEW a \in Actions, CallFails(a)
  PROVE  JobInv'
  <1> USE JobAssumption DEF CallFails, operatorOnly, Becomes, Status
  <1>1. Typed'
    BY DEF JobInv, Typed, Action, ActionSteps
  <1>2. ASSUME NEW b \in Actions PROVE OperatorInv(b)'
    BY DEF JobInv, OperatorInv, ActionInv
  <1>3. Serial'
    BY DEF JobInv, Serial
  <1> QED
    BY <1>1, <1>2, <1>3, Unchanged DEF JobInv

LEMMA CompleteActionKeeps ==
  ASSUME JobInv, NEW a \in Actions, CompleteAction(a)
  PROVE  JobInv'
  <1> USE JobAssumption DEF CompleteAction, operatorOnly, Becomes, Completed, Status
  <1>1. Typed'
    <2>1. row \in [Deliveries -> Row] /\ action[a] \in Action /\ action[a].on \in Deliveries
      BY DEF JobInv, Typed, OperatorInv, Action
    <2> DEFINE d == action[a].on
               s == IF action[a].at = "cancelled" THEN "cancelled" ELSE "redelivery"
               r == [row[d] EXCEPT !.version = @ + 1, !.status = s]
    <2>2. row[d] \in Row /\ s \in Statuses
      BY <2>1 DEF Statuses
    <2>3. row' = [row EXCEPT ![d] = r]
      OBVIOUS
    <2> HIDE DEF d, s
    <2>4. r \in Row
      BY <2>2, Counted
    <2> HIDE DEF r
    <2>5. row' \in [Deliveries -> Row]
      BY <2>1, <2>3, <2>4
    <2>6. action' \in [Actions -> Action]
      BY DEF JobInv, Typed, Action, ActionSteps
    <2> QED
      BY <2>5, <2>6 DEF JobInv, Typed
  <1>2. ASSUME NEW e \in Deliveries PROVE RecordInv(e)'
    BY DEF JobInv, RecordInv, Typed, Row, Statuses, Action, ActionSteps
  <1>3. ASSUME NEW v \in Workers PROVE WorkerInv(v)'
    BY DEF JobInv, WorkerInv, ExecutionInv, Typed, LockInv, RecordInv, Done, OperatorInv,
           ActionInv, Row, Job, Execution, Action
  <1>4. ASSUME NEW b \in Actions PROVE OperatorInv(b)'
    BY DEF JobInv, OperatorInv, ActionInv, Typed, Row, Statuses, Action, ActionSteps
  <1>5. Serial'
    BY DEF JobInv, Serial, Typed, Row, Statuses, Action, ActionSteps, OperatorInv, ActionInv
  <1> QED
    BY <1>1, <1>2, <1>3, <1>4, <1>5, Unchanged DEF JobInv

LEMMA CompleteConflictsKeeps ==
  ASSUME JobInv, NEW a \in Actions, CompleteConflicts(a)
  PROVE  JobInv'
  <1> USE JobAssumption DEF CompleteConflicts, operatorOnly, Becomes, Status
  <1>1. Typed'
    BY DEF JobInv, Typed, Action, ActionSteps
  <1>2. ASSUME NEW b \in Actions PROVE OperatorInv(b)'
    BY DEF JobInv, OperatorInv, ActionInv
  <1>3. Serial'
    BY DEF JobInv, Serial
  <1> QED
    BY <1>1, <1>2, <1>3, Unchanged DEF JobInv

LEMMA OperatorStopsKeeps ==
  ASSUME JobInv, NEW a \in Actions, OperatorStops(a)
  PROVE  JobInv'
  <1> USE JobAssumption DEF OperatorStops, operatorOnly, Becomes, Status
  <1>1. Typed'
    BY DEF JobInv, Typed, Action, ActionSteps
  <1>2. ASSUME NEW b \in Actions PROVE OperatorInv(b)'
    BY DEF JobInv, OperatorInv, ActionInv
  <1>3. Serial'
    BY DEF JobInv, Serial
  <1> QED
    BY <1>1, <1>2, <1>3, Unchanged DEF JobInv

-----------------------------------------------------------------------------
(* The invariant holds.                                                    *)

LEMMA InitInv == Init => JobInv
  <1> SUFFICES ASSUME Init PROVE JobInv
    OBVIOUS
  <1> USE JobAssumption DEF Init
  <1>1. Typed
    BY NoJobIs DEF Typed, Row, Execution, Action, Statuses, WorkerSteps, PortSteps, ActionSteps, Idle
  <1>2. ASSUME NEW d \in Deliveries PROVE RecordInv(d) /\ LockInv(d)
    BY NoJobIs DEF RecordInv, LockInv, Status, Idle
  <1>3. ASSUME NEW w \in Workers PROVE WorkerInv(w)
    BY DEF WorkerInv, Idle
  <1>4. OneExecution /\ Serial
    BY DEF OneExecution, Serial, Idle
  <1>5. ASSUME NEW a \in Actions PROVE OperatorInv(a)
    BY DEF OperatorInv
  <1> QED
    BY <1>1, <1>2, <1>3, <1>4, <1>5 DEF JobInv

LEMMA StepInv == JobInv /\ [Next]_vars => JobInv'
  <1> SUFFICES ASSUME JobInv, [Next]_vars PROVE JobInv'
    OBVIOUS
  <1>1. ASSUME NEW d \in Deliveries, Enqueues(d) \/ LockExpires(d) \/ StrayEnds(d) \/ Prune(d)
        PROVE  JobInv'
    BY <1>1, CreatePendingKeeps, AddJobKeeps, AddJobFailsKeeps, AttachKeeps, AttachFailsKeeps,
       CompensateKeeps, EnqueueFailsKeeps, PortStopsKeeps, LockExpiresKeeps, StrayEndsKeeps,
       PruneKeeps
       DEF Enqueues
  <1>2. ASSUME NEW w \in Workers, Kill(w) \/ Sweep(w) \/ SweepFails(w) PROVE JobInv'
    BY <1>2, KillKeeps, SweepKeeps, SweepFailsKeeps
  <1>3. ASSUME NEW w \in Workers, NEW d \in Deliveries, Executes(w, d) PROVE JobInv'
    BY <1>3, LockKeeps, MarkRunningKeeps, ClaimRefusedKeeps, HandlerEndsKeeps,
       HandlerAbandonedKeeps, AcknowledgeKeeps,
       AcknowledgeFailsKeeps, RecordFailureKeeps, RecordFailureFailsKeeps, FinishKeeps,
       WorkerStopsKeeps
       DEF Executes
  <1>4. ASSUME NEW a \in Actions, Operates(a) PROVE JobInv'
    BY <1>4, ClaimActionKeeps, CallGraphileKeeps, CallFailsKeeps, CompleteActionKeeps,
       CompleteConflictsKeeps, OperatorStopsKeeps
       DEF Operates
  <1>5. ASSUME UNCHANGED vars PROVE JobInv'
    <2>1. Typed'
      BY <1>5 DEF JobInv, Typed, vars
    <2> QED
      BY <1>5, <2>1, Unchanged DEF JobInv, vars
  <1> QED
    BY <1>1, <1>2, <1>3, <1>4, <1>5 DEF Next

LEMMA JobInvariant == Spec => []JobInv
  BY InitInv, StepInv, PTL DEF Spec

\* The tables and the processes hold values of their types, a process that does
\* something does it to a delivery, and a record that waits or runs has a job
\* id: the port attaches it before anything else may happen to the record.
THEOREM JobTypeCorrect == Spec => []JobTypeOK
  <1>1. JobInv => JobTypeOK
    <2> SUFFICES ASSUME JobInv PROVE JobTypeOK
      OBVIOUS
    <2>1. \A w \in Workers : worker[w].on = None <=> worker[w].at = "idle"
      BY DEF JobInv, WorkerInv, ExecutionInv
    <2>2. \A a \in Actions : action[a].on = None <=> action[a].at = "idle"
      BY DEF JobInv, OperatorInv, ActionInv
    <2> QED
      BY <2>1, <2>2 DEF JobInv, Typed, RecordInv, JobTypeOK
  <1> QED
    BY JobInvariant, <1>1, PTL

\* Two executions of one delivery overlap, at any point, only if a forced shutdown
\* released the lock of one that went on, for any number of workers.
THEOREM ExecutionsApart == Spec => []OneExecution
  <1>1. JobInv => OneExecution
    BY DEF JobInv
  <1> QED
    BY JobInvariant, <1>1, PTL

\* A delivery that waits has a job that can carry it, unless an operator, a
\* forced shutdown or the enqueue itself has taken it.
THEOREM NoOrphans == Spec => []NeverOrphaned
  <1>1. JobInv => NeverOrphaned
    BY DEF JobInv, RecordInv, NeverOrphaned
  <1> QED
    BY JobInvariant, <1>1, PTL

\* Of the operator actions claimed on one version of a record at most one
\* succeeds, for any number of operators and versions.
THEOREM ActionsAreSerial == Spec => []ActionsSerialize
  <1>1. JobInv => ActionsSerialize
    BY DEF JobInv, Serial, OperatorInv, ActionInv, ActionsSerialize
  <1> QED
    BY JobInvariant, <1>1, PTL

-----------------------------------------------------------------------------
(* What a step may do to a delivery.                                       *)

\* Only the completion of an operator action takes a record out of a final
\* state, except that a pruned one is gone.
LEMMA StatusMoves ==
  ASSUME JobInv, [Next]_vars, NEW d \in Deliveries
  PROVE  \/ row'[d].status = Status(d)
         \/ Status(d) \in {"absent", "pending", "queued", "running", "redelivery"}
         \/ Status(d) \in {"acknowledged", "failed"} /\ row'[d].status = "pruned"
         \/ \E a \in Actions : /\ action[a].at \in {"retried", "cancelled"} /\ action[a].on = d
                               /\ row[d].version = action[a].version
  <1> DEFINE Claim == \/ row'[d].status = Status(d)
                      \/ Status(d) \in {"absent", "pending", "queued", "running", "redelivery"}
                      \/ Status(d) \in {"acknowledged", "failed"} /\ row'[d].status = "pruned"
                      \/ \E a \in Actions : /\ action[a].at \in {"retried", "cancelled"}
                                            /\ action[a].on = d
                                            /\ row[d].version = action[a].version
  <1> SUFFICES Claim
    OBVIOUS
  <1>1. row \in [Deliveries -> Row]
    BY DEF JobInv, Typed
  <1> USE <1>1 DEF Status
  <1>2. CASE UNCHANGED row
    BY <1>2
  <1>3. ASSUME NEW e \in Deliveries, NEW s \in Statuses, Set(e, s),
               e = d => Status(d) \in {"absent", "pending", "queued", "running", "redelivery"}
                          \/ (Status(d) \in {"acknowledged", "failed"} /\ s = "pruned")
        PROVE  Claim
    <2>1. row'[e].status = s /\ \A x \in Deliveries \ {e} : row'[x] = row[x]
      BY <1>3, SetStatus DEF Set
    <2> QED
      BY <1>3, <2>1
  <1>4. ASSUME NEW e \in Deliveries, NEW s, MarkFailed(e, s) PROVE Claim
    <2>1. \/ UNCHANGED row
          \/ e = d /\ Status(d) \in {"pending", "queued", "running"}
          \/ row'[d] = row[d]
      BY <1>4 DEF MarkFailed
    <2> QED
      BY <2>1
  <1>5. ASSUME NEW e \in Deliveries, Enqueues(e) PROVE Claim
    <2>1. CASE Attach(e)
      <3>1. d = e \/ row'[d] = row[d]
        BY <2>1 DEF Attach
      <3> QED
        BY <2>1, <3>1 DEF Attach
    <2> QED
      BY <1>2, <1>3, <1>4, <1>5, <2>1 DEF Enqueues, CreatePending, AddJob, AddJobFails, AttachFails,
         Compensate, EnqueueFails, PortStops, Statuses
  <1>6. ASSUME NEW e \in Deliveries, LockExpires(e) \/ StrayEnds(e) \/ Prune(e) PROVE Claim
    BY <1>2, <1>3, <1>6 DEF LockExpires, StrayEnds, Prune, Statuses
  <1>7. ASSUME NEW w \in Workers, Kill(w) \/ Sweep(w) \/ SweepFails(w) PROVE Claim
    BY <1>2, <1>7 DEF Kill, Sweep, SweepFails
  <1>8. ASSUME NEW w \in Workers, NEW e \in Deliveries, Executes(w, e) PROVE Claim
    BY <1>2, <1>3, <1>4, <1>8 DEF Executes, Lock, MarkRunning, ClaimRefused, HandlerEnds,
       HandlerAbandoned, Acknowledge, AcknowledgeFails, RecordFailure, RecordFailureFails,
       Finish, WorkerStops, Statuses
  <1>9. ASSUME NEW a \in Actions, Operates(a) PROVE Claim
    <2>1. CASE CompleteAction(a)
      <3>1. action[a].on = d \/ row'[d] = row[d]
        BY <2>1 DEF CompleteAction, Completed
      <3> QED
        BY <2>1, <3>1 DEF CompleteAction
    <2> QED
      BY <1>2, <1>9, <2>1 DEF Operates, ClaimAction, CallGraphile, CallFails, CompleteConflicts,
         OperatorStops
  <1>10. CASE UNCHANGED vars
    BY <1>2, <1>10 DEF vars
  <1> HIDE DEF Claim
  <1> QED
    BY <1>5, <1>6, <1>7, <1>8, <1>9, <1>10 DEF Next

\* A handler is started for a delivery that waits, and for no other.
LEMMA HandlerStarts ==
  ASSUME JobInv, [Next]_vars, NEW d \in Deliveries, NEW w \in Workers, At(w, "handler", d)'
  PROVE  At(w, "handler", d) \/ Status(d) \in {"queued", "redelivery"}
  <1> DEFINE Claim == At(w, "handler", d) \/ Status(d) \in {"queued", "redelivery"}
  <1>1. worker \in [Workers -> Execution]
    BY DEF JobInv, Typed
  <1> USE <1>1 DEF At
  <1>2. CASE UNCHANGED worker
    BY <1>2
  <1>3. ASSUME NEW v \in Workers, NEW s \in WorkerSteps, Goes(v, s), s # "handler" PROVE Claim
    <2>1. worker' = [worker EXCEPT ![v] = [worker[v] EXCEPT !.at = s]]
      BY <1>3 DEF Goes
    <2>2. worker'[v].at = s /\ \A x \in Workers \ {v} : worker'[x] = worker[x]
      BY <1>3, <2>1, SetAt
    <2> QED
      BY <1>3, <2>2
  <1>4. ASSUME NEW e \in Deliveries, Enqueues(e) \/ LockExpires(e) \/ StrayEnds(e) \/ Prune(e) PROVE Claim
    BY <1>2, <1>4 DEF Enqueues, CreatePending, AddJob, AddJobFails, Attach, AttachFails, Compensate,
       EnqueueFails, PortStops, LockExpires, StrayEnds, Prune, portOnly, operatorOnly
  <1>5. ASSUME NEW v \in Workers, Kill(v) \/ Sweep(v) \/ SweepFails(v) PROVE Claim
    BY <1>2, <1>5 DEF Kill, Sweep, SweepFails
  <1>6. ASSUME NEW v \in Workers, NEW e \in Deliveries, Executes(v, e) PROVE Claim
    <2>1. CASE MarkRunning(v, e)
      <3>1. Status(e) \in {"queued", "redelivery"} /\ worker[v].on = e
        BY <2>1 DEF MarkRunning
      <3>2. PICK s \in WorkerSteps : Goes(v, s)
        BY <2>1, FailStepIs DEF MarkRunning, WorkerSteps
      <3>3. worker' = [worker EXCEPT ![v] = [worker[v] EXCEPT !.at = s]]
        BY <3>2 DEF Goes
      <3>4. worker'[v].on = e /\ \A x \in Workers \ {v} : worker'[x] = worker[x]
        BY <3>1, <3>3, SetAt
      <3> QED
        BY <3>1, <3>4
    <2>2. CASE Lock(v, e) \/ Finish(v, e) \/ WorkerStops(v, e)
      <3>1. worker'[v].at # "handler" /\ \A x \in Workers \ {v} : worker'[x] = worker[x]
        BY <2>2 DEF Lock, Finish, WorkerStops, Idle
      <3> QED
        BY <3>1
    <2>3. CASE \/ ClaimRefused(v, e) \/ HandlerEnds(v, e) \/ HandlerAbandoned(v, e)
               \/ Acknowledge(v, e)
               \/ AcknowledgeFails(v, e) \/ RecordFailure(v, e) \/ RecordFailureFails(v, e)
      <3>1. PICK s \in {"ack", "retry", "final", "return", "throw"} : Goes(v, s)
        BY <2>3, FailStepIs DEF ClaimRefused, HandlerEnds, HandlerAbandoned, Acknowledge,
           AcknowledgeFails, RecordFailure, RecordFailureFails
      <3> QED
        BY <1>3, <3>1 DEF WorkerSteps
    <2> HIDE DEF Claim
    <2> QED
      BY <1>6, <2>1, <2>2, <2>3 DEF Executes
  <1>7. ASSUME NEW a \in Actions, Operates(a) PROVE Claim
    BY <1>2, <1>7 DEF Operates, ClaimAction, CallGraphile, CallFails, CompleteAction,
       CompleteConflicts, OperatorStops, operatorOnly
  <1>8. ASSUME UNCHANGED vars PROVE Claim
    BY <1>2, <1>8 DEF vars
  <1> HIDE <1>1 DEF Claim, At
  <1>9. Claim
    BY <1>4, <1>5, <1>6, <1>7, <1>8 DEF Next
  <1> QED
    BY <1>9 DEF Claim

\* A cancelled delivery stays cancelled and no handler is started for it: a
\* retry claimed before the cancellation finds the version counted up.
THEOREM CancelStays == Spec => CancelIsFinal
  <1> DEFINE Step == \A d \in Deliveries : Status(d) = "cancelled" =>
                       /\ row'[d].status = "cancelled"
                       /\ \A w \in Workers : At(w, "handler", d)' => At(w, "handler", d)
  <1>1. ASSUME JobInv, [Next]_vars PROVE Step
    <2> SUFFICES ASSUME NEW d \in Deliveries, Status(d) = "cancelled"
                 PROVE  /\ row'[d].status = "cancelled"
                        /\ \A w \in Workers : At(w, "handler", d)' => At(w, "handler", d)
      OBVIOUS
    <2>1. ASSUME NEW a \in Actions, action[a].at \in {"retried", "cancelled"}, action[a].on = d
          PROVE  action[a].version # row[d].version
      <3>1. action[a].version < row[d].version /\ action[a].version \in Nat /\ row[d].version \in Nat
        BY <1>1, <2>1, JobAssumption DEF JobInv, Typed, Action, Row, OperatorInv, ActionInv
      <3> QED
        BY <3>1
    <2>2. row'[d].status = "cancelled"
      BY <1>1, <2>1, StatusMoves
    <2>3. \A w \in Workers : At(w, "handler", d)' => At(w, "handler", d)
      BY <1>1, HandlerStarts
    <2> QED
      BY <2>2, <2>3
  <1>2. JobInv /\ [Next]_vars => [Step]_vars
    BY <1>1
  <1> QED
    BY JobInvariant, <1>2, PTL DEF Spec, CancelIsFinal

\* A delivery that is over stays so, and no handler is started for it, whatever
\* Graphile redelivers, unless an operator or a forced shutdown had it.
THEOREM DoneStays == Spec => DoneIsDone
  <1> DEFINE Step == \A d \in Deliveries \ disturbed : Status(d) \in Done =>
                       /\ row'[d].status \in Done
                       /\ \A w \in Workers : At(w, "handler", d)' => At(w, "handler", d)
  <1>1. ASSUME JobInv, [Next]_vars PROVE Step
    <2> SUFFICES ASSUME NEW d \in Deliveries, d \notin disturbed, Status(d) \in Done
                 PROVE  /\ row'[d].status \in Done
                        /\ \A w \in Workers : At(w, "handler", d)' => At(w, "handler", d)
      OBVIOUS
    <2>1. \A a \in Actions : action[a].on = d => action[a].at \notin {"retried", "cancelled"}
      BY <1>1, JobAssumption DEF JobInv, OperatorInv, ActionInv
    <2>2. row'[d].status \in Done
      BY <1>1, <2>1, StatusMoves DEF Done
    <2>3. \A w \in Workers : At(w, "handler", d)' => At(w, "handler", d)
      BY <1>1, HandlerStarts DEF Done
    <2> QED
      BY <2>2, <2>3
  <1>2. JobInv /\ [Next]_vars => [Step]_vars
    BY <1>1
  <1> QED
    BY JobInvariant, <1>2, PTL DEF Spec, DoneIsDone

\* What becomes of a running delivery is written by the execution that holds its
\* job, the only one it has, or by its own enqueue; operators and forced shutdowns
\* aside.
THEOREM OutcomesAreOwn == Spec => OutcomeIsOwn
  <1> DEFINE Own(d) == \/ port[d] = "failing"
                       \/ \E w \in Workers :
                            /\ worker[w].at \in {"ack", "retry", "final"} /\ worker[w].on = d
                            /\ job[d].by = w
                            /\ \A v \in Workers \ {w} : worker[v].on # d
             Step == \A d \in Deliveries \ disturbed' :
                       Status(d) = "running" /\ row'[d].status # "running" => Own(d)
  <1>1. ASSUME JobInv, [Next]_vars PROVE Step
    <2> SUFFICES ASSUME NEW d \in Deliveries, d \notin disturbed',
                        Status(d) = "running", row'[d].status # "running"
                 PROVE  Own(d)
      OBVIOUS
    <2>1. row \in [Deliveries -> Row]
      BY <1>1 DEF JobInv, Typed
    <2>2. ~ UNCHANGED row
      BY DEF Status
    <2>3. ASSUME NEW w \in Workers, worker[w].at \in {"ack", "retry", "final"}, worker[w].on = d,
                 disturbed' = disturbed
          PROVE  Own(d)
      <3>1. ASSUME NEW v \in Workers, worker[v].on = d PROVE job[d].by = v
        BY <1>1, <2>3, <3>1, JobAssumption DEF JobInv, WorkerInv, ExecutionInv
      <3> QED
        BY <2>3, <3>1
    <2>4. ASSUME NEW e \in Deliveries, Enqueues(e) \/ LockExpires(e) \/ StrayEnds(e) \/ Prune(e)
          PROVE  Own(d)
      <3>1. e = d
        BY <2>1, <2>2, <2>4 DEF Enqueues, CreatePending, AddJob, AddJobFails, Attach, AttachFails,
           Compensate, EnqueueFails, PortStops, LockExpires, StrayEnds, Prune, Set, MarkFailed, Status
      <3>2. EnqueueFails(d)
        BY <2>1, <2>2, <2>4, <3>1 DEF Enqueues, CreatePending, AddJob, AddJobFails, Attach,
           AttachFails, Compensate, PortStops, LockExpires, StrayEnds, Prune, Status
      <3> QED
        BY <3>2 DEF EnqueueFails, PortStep
    <2>5. ASSUME NEW w \in Workers, Kill(w) \/ Sweep(w) \/ SweepFails(w) PROVE Own(d)
      BY <2>1, <2>2, <2>5 DEF Kill, Sweep, SweepFails, Status
    <2>6. ASSUME NEW w \in Workers, NEW e \in Deliveries, Executes(w, e) PROVE Own(d)
      <3>1. CASE MarkRunning(w, e)
        BY <2>1, <2>2, <3>1, SetStatus DEF MarkRunning, Set, Status, Statuses
      <3>2. CASE Acknowledge(w, e) \/ RecordFailure(w, e)
        <4>1. e = d
          BY <2>1, <2>2, <3>2 DEF Acknowledge, RecordFailure, Set, MarkFailed, Status
        <4> QED
          BY <2>3, <3>2, <4>1 DEF Acknowledge, RecordFailure, At, workerOnly
      <3> HIDE DEF Own
      <3> QED
        BY <2>2, <2>6, <3>1, <3>2 DEF Executes, Lock, ClaimRefused, HandlerEnds, HandlerAbandoned,
           AcknowledgeFails, RecordFailureFails, Finish, WorkerStops
    <2>7. ASSUME NEW a \in Actions, Operates(a) PROVE Own(d)
      <3>1. CASE CompleteAction(a)
        <4>1. action[a].on = d
          BY <2>1, <2>2, <3>1 DEF CompleteAction, Completed, Status
        <4>2. d \in disturbed /\ disturbed' = disturbed
          BY <1>1, <3>1, <4>1, JobAssumption DEF CompleteAction, JobInv, OperatorInv, ActionInv
        <4> QED
          BY <4>2
      <3> HIDE DEF Own
      <3> QED
        BY <2>2, <2>7, <3>1 DEF Operates, ClaimAction, CallGraphile, CallFails, CompleteConflicts,
           OperatorStops
    <2>8. ~ UNCHANGED vars
      BY <2>2 DEF vars
    <2> HIDE DEF Own
    <2> QED
      BY <1>1, <2>4, <2>5, <2>6, <2>7, <2>8 DEF Next
  <1>2. JobInv /\ [Next]_vars => [Step]_vars
    BY <1>1
  <1> QED
    BY JobInvariant, <1>2, PTL DEF Spec, OutcomeIsOwn

=============================================================================
