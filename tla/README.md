# engineering-team: a TLA+ model of its delivery machinery

engineering-team turns delivery requests into tasks, has software agents work
them through phases, and records what happened. Three kinds of state outlive a
process and are shared by several of them: **queue rows and job records** in
Postgres, **leases** on them, and **files or external effects** that no
transaction covers. What is hard to test is what lies between two writes. This
directory models those parts, checks the models with TLC and proves the main
results with TLAPS.

    tlc -config FactoryQueue_shared.cfg MCFactoryQueue     # a run
    tlapm FactoryQueueProofs.tla                           # the proofs of a module

`PROJECT.json` lists components, runs, hazards, findings and theorems, and maps
each definition to the source lines it stands for.

## 1. Inventory

| Component | State it keeps | Operations | Talks to | What is hard |
|---|---|---|---|---|
| **Factory delivery queue** `lib/task-platform/factory-delivery-queue-*.js`, migration 015 | table `factory_delivery_queue`: stage, attempts, lock, lease, task | submit, recover expired leases, claim a batch, release, requeue a dead letter | orchestrators, operators, HTTP | leases that expire under work, worker ids shared by processes, snapshots used long after they were read, two attempt limits |
| **Factory delivery advance** `factory-delivery.js`, `factory-intake.js`, `golden-path-*.js` | one evidence file per item; tasks created | intake, phases 1 to 6, merge, final proof | queue, agents, Git hosts | file and row written at different moments, no lock on the file, crashes while writing |
| **Job deliveries** `lib/job-runtime/{registry,port,handlers,operator-service,graphile-adapter,runtime}.js`, migrations 016, 019 | `job_delivery_registry`, `job_operator_actions`, Graphile's jobs | enqueue, execute, acknowledge, fail, retry/requeue/cancel, drain, prune | Graphile Worker, handlers, operators | record and job are two tables without a common transaction; lost answers, crashes, forced shutdown |
| **Effect ledger** `effect-ledger.js`, `workload-handlers.js`, migration 017 | `job_effect_ledger`: status, owner, lease | begin, lookup, perform, complete, terminal, reconcile | canonical systems | overlapping attempts, requests that arrive late, takeover of a lease |
| Job runtime lifecycle `runtime.js`, `config.js`, `pool.js`, `workload-scheduler.js` | runtime state, pool, cron | start, health, drain | the above | shutdown races |
| **LangGraph runs** `lib/software-factory/langgraph/{runtime,registry,checkpointer,binding}.js`, migration 018 | `factory_threads`: status, lease, accepted checkpoint; checkpoint rows | invoke, resume, heartbeat, put, status update | jobs, Postgres, LangGraph | a checkpoint and its acceptance are two statements; callers answered while the action behind them runs on |
| **LangGraph interrupts and run actions** `interrupts.js`, `operator-service.js`, `runtime-operator-actions.js`, migration 020 | `factory_interrupts`, `factory_run_actions` | decide, retry a node, cancel | operators | decisions checked before the lease is held and recorded after the run went on |
| **LangGraph lifecycle graph** `graph.js`, `lifecycle.js`, `state.js` | channel state of a run | fourteen nodes, routing | the above | rounds of QA, fix, failure and retry |
| Runtime cutover `lib/runtime-cutover/index.js` | who owns the workloads | assert, switch, roll back | both runtimes | two runtimes active at once |
| **Audit store** `lib/audit/{postgres,postgres-base,workers}.js`, migration 001 | event log, projection queue, outbox, current state, history | append, project, publish, rebuild | everything | events applied out of order or twice, a rebuild beside the workers |
| Task workflow and locks `lib/audit/{workflow,lifecycle-enforcement,task-locks}.js` | stage of a task, edit locks | transition, lock | audit store | stale stage at transition |
| Orchestration planner, execution contracts `lib/audit/orchestration*.js`, `execution-contracts.js` | plans, approval documents | plan, review, approve | audit store | dependency cycles |
| Golden path phases, agents, Git hosts, authentication, HTTP, UI | external or request-local | | | |

What makes the modelled parts correct:

- *Queue.* One owner at a time; the owner's late writes never hit a row that
  changed hands; failures are counted once; nothing moves backwards or is
  locked when finished; every item completes or becomes a dead letter.
- *Advance.* A row is backed by its evidence; one task per item once recorded;
  nothing is built on a torn file; work ends before its lease does.
- *Deliveries.* One execution at a time, unless a forced shutdown cuts one off
  (the body of a handler that timed out may run beside the next all the same);
  an outcome is recorded by the execution it belongs to; a waiting record has a
  job; what is done or cancelled is not run again; operator actions on one version
  exclude each other.
- *Ledger.* An effect takes place at most once, but for calls that outlive their
  lease; what is said of it is true and final.
- *LangGraph.* However calls, leases and crashes interleave, the accepted
  checkpoints tell one run of the lifecycle; a closed thread stays closed; a gate
  is passed only with an answer given for it; nothing reaches review without a
  standing QA pass.
- *Audit store.* Appends to one task never collide; an acknowledged row has its
  effect; a task is not taken back to an older event; both queues drain.

## 2. Modules

```
LeaseContract            what the queue promises             <- LeaseContractProofs
   ^ implemented by                                          <- FactoryQueueRefinement
FactoryQueue             rows, leases, orchestrator ticks    <- FactoryQueueProofs
   ^ extended by                                             (MCFactoryQueue)
FactoryDelivery          the evidence file inside an advance  <- FactoryDeliveryProofs
                                                                (MCFactoryDelivery)

EffectLedger             attempts under one effect key       <- EffectLedgerProofs
JobDelivery              registry, Graphile jobs, operators  <- JobDeliveryProofs
                                                                (MCJobDelivery)

GraphLifecycle           nodes, outcomes and routes
   ^ extended by
GraphRun                 one run, as its accepted checkpoints tell it
   ^ implemented by
GraphThread              calls, leases, checkpoints, gates   <- GraphThreadProofs
                                                                (MCGraphThread)

TransactionalQueue       what each audit queue promises
   ^ implemented twice by
AuditStore               log, queues, workers, rebuild       <- AuditStoreProofs
                                                                (MCAuditStore)
```

An operator preceded by a `Mutant:` comment is a wrong version of the operator
after it: a dropped guard, a missing reset, a swapped order. `PROJECT.json`
("mutants") pairs each property with one. No specification uses them; putting
one in place of the right version makes TLC violate the property, which shows
that the property depends on that line of code.

### LeaseContract
The queue as its users see it. `status`, `place`, `failures` and `hands` stand
for the item's life, how far it came, failures since the last success, and the
items each worker may still report on. A `Round` is recovery and claim in one,
as in `claimPostgresFactoryQueueItems`. The two attempt limits of the code
appear as `Least` and `Most`: between them a failure may retry or bury the item.

### FactoryQueue
`row[i]` is the table row with the columns that decide anything. An orchestrator
process has the claims of its tick in memory: `pending`, then `current`, then
an `outcome`.

| Action | Code |
|---|---|
| `Submit` | insert under an idempotency key, second inserts ignored |
| `ClaimBatch` | one transaction: `recoverExpiredFactoryQueueLeases`, then up to `BatchSize` claimable rows `FOR UPDATE SKIP LOCKED` |
| `BeginAdvance`, `EndAdvance` | the loop of `runPostgresFactoryOrchestratorTick`; any outcome `advanceFactoryItem` can return |
| `Release`, `ReleaseThrows` | the UPDATE fenced by worker id, lock time and lease; a release that finds no row, or a stage the table's CHECK rejects, throws and ends the tick |
| `Crash` | the process stops and forgets its claims |
| `Requeue` | an operator returns a dead letter to the stage it failed in |
| `Tick` | the database clock |

`epoch` is a history variable: it numbers the claims of an item so that the
properties can speak of *the latest claim*, which the code cannot see.

### FactoryDelivery
Extends the queue with what happens between claim and release. `evidence[i]` is
the JSON file, read at the start of an advance, kept in memory and overwritten
as a whole, without looking at the lease. `work[p]` is the step an advance is
at; each `await` after which another process may have acted is a step of its
own. `CrashWriting` leaves a torn file, as `writeFileSync` in place may.
`spent[p]` bounds the time a process holds a claim: `WorkLimit` is the longest
advance.

### EffectLedger
One row of the ledger and the attempts (`Calls`) made under its key. An attempt
has an owner token of its own, so the token is the attempt. The canonical system
is outside: a request under way is in `flying`, and may take hold (`Land`) or
be lost after its sender failed, timed out or died. A handler may
pass a lookup (`HasLookup`). Nothing bounds how long a call or its request takes.
`overdue` is history: the calls that could still cause the effect when their lease
ended. The lease is all that keeps two calls apart, so for those no promise can
be made.

### JobDelivery
`row` is the registry, `job` Graphile's table, `port` the enqueue, `worker` the
executions, `action` the operator actions. Each query or Graphile call is an
action; a lost answer is a second successor of the same action. `Kill` and
`Sweep` are the two halves of a drain that failed or passed its deadline. A kill may
come at any step, for `runner.stop` may reject before any abort: the locks are
released and the execution goes on without. `HandlerAbandoned` is a
timeout or an abort: `Promise.race` stops waiting, and the delivery is put in `stray`: a
body of its handler is at work beside whatever comes next, until it ends or its process does.

Two variables are history. `disturbed` are the deliveries touched by an operator, a
forced shutdown or the compensation of an enqueue, for which weaker promises hold; `cut`
are the workers whose present execution a forced shutdown unlocked.

### GraphLifecycle and GraphRun
`GraphLifecycle` has no state of its own: it is the lifecycle definition as
operators. `Executed(n, st)` is every state an execution of node `n` may leave
behind (the port succeeds, or throws an error that `classifyFailure` sorts by
kind and attempt; QA adds a verdict), `Rejected` the state after a gate answered
with reject, `Route` the conditional edges. `Fallible` limits the nodes that
fail in an instance. `GraphRun` is the abstract specification: a run starts, executes
the routed node, or is changed by an operator's retry or cancel. It knows of no
calls, leases or crashes.

### GraphThread
One row of `factory_threads`, the interrupts of its gates, and the calls that
drive it. `head` is the checkpoint `last_checkpoint_id` names; rows that were
saved and not accepted are never read, so they are not kept. `call[c].pc` says
which statement of the action is next.

| Action | Code |
|---|---|
| `Invoke`, `Ask`, `Decide` | a request: registration; the claim of a run action; the claim of a pending interrupt |
| `Bind` | the comparison in `resumeDecision`, before the lease |
| `Acquire`, `Release` | `withLease`; acquisition is refused on a closed thread or a live lease |
| `Renew`, `HeartbeatFails`, `Lapse` | the heartbeat; a failed one answers the caller at once and fails the local guard, the action runs on |
| `Load` | reading the accepted checkpoint; `updateState` of a retry or cancel |
| `RunNode`, `Accept` | a node and its checkpoint row, committed under the lease on top of the accepted one; then `recordCheckpoint`, fenced by the row's lease alone |
| `Stops`, `Settle`, `Note` | the graph ends or waits; the thread's status; the interrupt of the gate, in a statement of its own without a fence |
| `Breaks`, `Handle` | a step refused or failed; the handler that marks an invoke or resume paused |
| `CloseDecision` | `finishDecision`: the interrupt is resolved, or put back to pending |
| `Crash` | the process is lost; its lease lapses freely |

`crossed` is history: at which checkpoint each gate was passed, with what answer.

### TransactionalQueue
Either audit queue as the rest of the system may rely on it: items enter, a worker
takes several that nobody has (`Take`) and closes them all at once (`Close`: those that
succeeded are acknowledged with their effect, the others have failed once more, the
last time for good) or not at all (`Abandon`). An effect may be seen before its item is closed
(`Act`: a delivery that a rollback cannot call back), and made anew by an operator (`Redo`).
`Promise` is what users rely on: one hand per item, no acknowledgement without the effect, set
aside exactly after `Limit` failures.

### AuditStore
The PostgreSQL store. `append` is a transaction of `appendEvent` under the task's
advisory lock; a commit adds a row to each of the two queues. `work[w]` is a worker's
transaction: rows claimed with `SKIP LOCKED`, applied or delivered one by one,
committed or rolled back as a whole; a failed row goes to `backoff` and, after
`MaxAttempts`, to `dead_letter`. `rebuild` is the operator's TRUNCATE, read and fold, in one
transaction that waits for the workers that have touched the tables and makes
the later ones wait; it is known by the steps it has done. `current[t]` names the event a task's row was last folded
with: that decides whether it was taken back. `disturbed` is history: tasks with
two events at work at a time, or one that failed. `applyProjection` overwrites the row
whatever it holds, so no order is promised for those.

`Queue(q)` maps each queue to `TransactionalQueue`: a row that backs off waits like one
that is pending, a worker's hands are its claim, and the effect is the event in the
history or delivered. Appends under way, the passing of `available_at`, the steps of a rebuild up to
its commit and whatever goes on at the other queue are not seen.

## 3. Runs

| Run | Instance | Shows |
|---|---|---|
| `lease_contract` | 2 items, 2 workers, limits 2 | `OneOwner`; `EverySubmissionSettles` under fairness |
| `queue_shared_id` | 2 items, batches of 2, 2 processes with **one** worker id, row limit 1, release limit 2 | the fence: `ExclusiveRelease`, `SnapshotFresh`, `FenceInv`; `AttemptBudget`, `ProgressKept`, `NoLiveTakeover`; `ImplementsContract`: the queue refines the contract (safety part) |
| `delivery_in_time` | 1 item, 2 processes, every advance shorter than the lease, crashes while writing | `LeaseOutlivesWork`, `EvidenceBacksRow`, `TaskAgrees`, `IntakeOnce`, `TornFileStopsItem`; `DeliveryImplementsQueue` |
| `delivery_overrun` | advances may outlive leases | `StageWasReached` still holds |
| `delivery_batch` | batch of 2 | **violated**: `LeaseOutlivesWork` |
| `effect_lookup` | 3 attempts, lookup, requests that may outlive the lease | `AppliedOnce`, `AnswersAreTrue`, `SettledIsFinal`, `EffectInv` |
| `jobs` | 1 delivery, 2 workers, 2 operator actions, 2 attempts | `OneExecution`, `OutcomeIsOwn`, `NeverOrphaned`, `ActionsSerialize`, `CancelIsFinal`, `DoneIsDone` |
| `jobs_failed_retry` | 1 worker, 1 action, 1 attempt | **violated**: `FailedCanBeRetried` |
| `graph_threads` | 3 calls of any kind, a gate at review, failures in QA and closeout, 1 fault | `ImplementsLifecycle`, `ClosedAgrees`, `ClosedForGood`, `PastQaMeansPassed` |
| `graph_gates` | 2 calls, the first two default gates, no fault | **violated**: `AnsweredOnce` |
| `graph_stale_answer` | 3 calls, the same gates, 1 fault | **violated**: `AnswerFitsGate` |
| `audit` | 2 callers, 2 projection workers, 1 publisher, batches of 2, 2 events, 1 fault, 1 rebuild | `RefusedForForeignKey`, `AckedHasEffect`, `NeverTakenBack`; `QueuesKeepContract`: both queues refine the contract; `QueuesDrain` under fairness |

### Where code and documents disagree
The four violated runs state what a document says; `PROJECT.json` ("findings")
quotes the lines.

- *Batches.* `golden-path-autonomous-delivery.md:1117` takes "phase timeout
  shorter than the lease" to be enough. With `FACTORY_ORCHESTRATOR_BATCH` above
  1 all rows are leased at once and advanced one after the other; the later
  leases run out. The default of 1 is safe (`delivery_in_time`).
- *Retry of a failed job.* `job-runtime-operations.md:3` has operators retry
  failed jobs. A failure for good is returned to Graphile as a success, the job
  is deleted and the retry conflicts.
- *Two gates in a row.* `langgraph-orchestration-openapi.yml:17` has an
  interrupt resolved exactly once. The run goes on to the next gate and records
  its interrupt before the first is marked resolved; the unique index refuses the row,
  the decision is answered with an error, and the passed gate's interrupt is
  pending again. No fault is needed.
- *A stale answer.* `langgraph-03-rbac.md:7` binds a decision to the exact
  interrupt and checkpoint. The checkpoint is compared before the lease is taken
  and not again under it; when a first decision's heartbeat fails, a second one
  may pass the *next* gate with the answer given for this one. What does hold,
  and is proved, is weaker: some answer was claimed (`GatesNeedAnswers`).

`ADR-003:23` has each business effect happen exactly once. The model does not bear
that out, and no run claims it: `EffectLedger.begin` takes a row over when its lease has run out,
whether or not its owner's request is still on its way. The factory handlers' timeout
*equals* the lease, and a handler that timed out runs on. Put `overdue` aside in
`AppliedOnce` and TLC shows two attempts take effect. `AppliedOnce` says what is left:
there is no other way to a double.

### Bounds, and why they are enough
- *Two processes, one item* make every race on a row: the fence compares one
  claim with one row, and the proofs remove the bound. `MaxTime` and
  `MaxClaims` leave room for claim, expiry, recovery by the other process,
  dead letter, requeue and a late release of the first claim.
- *Two items* are needed where items interact: batches (`queue_shared_id`,
  `delivery_batch`). The clock stops at 2 and 3: one expiry of a lease.
- *Three attempts* in `effect_lookup`: one that is gone with a request under way,
  one that takes over, one that takes over again or only reads. `MaxTime` is two and
  a half leases.
- *Two workers, two actions* in `jobs`: a redelivery next to a killed
  execution; two operators on one version. With one delivery nothing is lost:
  deliveries share only the sweep, and a process may be killed and sweep while
  another executes. Workers and actions are symmetric; no liveness is checked there.
- *Three calls* in `graph_threads`: one that has lost its lease and is still at work, one
  that took it over, and an operator's. One fault is enough for a takeover and for a
  crash at any step, and the proofs remove this bound too; QA and
  closeout fail freely, which costs no fault. One gate and limits of two attempts
  let every route of the graph occur. Calls are symmetric.
- *Two events* in `audit`: of one task (order, overlap, one batch) or of two
  with one key. The one fault may be spent on a row, a worker's rollback, an append or
  the rebuild; with `MaxAttempts = 2` it ripens again, so dead letters of these queues are
  not reached.
- A stopped clock and the fixed number of calls let the bounded models stop;
  hence `CHECK_DEADLOCK FALSE` in all but the contract's run. The requests of a
  thread and the events of the log are all made in the end.

### Fairness
Two modules state any. In `LeaseContract`, `SF(Takes(i))`: orchestrators run in a loop,
and each tick recovers every expired lease and claims by availability; an item ready or
abandoned again and again is taken in the end. `WF(Idles(p))`: an advance
returns or its process stops, since phases run under timeouts.
`EverySubmissionSettles` excludes an operator who requeues for ever, and
attempts that succeed for ever without moving the item, which the code does
report as successes (phases 2 to 6 that leave no phase 6 evidence). That the
rows satisfy the contract's *fairness* is argued, not checked: the bounded clock
stops.

In `AuditStore` each worker's loop is weakly fair: `createSupervisedWorker` runs it
again after every pass and every error. So are the passing of `available_at`
and the end of a rebuild that has begun; no rebuild has to begin. Faults are
bounded: a row whose statement the database refuses every time would roll its
batch back for ever, and `QueuesDrain` does not promise otherwise.

## 4. Proofs

**FactoryQueueProofs**, for all items, processes, worker ids, limits, leases and
bounds. None of the properties is inductive: that two claims cannot both pass the
fence depends on what became of the older one. The invariant is
`TypeOK /\ FenceInv`:

- `RowInv`: a locked row is in delivery under a full lease begun in the past;
- `ClaimInv`: a claim in memory *is* the row's lock, or is stale: its lease has
  run out, and any lock the row has now was taken at or after that moment;
- `TickInv`: what a process carries through its tick.

The step that matters is `ClaimBatch`: recovery makes an expired row available
only later (`RetryDelayPositive`), so the row's next lock has a different
timestamp. That separates two claims of processes with the same worker id.

| Theorem | Property |
|---|---|
| `Fenced` | `FenceInv` |
| `TypeCorrect` | `TypeOK` |
| `ReleaseIsExclusive` | `ExclusiveRelease` |
| `SnapshotIsFresh` | `SnapshotFresh` |
| `TerminalUnowned` | `TerminalRowsUnowned` (a part of `FenceInv`; no run of its own) |
| `AttemptsBounded` | `AttemptBudget` |
| `ProgressIsKept` | `ProgressKept` |
| `LiveLeaseRespected` | `NoLiveTakeover` |

**LeaseContractProofs, FactoryQueueRefinement**, for the same constants. The contract
keeps items apart (`HandsInv`: an item in a hand is owned and in no other hand).
The queue maps to it with `StatusOf`, `Position` and `HandsOf`: the items whose
*latest* claim a process holds. Each step is a step or a stutter of the contract:
a claim is the `Round` that gives up the rows it recovers; a release that commits is the
owner's `Succeed` or `Fail`, for `FenceMeansCurrent` says that the claim is the
row's lock, and `ClaimInv` that nobody else holds one of that epoch; a release that
throws and a crash are `Forget`; taking up a claim, the end of an advance
and the clock are not seen. Beside the fence the mapping needs only `AbsentInv`.
`QueueKeepsOneOwner` says of the rows and claims themselves what `OneOwner` says of hands.

| Theorem | Property |
|---|---|
| `OneOwnerAlways` | `OneOwner` |
| `QueueImplementsContract` | `ImplementsContract` |
| `QueueKeepsOneOwner` | `Contract!OneOwner` |

**FactoryDeliveryProofs.** For every value of the constants, advances that outlive
their leases included: the types, the refinement of the queue and `ReachedInv`. A step of an advance
is an `EndAdvance` of the queue or unseen by it, for `WorkInv` says that the
step an advance is at is one its claim allows, so what it returns is one of the
`AdvanceOutcomes`. `ReachedInv` carries what row, claims, steps and outcomes say
was once saved, and what was reached stays so.

The other properties need `InTime`: finitely many items, a batch
of one, and `WorkLimit < LeaseSeconds` (run `delivery_batch` shows what a larger batch
does). Then:

- `TimeInv`: a process has at most one claim, no older than the time spent on it.
  Its lease is therefore live, and by the queue's `ClaimInv` the claim *is* its row's lock
  (`HeldIsLock`): two processes never work on the same item (`AloneInTime`);
- `FileInv`: the file backs the row's stage, also the one a dead letter will be
  requeued to, and names its task; the step an advance is at and the outcome it is
  about to release are backed in the same way. A file that is torn belongs to no
  one's advance, which is why no step touches it again.

| Theorem | Property | Assumes |
|---|---|---|
| `DeliveryTypeCorrect` | `DeliveryTypeOK` | |
| `DeliveryIsQueue` | `DeliveryImplementsQueue` | |
| `DeliveryImplementsContract` | `ImplementsContract` and `Contract!OneOwner`, now of the advances that use the file | |
| `DeliveryKeepsQueueSafe` | `ExclusiveRelease`, `AttemptBudget`, `ProgressKept`, `NoLiveTakeover`, likewise | |
| `StagesWereReached` | `StageWasReached` | |
| `WorkEndsBeforeLease` | `LeaseOutlivesWork` | `InTime` |
| `EvidenceBacks` | `EvidenceBacksRow` | `InTime` |
| `TasksAgree` | `TaskAgrees` | `InTime` |
| `IntakeHappensOnce` | `IntakeOnce` | `InTime` |
| `TornFileStops` | `TornFileStopsItem` | `InTime` |

**EffectLedgerProofs**, for any number of attempts and any lease. `EffectInv` is
`Truthful` (nothing is called completed before the effect took place) and, with
a lookup, `OnceInv`: a call that may still cause the effect and is not overdue owns
the row under a live lease (`Owns`), so there is one such call; and past its lookup
an owner found no effect but those of overdue calls (`FoundNone`). Begin is the step that
needs it: it takes a row whose lease has run out, so every call that is still active is
overdue. How long calls and requests take is not assumed.

| Theorem | Property |
|---|---|
| `EffectInvariant` | `EffectInv` |
| `EffectAppliedOnce` | `AppliedOnce` |
| `AnswersHold` | `AnswersAreTrue` |
| `SettledStays` | `SettledIsFinal` (no lookup needed) |
| `LedgerTypeCorrect` | `LedgerTypeOK` |

**JobDeliveryProofs**, for any deliveries, workers, operator actions and
`MaxAttempts`. The registry never sees Graphile's locks, so none of the
properties is inductive by itself. `JobInv` relates the two tables and the executions:

- a lock is held only by the worker that executes the delivery (`LockInv`), and a
  worker that executes and was not cut off either has the lock or finds no job any
  more (`ExecutionInv`), so that a second worker can lock the job only after a
  forced shutdown (`OneExecution`, a part of the invariant);
- as long as a delivery is not disturbed, what its worker is about to report
  agrees with the record, so that `return`, which deletes the job, is reached only on a
  record that is over (`RecordInv`: a record that waits has a job);
- an action that is under way on a cancelled record is behind its version
  (`ActionInv`): the retry claimed before the cancellation conflicts.

`StatusMoves` and `HandlerStarts` say what one step may do to a status and when a
handler starts; the two action properties follow from them.

| Theorem | Property |
|---|---|
| `JobTypeCorrect` | `JobTypeOK` |
| `ExecutionsApart` | `OneExecution` |
| `OutcomesAreOwn` | `OutcomeIsOwn` |
| `NoOrphans` | `NeverOrphaned` |
| `ActionsAreSerial` | `ActionsSerialize` |
| `CancelStays` | `CancelIsFinal` |
| `DoneStays` | `DoneIsDone` |

**GraphThreadProofs**, for any calls, gates, fallible nodes, attempt
limits and number of faults. That the accepted checkpoints tell one run is
not inductive: `Accept` looks at the lease, not at what was accepted since the
checkpoint was saved. The invariant `ThreadInv` is about the call that holds the
lease (`LocalInv`):

- what it has reached in memory *is* the accepted checkpoint, and what it has saved
  is a legal step from it (`LegalStep`). Only its own steps move either, and
  whoever takes the lease over begins with `Load`; a former owner's saved
  checkpoint is refused by the fence, whether or not its guard has noticed;
- on a closed thread it has nothing left but to release.

With it go the types (`Shape`), one active interrupt (`OneActive`), `ClosedAgrees`
and `QaInv`: beyond QA the verdict is a pass, and a fix that succeeded has voided it. The last
is preserved by every operator of `GraphLifecycle` (the module's first lemmas). `GatesNeedAnswers` adds `SaidInv`: an answer in a call, stored with
a checkpoint or used at a gate was claimed for an interrupt.

| Theorem | Property |
|---|---|
| `ThreadTypeCorrect` | `ThreadTypeOK` |
| `ThreadImplementsLifecycle` | `ImplementsLifecycle` (the refinement of `GraphRun`) |
| `ClosedAgreesAlways` | `ClosedAgrees` |
| `ClosedStays` | `ClosedForGood` |
| `PastQaPassed` | `PastQaMeansPassed` |
| `GatesNeedAnswers` | `GateNeedsAnswer`: every gate was passed with an answer claimed for some interrupt (no run of its own) |

**AuditStoreProofs**, for any callers, requests, workers, batch size, attempt limit and
number of faults and rebuilds. None of the properties is inductive; `StoreInv` adds
why the transactions keep out of each other's way:

- `AppendInv`: at most one append is at a task, for it holds the advisory lock from its
  read to its commit; what it has read is still true, so neither its number nor its key
  can have been used by an event of the same task. Only a key of another task is left to refuse it;
- `BatchInv`: a claimed row is pending and in one worker's batch (`SKIP LOCKED`);
- `OrderInv`: a batch is a dense prefix of what is claimable, so when an event of an
  undisturbed task is claimed all earlier ones are processed: an earlier one that is pending
  and free would be in the same batch, one in another's batch would disturb the task, and
  so would one that failed;
- `RebuildInv`: TRUNCATE finds no projection transaction that has touched the
  tables and lets none touch them, so the events read after it include every
  processed one. With the two steps swapped (mutant `ReadsFirst`) this is what breaks.

`NumberInv` (the number an append holds follows one in the log) makes the numbers of a
task dense, and `RowMoves` says what one step may make of a row. The refinement needs
`HistoryInv` besides: what a rebuild has read covers the history, so its commit adds
effects and loses none (`Redo`). Each step of the store is then `Enter`, `Take`, `Act`,
`Close`, `Abandon` or `Redo` of a queue, or unseen by it (`QueueStep`).

| Theorem | Property |
|---|---|
| `StoreInvariant` | `StoreInv` (types included) |
| `RefusedOnlyForForeignKey` | `RefusedForForeignKey` |
| `AcknowledgedStays` | `AckedHasEffect` |
| `ProjectionNotTakenBack` | `NeverTakenBack` |
| `QueuesAreTransactional` | `QueuesKeepContract` (the refinement, of either queue) |
| `QueuesKeepPromise` | `Promise` of either queue, carried over from the contract's steps |
| `EventsAreNumbered` | `NumberedInOrder`: a task's events are 1, 2, ... in the order of the log, keys are unique |
| `AttemptsAreCounted` | `AttemptsCounted`: a row is a dead letter exactly after `MaxAttempts` failures |
| `SettledRowsAreFinal` | `SettledRowsStay`: what is acknowledged or given up is never written again |

The last four have no run of their own.

**Assumptions of the results.** Database time is the one clock and does not run
backwards, and leases, retry base and cap are at least one tick: after an expiry
or a failure a row is not claimable at the same timestamp. Each SQL statement, and each
transaction, is atomic. For the delivery advance: `InTime`, which the code does not
enforce either; batch size and lease are configuration, and an advance has no deadline. For the ledger: an error that is
not retryable means the effect did not and will not take place; that is a
promise of the adapters. For LangGraph: the library saves one checkpoint per node,
names the accepted one as its parent, and hands an answer to the first gate it
comes to; owner ids are fresh UUIDs; limits are at least one, and `None` stands
for nothing else. For the audit store: no process is at work for both queues in one
transaction (`Projectors` and `Publishers` are disjoint; the loops of `workers.js` are
separate), the advisory lock and row locks end with their transaction, and the statements
that claim see what was committed before them.

**Model-checked only**: the two liveness properties, `EverySubmissionSettles` and
`QueuesDrain` (liveness is out of TLAPS's reach). Every other property of a passing run
is a theorem for all values of the constants that meet these assumptions.

## 5. What is left out, and why

- Contents: envelopes, schemas, evidence fields, reasons, metrics, logs. Only
  what a guard or a property reads is kept.
- Ordering of claims by priority and age: `ClaimBatch` takes any claimable set.
- Graphile Worker, agents, Git hosts, the canonical systems: external, modelled
  by how `src/` uses them. Graphile's lock expiry of four hours is modelled for
  dead workers only; handlers end long before it.
- What a handler that timed out does while it runs on: `JobDelivery` keeps its body in `stray`,
  where it may be at work beside the next execution and no property denies it; what
  becomes of the effect is `EffectLedger`'s matter.
- Tasks that no row names: phase 1 takes the task from the claimed row, the model from the file
  (the same under `InTime`, `TaskAgrees`); a crash after intake has created project and task and
  before the release makes the retry create them again, which is modelled and not counted.
- Effects without a lookup (`maintenanceEffect`): `AppliedOnce` promises them nothing.
- LangGraph: timeouts of single operations (`Breaks` covers their refusal, not a
  statement that took effect and was answered with an error), child plans,
  artifacts and events, replays of an idempotency key, the rows of run actions,
  which only record outcomes, deletion, retention and health.
- The audit store: contents of events and projections, the metrics rows, the file store,
  tenants, a statement that fails for every row of a batch, and the validation
  of transitions against a projection that may be stale.
- The file-queue backend (fixture for local smoke tests), and the parts listed as
  `not_modelled` in `PROJECT.json`.
- Known weak spots that are modelled but for which no property is claimed are
  listed as hazards with a note: a crashed worker's record stays `running` and
  its redelivery is refused; an operator action interrupted by a crash stays
  pending; a record whose enqueue stopped before the job stays pending; a retry
  is refused while its failed predecessor's effect lease lasts; a thread paused
  just before a crash has no interrupt; a run whose closeout is to be retried
  goes to its end and is recorded completed; a crash before the release of an intake
  leaves a task no row names.

## 6. Plan

In order of weight:

1. **Done.** Queue, contract, delivery advance, effect ledger, job
   deliveries; proofs of queue, its refinement of the contract, delivery advance, ledger
   and job deliveries.
2. **Done.** LangGraph: lifecycle, thread, interrupts and their refinement, with
   proofs; the audit store.
3. **Task workflow on the audit store**: transitions validated against a
   projection that lags behind the log, and edit locks.
4. **Runtime cutover**: never two owners of a workload.
5. **Queue import and the planner** as extensions: import over a live row;
   dependency planning as a pure operator against a reference definition.
6. **Done.** Proofs of the audit store and of the contract of its queues.
