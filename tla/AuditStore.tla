----------------------------- MODULE AuditStore -----------------------------
(***************************************************************************)
(* The PostgreSQL audit store: appends to the event log, the two queues    *)
(* filled with every event (projection and outbox), the workers that empty *)
(* them, and the operator's rebuild of the projections.                    *)
(*                                                                         *)
(* Every operation is one transaction.  What it writes is seen by others   *)
(* at its commit; what a publisher delivers is seen at once.  A worker's   *)
(* rows are locked while it is at work and skipped by the other workers.   *)
(* A rollback (a lost process, a failed statement) leaves the rows as they *)
(* were, the claim included.                                               *)
(*                                                                         *)
(* A task's projected row is known by the event it was last folded with;   *)
(* an event by its place in the log, which is also the order of the queue  *)
(* ids of one task's events.  Tenants are one.  The metrics rows are left  *)
(* out.                                                                    *)
(***************************************************************************)
EXTENDS Integers, Sequences, FiniteSets

CONSTANTS
  Clients,      \* callers of appendEvent
  Projectors,   \* processes that run processProjectionQueue
  Publishers,   \* processes that run processOutbox
  Requests,     \* the appends made: records of a task and an idempotency key
  BatchSize,    \* rows a worker claims at a time
  MaxAttempts,  \* failures after which a row is a dead letter
  MaxEvents,    \* bound: events appended
  MaxFaults,    \* bound: rollbacks and rows that fail
  MaxRebuilds   \* bound: rebuilds committed

ASSUME StoreAssumption ==
  /\ {BatchSize, MaxAttempts} \subseteq Nat \ {0} /\ MaxEvents \in Nat
  /\ Projectors \cap Publishers = {}

VARIABLES
  log,        \* audit_events
  append,     \* per client: the append under way, or <<>>
  rows,       \* audit_projection_queue and audit_outbox, a row per event
  work,       \* per worker: the batch it has claimed, or <<>>
  rebuild,    \* the rebuild under way: how many steps it has done, the events it read
  current,    \* audit_task_current_state: last event of each task, 0 for none
  history,    \* audit_task_history
  delivered,  \* events the publisher has accepted
  refused,    \* history: appends answered with an error
  disturbed,  \* history: tasks whose events were not applied one by one
  faults,     \* bound: rollbacks and failures so far
  rebuilds    \* bound: rebuilds so far

vars == <<log, append, rows, work, rebuild, current, history, delivered,
          refused, disturbed, faults, rebuilds>>

Tasks == {r.task : r \in Requests}
Workers == Projectors \cup Publishers
QueueOf(w) == IF w \in Projectors THEN "projection" ELSE "outbox"
Queues == {"projection", "outbox"}

NewRow == [status |-> "pending", attempts |-> 0]

Init == /\ log = <<>>
        /\ append = [c \in Clients |-> <<>>]
        /\ rows = [q \in Queues |-> <<>>]
        /\ work = [w \in Workers |-> <<>>]
        /\ rebuild = [done |-> 0, read |-> 0]
        /\ current = [t \in Tasks |-> 0]
        /\ history = {}
        /\ delivered = {}
        /\ refused = {}
        /\ disturbed = {}
        /\ faults = 0
        /\ rebuilds = 0

-----------------------------------------------------------------------------
(* Appends.                                                                *)

EventsOf(t) == {i \in DOMAIN log : log[i].task = t}
Newest(S) == IF S = {} THEN 0 ELSE CHOOSE i \in S : \A j \in S : j <= i

\* The transaction-level advisory lock of a task is held by an append of it.
\* Mutant: BEGIN without the lock.
SequenceUnlocked(t) == TRUE
SequenceFree(t) ==
  \A c \in Clients : append[c] # <<>> => append[c].task # t

\* BEGIN, the lock, and the two reads: a known key is answered with the event
\* it names, which changes nothing; otherwise the next sequence number of the task is taken.
BeginAppend(c, r) ==
  /\ append[c] = <<>>
  /\ Len(log) < MaxEvents
  /\ SequenceFree(r.task)
  /\ \A i \in DOMAIN log : log[i].key # r.key
  /\ append' = [append EXCEPT ![c] =
       [task |-> r.task, key |-> r.key,
        seq  |-> 1 + Newest({log[i].seq : i \in EventsOf(r.task)})]]
  /\ UNCHANGED <<log, rows, work, rebuild, current, history, delivered,
                 refused, disturbed, faults, rebuilds>>

\* The inserts and COMMIT; the two unique indexes refuse an event whose key
\* or number was committed since it was looked up.
Collides(e) == \E i \in DOMAIN log :
  log[i].key = e.key \/ (log[i].task = e.task /\ log[i].seq = e.seq)

CommitAppend(c) ==
  LET e == append[c] IN
  /\ e # <<>>
  /\ \/ /\ Collides(e)
        /\ refused' = refused \cup {[task |-> e.task, key |-> e.key]}
        /\ UNCHANGED <<log, rows>>
     \/ /\ ~Collides(e)
        /\ Len(log) < MaxEvents
        /\ log' = Append(log, e)
        /\ rows' = [q \in Queues |-> Append(rows[q], NewRow)]
        /\ UNCHANGED refused
  /\ append' = [append EXCEPT ![c] = <<>>]
  /\ UNCHANGED <<work, rebuild, current, history, delivered, disturbed,
                 faults, rebuilds>>

LoseAppend(c) ==
  /\ append[c] # <<>>
  /\ faults < MaxFaults
  /\ faults' = faults + 1
  /\ append' = [append EXCEPT ![c] = <<>>]
  /\ UNCHANGED <<log, rows, work, rebuild, current, history, delivered,
                 refused, disturbed, rebuilds>>

-----------------------------------------------------------------------------
(* Workers.  todo: rows claimed and not yet worked on.  ok, bad: rows that *)
(* were applied or delivered, and rows that failed.  last: per task, the   *)
(* event its row was last folded with in this transaction.                 *)

Busy(w) == work[w] # <<>>
ClaimOf(w) == work[w].todo \cup work[w].ok \cup work[w].bad
Held(q) == UNION {ClaimOf(w) : w \in {v \in Workers : QueueOf(v) = q /\ Busy(v)}}

\* Mutant: the rows other workers have locked are not skipped.
ClaimableLocked(q) == {i \in DOMAIN rows[q] : rows[q][i].status = "pending"}
Claimable(q) == {i \in DOMAIN rows[q] : rows[q][i].status = "pending"} \ Held(q)

\* ORDER BY id LIMIT.
Batch(S) == {i \in S : Cardinality({j \in S : j < i}) < BatchSize}

\* Tasks with another event at work, or with two events in the batch: their
\* events are not applied one by one.
Overlapped(B) ==
  {t \in Tasks : \E i \in B : /\ log[i].task = t
                              /\ \E j \in B \cup Held("projection") :
                                   i # j /\ log[j].task = t}

Claim(w) ==
  LET q == QueueOf(w)  B == Batch(Claimable(q)) IN
  /\ ~Busy(w)
  /\ B # {}
  /\ work' = [work EXCEPT ![w] =
       [todo |-> B, ok |-> {}, bad |-> {}, last |-> [t \in Tasks |-> 0]]]
  /\ disturbed' = disturbed \cup IF q = "projection" THEN Overlapped(B) ELSE {}
  /\ UNCHANGED <<log, append, rows, rebuild, current, history, delivered,
                 refused, faults, rebuilds>>

\* Mutant: the events are read before the tables are emptied.
ReadsFirst == <<"read", "truncate", "commit">>
RebuildSteps == <<"truncate", "read", "commit">>

\* A rebuild holds the projection tables from its TRUNCATE to its end; a row
\* that was worked on has read them, whatever came of it.  Of two transactions
\* that write one task's row the second waits for the first, so the row is left
\* by the last to commit.
Truncated == \E n \in 1 .. rebuild.done : RebuildSteps[n] = "truncate"
Touched(w) == Busy(w) /\ work[w].ok \cup work[w].bad # {}

\* The order in which the claim's UPDATE returns the rows is not said.
Apply(w, i) ==
  /\ w \in Projectors /\ Busy(w) /\ i \in work[w].todo
  /\ ~Truncated
  /\ work' = [work EXCEPT ![w].todo = @ \ {i}, ![w].ok = @ \cup {i},
                          ![w].last[log[i].task] = i]
  /\ UNCHANGED <<delivered, faults>>

\* Both outcomes of a publisher that throws: the event out, or not.
Deliver(w, i) ==
  /\ w \in Publishers /\ Busy(w) /\ i \in work[w].todo
  /\ work' = [work EXCEPT ![w].todo = @ \ {i}, ![w].ok = @ \cup {i}]
  /\ delivered' = delivered \cup {i}
  /\ UNCHANGED faults

FailRow(w, i) ==
  /\ Busy(w) /\ i \in work[w].todo
  /\ w \in Projectors => ~Truncated
  /\ faults < MaxFaults
  /\ faults' = faults + 1
  /\ work' = [work EXCEPT ![w].todo = @ \ {i}, ![w].bad = @ \cup {i}]
  /\ \/ UNCHANGED delivered
     \/ w \in Publishers /\ delivered' = delivered \cup {i}

Step(w) ==
  /\ \E i \in DOMAIN log : Apply(w, i) \/ Deliver(w, i) \/ FailRow(w, i)
  /\ UNCHANGED <<log, append, rows, rebuild, current, history, refused,
                 disturbed, rebuilds>>

Done(q, r) == [r EXCEPT !.status = IF q = "projection" THEN "processed" ELSE "published"]

\* Mutant: a failed row stays with the claim of its worker.
FailedInPlace(r) == [status |-> "processing", attempts |-> r.attempts + 1]
\* available_at lies in the future, or the row is given up.
Failed(r) == [status   |-> IF r.attempts + 1 >= MaxAttempts
                           THEN "dead_letter" ELSE "backoff",
              attempts |-> r.attempts + 1]

Commit(w) ==
  LET q == QueueOf(w)  x == work[w] IN
  /\ Busy(w) /\ x.todo = {}
  /\ rows' = [rows EXCEPT ![q] = [i \in DOMAIN @ |->
       IF i \in x.ok THEN Done(q, @[i])
       ELSE IF i \in x.bad THEN Failed(@[i]) ELSE @[i]]]
  /\ \/ /\ q = "projection"
        /\ current' = [t \in Tasks |-> IF x.last[t] = 0 THEN current[t] ELSE x.last[t]]
        /\ history' = history \cup x.ok
        /\ disturbed' = disturbed \cup {log[i].task : i \in x.bad}
     \/ /\ q = "outbox"
        /\ UNCHANGED <<current, history, disturbed>>
  /\ work' = [work EXCEPT ![w] = <<>>]
  /\ UNCHANGED <<log, append, rebuild, delivered, refused, faults, rebuilds>>

Rollback(w) ==
  /\ Busy(w)
  /\ faults < MaxFaults
  /\ faults' = faults + 1
  /\ work' = [work EXCEPT ![w] = <<>>]
  /\ UNCHANGED <<log, append, rows, rebuild, current, history, delivered,
                 refused, disturbed, rebuilds>>

\* available_at passes.
Ripen(q, i) ==
  /\ i \in DOMAIN rows[q] /\ rows[q][i].status = "backoff"
  /\ rows' = [rows EXCEPT ![q][i].status = "pending"]
  /\ UNCHANGED <<log, append, work, rebuild, current, history, delivered,
                 refused, disturbed, faults, rebuilds>>

-----------------------------------------------------------------------------
(* The rebuild.                                                            *)

NextStep == RebuildSteps[rebuild.done + 1]

\* TRUNCATE waits for every transaction that has read or written the tables.
Truncate ==
  /\ NextStep = "truncate"
  /\ rebuilds < MaxRebuilds
  /\ \A w \in Projectors : ~Touched(w)
  /\ rebuild' = [rebuild EXCEPT !.done = @ + 1]
  /\ UNCHANGED <<current, history, rebuilds>>

ReadEvents ==
  /\ NextStep = "read"
  /\ rebuilds < MaxRebuilds
  /\ rebuild' = [done |-> rebuild.done + 1, read |-> Len(log)]
  /\ UNCHANGED <<current, history, rebuilds>>

\* The fold of the events read, and COMMIT.
CommitRebuild ==
  /\ NextStep = "commit"
  /\ current' = [t \in Tasks |-> Newest(EventsOf(t) \cap 1 .. rebuild.read)]
  /\ history' = 1 .. rebuild.read
  /\ rebuild' = [done |-> 0, read |-> 0]
  /\ rebuilds' = rebuilds + 1

Rebuild == /\ Truncate \/ ReadEvents \/ CommitRebuild
           /\ UNCHANGED <<log, append, rows, work, delivered, refused,
                          disturbed, faults>>

RollbackRebuild ==
  /\ rebuild.done # 0
  /\ faults < MaxFaults
  /\ faults' = faults + 1
  /\ rebuild' = [done |-> 0, read |-> 0]
  /\ UNCHANGED <<log, append, rows, work, current, history, delivered,
                 refused, disturbed, rebuilds>>

-----------------------------------------------------------------------------
Next ==
  \/ \E c \in Clients : \/ \E r \in Requests : BeginAppend(c, r)
                        \/ CommitAppend(c)
                        \/ LoseAppend(c)
  \/ \E w \in Workers : Claim(w) \/ Step(w) \/ Commit(w) \/ Rollback(w)
  \/ \E q \in Queues, i \in 1 .. MaxEvents : Ripen(q, i)
  \/ Rebuild
  \/ RollbackRebuild

\* Workers run in supervised loops and a transaction begun goes on; available_at
\* passes.  A row that fails for ever, as one whose statement the database
\* refuses each time, is left out: faults are bounded.
Fairness ==
  /\ \A w \in Workers : WF_vars(Claim(w) \/ Step(w) \/ Commit(w))
  /\ WF_vars(\E q \in Queues, i \in 1 .. MaxEvents : Ripen(q, i))
  /\ WF_vars(rebuild.done # 0 /\ Rebuild)

Spec == Init /\ [][Next]_vars /\ Fairness

-----------------------------------------------------------------------------
(* Properties.                                                             *)

\* An append is refused only for a key that an event of another task took
\* meanwhile: appends to one task never collide on their sequence number, and
\* a repeated key of the same task is answered, not refused (postgres.js, the
\* advisory lock).
RefusedForForeignKey ==
  \A r \in refused :
    \E i \in DOMAIN log : log[i].key = r.key /\ log[i].task # r.task

\* A row is acknowledged only with its effect in place, and the effect stays:
\* a processed event is in the history through rollbacks and rebuilds, and a
\* published one was delivered (postgres-base.js, processProjectionQueue,
\* processOutbox, rebuildProjections).
AckedHasEffect ==
  /\ \A i \in DOMAIN log :
       rows["projection"][i].status = "processed" => i \in history
  /\ \A i \in DOMAIN log :
       rows["outbox"][i].status = "published" => i \in delivered

\* While a task's events are applied one by one, in whatever processes, its
\* projected row is never older than its newest processed event: neither a
\* rollback nor a rebuild beside a full queue takes it back (applyProjection
\* overwrites the row whatever it holds).
NeverTakenBack ==
  \A t \in Tasks \ disturbed :
    \A i \in EventsOf(t) :
      rows["projection"][i].status = "processed" => current[t] >= i

\* Each queue as TransactionalQueue sees it: a row that waits for available_at
\* is waiting, a worker's hands are full from its claim to the end of its transaction,
\* and the effect is the event in the history, or delivered.
Seen(r) == CASE r.status \in {"processed", "published"} -> "acked"
             [] r.status = "dead_letter"                -> "dead"
             [] OTHER                                   -> "waiting"

StatusOf(q, i)   == IF i \in DOMAIN rows[q] THEN Seen(rows[q][i]) ELSE "absent"
FailuresOf(q, i) == IF i \in DOMAIN rows[q] THEN rows[q][i].attempts ELSE 0
EffectsOf(q)     == IF q = "projection" THEN history ELSE delivered
HandOf(w)        == IF Busy(w) THEN ClaimOf(w) ELSE {}
WorkersOf(q)     == {w \in Workers : QueueOf(w) = q}

Statuses(q) == [i \in 1 .. MaxEvents |-> StatusOf(q, i)]
Failures(q) == [i \in 1 .. MaxEvents |-> FailuresOf(q, i)]
Hands(q)    == [w \in WorkersOf(q) |-> HandOf(w)]

Queue(q) == INSTANCE TransactionalQueue WITH
  Items    <- 1 .. MaxEvents,
  Workers  <- WorkersOf(q),
  Limit    <- MaxAttempts,
  status   <- Statuses(q),
  failures <- Failures(q),
  hands    <- Hands(q),
  effects  <- EffectsOf(q)

\* Either queue keeps its contract: whatever workers, rollbacks and rebuilds
\* do beside each other, what they make of the rows of a queue is a worker taking,
\* closing or abandoning a batch that is its own (postgres-base.js, claimQueueRows,
\* processProjectionQueue, processOutbox).
QueuesKeepContract ==
  /\ Queue("projection")!Init /\ [][Queue("projection")!Next]_(Queue("projection")!vars)
  /\ Queue("outbox")!Init /\ [][Queue("outbox")!Next]_(Queue("outbox")!vars)

Settled(i) ==
  /\ rows["projection"][i].status \in {"processed", "dead_letter"}
  /\ rows["outbox"][i].status \in {"published", "dead_letter"}

\* Both queues are drained again and again, every row worked off or given up:
\* no claim outlives its transaction, and no rebuild, rollback or failed row
\* holds up the rest (workers.js).
QueuesDrain == []<>(\A i \in DOMAIN log : Settled(i))
=============================================================================
