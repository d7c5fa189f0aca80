---------------------------- MODULE FactoryQueue ----------------------------
(***************************************************************************)
(* The durable factory delivery queue: the rows of the Postgres table      *)
(* factory_delivery_queue and the orchestrator processes that lease them.  *)
(*                                                                         *)
(* A tick of an orchestrator claims a batch of rows in one transaction     *)
(* (recovering every expired lease first), advances the claimed items one  *)
(* after the other in memory, and releases each with an UPDATE fenced by   *)
(* the worker id, the lock timestamp and the lease expiry.  Between claim  *)
(* and release the process holds no database lock: leases expire, other    *)
(* processes claim, an operator requeues, the process itself may stop.     *)
(*                                                                         *)
(* One tick of "now" stands for any amount of time; all durations are in   *)
(* that unit.  What advancing an item does is left open here (any outcome  *)
(* the delivery code can return); module FactoryDelivery fills it in.      *)
(***************************************************************************)
EXTENDS Naturals, FiniteSets

CONSTANTS
  Items,          \* queue rows, one per idempotency key
  Workers,        \* orchestrator processes
  WorkerIds,      \* values of FACTORY_WORKER_ID
  IdOf,           \* the worker id a process runs with; ids may be shared
  Tasks,          \* task ids the intake may create
  None,           \* SQL NULL
  LeaseSeconds,   \* FACTORY_QUEUE_LEASE_SECONDS
  RetryBase,      \* FACTORY_QUEUE_RETRY_BASE_SECONDS
  RetryCap,       \* the 15 minute ceiling of the retry delay
  RowMax,         \* max_attempts of a row, the submitter's configuration
  ReleaseMax,     \* factoryQueueMaxAttempts of the releasing orchestrator
  BatchSize,      \* FACTORY_ORCHESTRATOR_BATCH
  MaxTime,        \* bound: the clock stops here
  MaxClaims       \* bound: claims counted per item

ASSUME QueueAssumption ==
  /\ IdOf \in [Workers -> WorkerIds]
  /\ None \notin WorkerIds
  /\ LeaseSeconds \in Nat \ {0}
  /\ RetryBase \in Nat \ {0}
  /\ RetryCap \in Nat \ {0}
  /\ RowMax \in Nat \ {0}
  /\ ReleaseMax \in Nat \ {0}
  /\ BatchSize \in Nat \ {0}
  /\ MaxTime \in Nat
  /\ MaxClaims \in Nat

VARIABLES
  row,      \* the table: one record per item, stage "absent" before INSERT
  now,      \* the database clock
  pending,  \* per process: claims of the running tick not yet started
  current,  \* per process: the claim being advanced, or None
  outcome,  \* per process: what advancing it returned, or None
  epoch     \* history: how often each item has been claimed

vars == <<row, now, pending, current, outcome, epoch>>

-----------------------------------------------------------------------------
(* Stages, rows, claims and outcomes.                                      *)

Recoverable == {"queued", "intake_complete", "phase1_complete", "phase6_complete"}
Terminal    == {"completed", "dead_letter"}
RowStages   == Recoverable \cup Terminal

\* Position of a stage in the delivery.
Rank(s) == CASE s = "queued"          -> 1
             [] s = "intake_complete" -> 2
             [] s = "phase1_complete" -> 3
             [] s = "phase6_complete" -> 4
             [] s = "completed"       -> 5
             [] OTHER                 -> 0

Row == [ stage       : RowStages \cup {"absent"},
         attempts    : Nat,
         availableAt : Nat,
         lockedBy    : WorkerIds \cup {None},
         lockedAt    : Nat,
         leaseUntil  : Nat,
         task        : Tasks \cup {None},
         failedStage : Recoverable \cup {None} ]

Claim == [ item     : Items,
           lockedAt : Nat,
           stage    : Recoverable,
           attempts : Nat,
           task     : Tasks \cup {None},
           epoch    : Nat ]

Outcome == [ error : BOOLEAN,
             stage : RowStages \cup {"failed"},
             task  : Tasks \cup {None} ]

ASSUME NoneAssumption == /\ None \notin Claim /\ None \notin Outcome
                         /\ None \notin Recoverable

AbsentRow == [ stage |-> "absent", attempts |-> 0, availableAt |-> 0,
               lockedBy |-> None, lockedAt |-> 0, leaseUntil |-> 0,
               task |-> None, failedStage |-> None ]

\* Mutant: the owner is not cleared.
UnlockedKeepsOwner(r) == [ r EXCEPT !.lockedAt = 0, !.leaseUntil = 0 ]

Unlocked(r) == [ r EXCEPT !.lockedBy = None, !.lockedAt = 0, !.leaseUntil = 0 ]

\* Linear back-off, capped.
RetryDelay(attempts) ==
  IF RetryBase * attempts < RetryCap THEN RetryBase * attempts ELSE RetryCap

\* Claims a process still holds in memory.
Held(p) == pending[p] \cup ({current[p]} \ {None})

-----------------------------------------------------------------------------
(* What an advance may return for a claimed item.                          *)

\* The stage a success can record.  The item is worked on from the stage
\* the evidence file proves, which is never behind the row's; a phase 1 that
\* leaves no phase1_complete evidence is reported "failed" without an error,
\* and phases 2 to 6 that leave no phase6_complete evidence stay put.
NextStages(s) ==
  CASE s = "queued"          -> {"intake_complete"}
    [] s = "intake_complete" -> {"phase1_complete", "failed"}
    [] s = "phase1_complete" -> {"phase6_complete", "phase1_complete"}
    [] s = "phase6_complete" -> {"completed"}

\* Only an intake names a task, and only an item without one is taken in.
AdvanceOutcomes(c) ==
       { [error |-> TRUE, stage |-> "failed", task |-> c.task] }
  \cup { [error |-> FALSE, stage |-> "intake_complete", task |-> t] :
           t \in IF c.stage = "queued" /\ c.task = None THEN Tasks ELSE {} }
  \cup UNION { { [error |-> FALSE, stage |-> t, task |-> c.task] : t \in NextStages(s) } :
               s \in { u \in Recoverable \ {"queued"} : Rank(u) >= Rank(c.stage) } }

-----------------------------------------------------------------------------
(* Rows as the UPDATE statements leave them.                               *)

LockExpired(r) == /\ r.lockedBy # None
                  /\ r.leaseUntil <= now
                  /\ r.stage \notin Terminal

\* An expired lease costs one attempt, whoever held it.
Recovered(r) ==
  LET dead == r.attempts + 1 >= RowMax
  IN  [ Unlocked(r) EXCEPT
          !.attempts    = @ + 1,
          !.stage       = IF dead THEN "dead_letter" ELSE @,
          !.availableAt = IF dead THEN now ELSE now + RetryDelay(r.attempts + 1),
          !.failedStage = IF dead THEN r.stage ELSE @ ]

\* Mutant: the claim does not look at the lease.
ClaimableIgnoringLease(r) == r.stage \in Recoverable /\ r.availableAt <= now

Claimable(r) == /\ r.stage \in Recoverable
                /\ r.availableAt <= now
                /\ (r.lockedBy = None \/ r.leaseUntil <= now)

Locked(r, p) == [ r EXCEPT !.lockedBy   = IdOf[p],
                           !.lockedAt   = now,
                           !.leaseUntil = now + LeaseSeconds ]

ClaimOf(i, r, e) == [ item |-> i, lockedAt |-> now, stage |-> r.stage,
                      attempts |-> r.attempts, task |-> r.task, epoch |-> e ]

\* Mutant: one failure too many before the dead letter.
ReleasedOneLate(r, c, o) ==
  LET failures == IF o.error THEN c.attempts + 1 ELSE 0
      dead     == o.error /\ failures > ReleaseMax
  IN  [ Unlocked(r) EXCEPT
          !.stage       = IF dead THEN "dead_letter"
                          ELSE IF o.error THEN c.stage ELSE o.stage,
          !.attempts    = failures,
          !.availableAt = IF o.error /\ ~dead THEN now + RetryDelay(failures) ELSE now,
          !.task        = IF o.task = None THEN @ ELSE o.task,
          !.failedStage = IF dead THEN c.stage ELSE @ ]

\* The release statement: attempts and stage come from the claim's snapshot,
\* the outcome decides between progress, retry and dead letter.
Released(r, c, o) ==
  LET failures == IF o.error THEN c.attempts + 1 ELSE 0
      dead     == o.error /\ failures >= ReleaseMax
  IN  [ Unlocked(r) EXCEPT
          !.stage       = IF dead THEN "dead_letter"
                          ELSE IF o.error THEN c.stage ELSE o.stage,
          !.attempts    = failures,
          !.availableAt = IF o.error /\ ~dead THEN now + RetryDelay(failures) ELSE now,
          !.task        = IF o.task = None THEN @ ELSE o.task,
          !.failedStage = IF dead THEN c.stage ELSE @ ]

\* Mutant: the fence compares worker and expiry, not the lock timestamp.
CanReleaseById(p, c) == /\ row[c.item].lockedBy = IdOf[p]
                        /\ row[c.item].leaseUntil > now

\* The WHERE clause of the release statement.
CanRelease(p, c) == /\ row[c.item].lockedBy = IdOf[p]
                    /\ row[c.item].lockedAt = c.lockedAt
                    /\ row[c.item].leaseUntil > now

\* Mutant: the delivery starts over.
RequeuedFromStart(r) ==
  [ Unlocked(r) EXCEPT !.stage = "queued", !.attempts = 0, !.availableAt = now,
                       !.task = None, !.failedStage = None ]

Requeued(r) ==
  [ Unlocked(r) EXCEPT
      !.stage       = IF r.failedStage \in Recoverable THEN r.failedStage ELSE "queued",
      !.attempts    = 0,
      !.availableAt = now,
      !.failedStage = None ]

-----------------------------------------------------------------------------
(* Actions.                                                                *)

Init ==
  /\ row     = [i \in Items |-> AbsentRow]
  /\ now     = 0
  /\ pending = [p \in Workers |-> {}]
  /\ current = [p \in Workers |-> None]
  /\ outcome = [p \in Workers |-> None]
  /\ epoch   = [i \in Items |-> 0]

\* INSERT ... ON CONFLICT (idempotency_key): a second submit changes nothing.
Submit(i) ==
  /\ row[i].stage = "absent"
  /\ row' = [row EXCEPT ![i] = [AbsentRow EXCEPT !.stage = "queued", !.availableAt = now]]
  /\ UNCHANGED <<now, pending, current, outcome, epoch>>

\* The table after the recovery statement that opens every claim transaction.
AfterRecovery ==
  [i \in Items |-> IF LockExpired(row[i]) THEN Recovered(row[i]) ELSE row[i]]

\* Rows the claim statement takes from table t: at most a batch, the ones
\* available longest.  SKIP LOCKED makes concurrent claim transactions take
\* disjoint rows, which is what some serial order of them does.
ClaimSet(t, S) ==
  LET open == {i \in Items : Claimable(t[i])}
  IN  /\ S \subseteq open
      /\ Cardinality(S) = IF Cardinality(open) < BatchSize
                          THEN Cardinality(open) ELSE BatchSize
      /\ \A i \in S, j \in open \ S : t[i].availableAt <= t[j].availableAt

\* One transaction: recover expired leases, claim a batch.
ClaimBatch(p, S) ==
  /\ Held(p) = {}
  /\ ClaimSet(AfterRecovery, S)
  /\ \A i \in S : epoch[i] < MaxClaims
  /\ row' = [i \in Items |-> IF i \in S THEN Locked(AfterRecovery[i], p)
                                       ELSE AfterRecovery[i]]
  /\ epoch' = [i \in Items |-> IF i \in S THEN epoch[i] + 1 ELSE epoch[i]]
  /\ pending' = [pending EXCEPT ![p] =
                   {ClaimOf(i, AfterRecovery[i], epoch[i] + 1) : i \in S}]
  /\ UNCHANGED <<now, current, outcome>>

\* The tick takes up the next of its claims; the row is not read again.
BeginAdvance(p, c) ==
  /\ current[p] = None
  /\ c \in pending[p]
  /\ pending' = [pending EXCEPT ![p] = @ \ {c}]
  /\ current' = [current EXCEPT ![p] = c]
  /\ UNCHANGED <<row, now, outcome, epoch>>

EndAdvance(p, o) ==
  /\ current[p] # None
  /\ outcome[p] = None
  /\ o \in AdvanceOutcomes(current[p])
  /\ outcome' = [outcome EXCEPT ![p] = o]
  /\ UNCHANGED <<row, now, pending, current, epoch>>

\* Mutant: the stage is not held against the table's CHECK.
ReleaseAnyStage(p) ==
  /\ outcome[p] # None
  /\ CanRelease(p, current[p])
  /\ row' = [row EXCEPT ![current[p].item] = Released(@, current[p], outcome[p])]
  /\ current' = [current EXCEPT ![p] = None]
  /\ outcome' = [outcome EXCEPT ![p] = None]
  /\ UNCHANGED <<now, pending, epoch>>

\* The release commits: fence satisfied, new stage legal for the table.
Release(p) ==
  /\ outcome[p] # None
  /\ LET c == current[p]
         o == outcome[p]
         r == Released(row[c.item], c, o)
     IN  /\ CanRelease(p, c)
         /\ r.stage \in RowStages
         /\ row' = [row EXCEPT ![c.item] = r]
  /\ current' = [current EXCEPT ![p] = None]
  /\ outcome' = [outcome EXCEPT ![p] = None]
  /\ UNCHANGED <<now, pending, epoch>>

\* The release throws and with it the tick: the lease was lost, the stage
\* violates the table's CHECK, or the completion proof no longer verifies.
\* The batch's other claims stay locked until their leases expire.
ReleaseThrows(p) ==
  /\ outcome[p] # None
  /\ LET c == current[p]
         o == outcome[p]
     IN  \/ ~CanRelease(p, c)
         \/ Released(row[c.item], c, o).stage \notin RowStages
         \/ ~o.error /\ o.stage = "completed"
  /\ current' = [current EXCEPT ![p] = None]
  /\ outcome' = [outcome EXCEPT ![p] = None]
  /\ pending' = [pending EXCEPT ![p] = {}]
  /\ UNCHANGED <<row, now, epoch>>

\* The process stops, or loses its database connection, at any point.
Crash(p) ==
  /\ Held(p) # {}
  /\ current' = [current EXCEPT ![p] = None]
  /\ outcome' = [outcome EXCEPT ![p] = None]
  /\ pending' = [pending EXCEPT ![p] = {}]
  /\ UNCHANGED <<row, now, epoch>>

\* An operator requeues a dead-lettered row (the real-delivery preflight may
\* refuse, which changes nothing).
Requeue(i) ==
  /\ row[i].stage = "dead_letter"
  /\ row' = [row EXCEPT ![i] = Requeued(@)]
  /\ UNCHANGED <<now, pending, current, outcome, epoch>>

Tick ==
  /\ now < MaxTime
  /\ now' = now + 1
  /\ UNCHANGED <<row, pending, current, outcome, epoch>>

Next ==
  \/ \E i \in Items : Submit(i) \/ Requeue(i)
  \/ \E p \in Workers, S \in SUBSET Items : ClaimBatch(p, S)
  \/ \E p \in Workers : \E c \in pending[p] : BeginAdvance(p, c)
  \/ \E p \in Workers, o \in Outcome : EndAdvance(p, o)
  \/ \E p \in Workers : Release(p) \/ ReleaseThrows(p) \/ Crash(p)
  \/ Tick

Spec == Init /\ [][Next]_vars

-----------------------------------------------------------------------------
(* Properties.                                                             *)

\* The table and the processes hold values of their types.
TypeOK ==
  /\ row \in [Items -> Row]
  /\ now \in Nat
  /\ pending \in [Workers -> SUBSET Claim]
  /\ current \in [Workers -> Claim \cup {None}]
  /\ outcome \in [Workers -> Outcome \cup {None}]
  /\ \A p \in Workers : outcome[p] # None => current[p] # None
  /\ epoch \in [Items -> Nat]

\* Of all the claims of one item that processes still hold in memory, stale
\* ones of slow or resumed processes included, at most one passes the fence
\* of the release statement.  Worker ids may be shared between processes, so
\* this rests on the lock timestamp and on recovery pushing availability
\* past the moment of recovery.
ExclusiveRelease ==
  \A p, q \in Workers : \A c \in Held(p), d \in Held(q) :
    c.item = d.item /\ CanRelease(p, c) /\ CanRelease(q, d) => p = q /\ c = d

\* A claim that passes the fence is the item's latest claim, and the stage and
\* attempt count it snapshotted are those of the row: what release computes
\* from the snapshot (attempts + 1, the claimed stage) is not stale.
SnapshotFresh ==
  \A p \in Workers : \A c \in Held(p) :
    CanRelease(p, c) =>
      /\ c.epoch = epoch[c.item]
      /\ c.stage = row[c.item].stage
      /\ c.attempts = row[c.item].attempts

\* A row still in delivery has failed fewer times in a row than the larger of
\* the two limits the code applies (the row's own at recovery, the
\* orchestrator's at release), and a dead letter has used up the smaller.
AttemptBudget ==
  \A i \in Items :
    /\ row[i].stage \in Recoverable => row[i].attempts < RowMax \/ row[i].attempts < ReleaseMax
    /\ row[i].stage = "dead_letter" => row[i].attempts >= RowMax \/ row[i].attempts >= ReleaseMax

\* Only a row in delivery is ever locked: a completed or dead-lettered row has
\* no owner left who could still write to it, and a dead letter knows the
\* stage it is to resume from.
TerminalRowsUnowned ==
  \A i \in Items :
    /\ row[i].lockedBy # None => row[i].stage \in Recoverable
    /\ row[i].stage = "dead_letter" <=> row[i].failedStage # None

\* How far an item has come; a dead letter stands where it failed.
Position(r) == IF r.stage = "dead_letter" THEN Rank(r.failedStage) ELSE Rank(r.stage)

\* No step (stale release, lease recovery, dead letter, requeue) ever takes an
\* item back behind a stage it had recorded, and completion is final.
ProgressKept ==
  [][\A i \in Items : /\ Position(row'[i]) >= Position(row[i])
                      /\ row[i].stage = "completed" => row'[i] = row[i]]_row

\* An item changes hands only after the previous owner's lease ran out or the
\* owner gave the item back: no claim ever takes over a live lease.
NoLiveTakeover ==
  [][\A i \in Items : epoch'[i] # epoch[i] =>
       row[i].lockedBy = None \/ row[i].leaseUntil <= now]_vars

-----------------------------------------------------------------------------
(* Why the fence works: the inductive invariant behind ExclusiveRelease,   *)
(* SnapshotFresh and TerminalRowsUnowned.                                  *)

\* Claim c of process p is the lock its row carries.
CurrentClaim(p, c) ==
  /\ c.epoch = epoch[c.item]
  /\ row[c.item].lockedBy = IdOf[p]
  /\ row[c.item].lockedAt = c.lockedAt
  /\ row[c.item].stage = c.stage
  /\ row[c.item].attempts = c.attempts

\* Claim c outlived its lease, and no lock taken within that lease remains.
StaleClaim(c) ==
  /\ c.lockedAt + LeaseSeconds <= now
  /\ \/ row[c.item].lockedBy = None
     \/ c.lockedAt + LeaseSeconds <= row[c.item].lockedAt

\* A locked row is in delivery, under a lease of the full length that began
\* in the past; failedStage goes with the dead letter.
RowInv ==
  \A i \in Items :
    /\ row[i].lockedBy # None =>
         /\ row[i].stage \in Recoverable
         /\ row[i].lockedAt <= now
         /\ row[i].leaseUntil = row[i].lockedAt + LeaseSeconds
    /\ row[i].stage = "dead_letter" <=> row[i].failedStage # None

\* Claims in memory are the row's lock or stale, and never two for one epoch.
ClaimInv ==
  /\ \A p \in Workers : \A c \in Held(p) :
       c.epoch <= epoch[c.item] /\ (CurrentClaim(p, c) \/ StaleClaim(c))
  /\ \A p, q \in Workers : \A c \in Held(p), d \in Held(q) :
       c.item = d.item /\ c.epoch = d.epoch => p = q /\ c = d

\* What a process carries through its tick.
TickInv ==
  \A p \in Workers :
    /\ current[p] \notin pending[p]
    /\ outcome[p] # None => outcome[p] \in AdvanceOutcomes(current[p])

\* The row's locks and the claims in memory belong together: holds in every
\* reachable state and is preserved by every step of a well-typed state.
FenceInv == RowInv /\ ClaimInv /\ TickInv

-----------------------------------------------------------------------------
(* The queue implements its contract: an item is owned while its row is    *)
(* locked, and in a process's hands while the process holds the claim that *)
(* locked it.  The clock, the claims in memory and stale claims disappear. *)

Valid(c) == row[c.item].lockedBy # None /\ c.epoch = epoch[c.item]

StatusOf(r) == CASE r.stage = "absent"      -> "absent"
                 [] r.stage = "completed"   -> "done"
                 [] r.stage = "dead_letter" -> "dead"
                 [] OTHER -> IF r.lockedBy = None THEN "ready" ELSE "owned"

HandsOf(p) == {c.item : c \in {d \in Held(p) : Valid(d)}}

Contract == INSTANCE LeaseContract WITH
  Least    <- IF RowMax < ReleaseMax THEN RowMax ELSE ReleaseMax,
  Most     <- IF RowMax < ReleaseMax THEN ReleaseMax ELSE RowMax,
  Last     <- 5,
  status   <- [i \in Items |-> StatusOf(row[i])],
  place    <- [i \in Items |-> Position(row[i])],
  failures <- [i \in Items |-> row[i].attempts],
  hands    <- [p \in Workers |-> HandsOf(p)]

\* Every behaviour of the queue is one the contract allows.
ImplementsContract == Contract!Spec

=============================================================================
