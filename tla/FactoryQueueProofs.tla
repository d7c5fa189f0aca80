-------------------------- MODULE FactoryQueueProofs --------------------------
(***************************************************************************)
(* Proofs about FactoryQueue, for every number of items and processes,     *)
(* every assignment of worker ids, and every lease, delay and limit.       *)
(***************************************************************************)
EXTENDS FactoryQueue, TLAPS

-----------------------------------------------------------------------------
(* What the row operators return.                                          *)

\* A retry is never due at the moment the failure is recorded.
LEMMA RetryDelayPositive ==
  ASSUME NEW n \in Nat, n > 0
  PROVE  RetryDelay(n) \in Nat /\ RetryDelay(n) > 0
<1>1. RetryBase * n \in Nat /\ RetryBase * n > 0
  BY QueueAssumption
<1> QED BY <1>1, QueueAssumption DEF RetryDelay

\* The fields of a recovered row.
LEMMA RecoveredFields ==
  ASSUME NEW r \in Row
  PROVE  LET dead == r.attempts + 1 >= RowMax
         IN  /\ Recovered(r).lockedBy = None
             /\ Recovered(r).attempts = r.attempts + 1
             /\ dead => /\ Recovered(r).stage = "dead_letter"
                        /\ Recovered(r).failedStage = r.stage
             /\ ~dead => /\ Recovered(r).stage = r.stage
                         /\ Recovered(r).failedStage = r.failedStage
                         /\ Recovered(r).availableAt = now + RetryDelay(r.attempts + 1)
<1> DEFINE dead == r.attempts + 1 >= RowMax
           delay == RetryDelay(r.attempts + 1)
<1>1. Recovered(r) = [ Unlocked(r) EXCEPT
          !.attempts    = r.attempts + 1,
          !.stage       = IF dead THEN "dead_letter" ELSE r.stage,
          !.availableAt = IF dead THEN now ELSE now + delay,
          !.failedStage = IF dead THEN r.stage ELSE r.failedStage ]
  BY DEF Recovered, Unlocked, Row
<1> HIDE DEF dead, delay
<1>2. dead \in BOOLEAN
  BY DEF dead
<1>3. /\ Recovered(r).lockedBy = None
      /\ Recovered(r).attempts = r.attempts + 1
      /\ dead => /\ Recovered(r).stage = "dead_letter"
                 /\ Recovered(r).failedStage = r.stage
      /\ ~dead => /\ Recovered(r).stage = r.stage
                  /\ Recovered(r).failedStage = r.failedStage
                  /\ Recovered(r).availableAt = now + delay
  BY <1>1, <1>2, SMT DEF Unlocked, Row
<1> QED BY <1>3 DEF dead, delay

LEMMA RecoveredType ==
  ASSUME NEW r \in Row, now \in Nat, r.stage \in Recoverable
  PROVE  Recovered(r) \in Row
<1> DEFINE dead == r.attempts + 1 >= RowMax
           delay == RetryDelay(r.attempts + 1)
<1>1. /\ r.attempts + 1 \in Nat /\ now + delay \in Nat
      /\ "dead_letter" \in RowStages /\ r.stage \in RowStages
  BY RetryDelayPositive DEF Row, RowStages, Terminal
<1>2. Recovered(r) = [ Unlocked(r) EXCEPT
          !.attempts    = r.attempts + 1,
          !.stage       = IF dead THEN "dead_letter" ELSE r.stage,
          !.availableAt = IF dead THEN now ELSE now + delay,
          !.failedStage = IF dead THEN r.stage ELSE r.failedStage ]
  BY DEF Recovered, Unlocked, Row
<1>3. 0 \in Nat
  OBVIOUS
<1> HIDE DEF dead, delay
<1>4. Unlocked(r) \in Row
  BY <1>3, Zenon DEF Unlocked, Row
<1> QED BY <1>1, <1>2, <1>4, Zenon DEF Row

LEMMA LockedType ==
  ASSUME NEW r \in Row, NEW p \in Workers, now \in Nat
  PROVE  Locked(r, p) \in Row
<1>1. now + LeaseSeconds \in Nat /\ IdOf[p] \in WorkerIds
  BY QueueAssumption
<1> QED BY <1>1, Zenon DEF Locked, Row

LEMMA LockedFields ==
  ASSUME NEW r \in Row, NEW p \in Workers
  PROVE  /\ Locked(r, p).stage = r.stage
         /\ Locked(r, p).attempts = r.attempts
         /\ Locked(r, p).failedStage = r.failedStage
         /\ Locked(r, p).lockedBy = IdOf[p]
         /\ Locked(r, p).lockedAt = now
         /\ Locked(r, p).leaseUntil = now + LeaseSeconds
BY SMT DEF Locked, Row

\* The fields a release leaves; which of them count depends on the outcome.
LEMMA ReleasedFields ==
  ASSUME NEW r \in Row, NEW c \in Claim, NEW o \in Outcome
  PROVE  LET dead == o.error /\ c.attempts + 1 >= ReleaseMax
         IN  /\ Released(r, c, o).lockedBy = None
             /\ ~o.error => /\ Released(r, c, o).stage = o.stage
                            /\ Released(r, c, o).attempts = 0
             /\ o.error => Released(r, c, o).attempts = c.attempts + 1
             /\ o.error /\ ~dead => Released(r, c, o).stage = c.stage
             /\ ~dead => Released(r, c, o).failedStage = r.failedStage
             /\ dead => /\ Released(r, c, o).stage = "dead_letter"
                        /\ Released(r, c, o).failedStage = c.stage
<1> DEFINE failures == IF o.error THEN c.attempts + 1 ELSE 0
           dead == o.error /\ failures >= ReleaseMax
           stage == IF dead THEN "dead_letter" ELSE IF o.error THEN c.stage ELSE o.stage
           due == IF o.error /\ ~dead THEN now + RetryDelay(failures) ELSE now
           from == IF dead THEN c.stage ELSE r.failedStage
           task == IF o.task = None THEN r.task ELSE o.task
<1>1. Unlocked(r).task = r.task /\ Unlocked(r).failedStage = r.failedStage
  BY SMT DEF Unlocked, Row
<1>2. Released(r, c, o) = [ Unlocked(r) EXCEPT
          !.stage = stage, !.attempts = failures, !.availableAt = due,
          !.task = task, !.failedStage = from ]
  BY <1>1 DEF Released
<1> HIDE DEF failures, dead, stage, due, from, task
<1>3. /\ Released(r, c, o).lockedBy = None
      /\ Released(r, c, o).stage = stage
      /\ Released(r, c, o).attempts = failures
      /\ Released(r, c, o).failedStage = from
  BY <1>2, SMT DEF Unlocked, Row
<1>4. o.error \in BOOLEAN
  BY DEF Outcome
<1> QED BY <1>3, <1>4 DEF failures, dead, stage, from

LEMMA ReleasedType ==
  ASSUME NEW r \in Row, NEW c \in Claim, NEW o \in Outcome, now \in Nat,
         Released(r, c, o).stage \in RowStages
  PROVE  Released(r, c, o) \in Row
<1> DEFINE failures == IF o.error THEN c.attempts + 1 ELSE 0
           dead == o.error /\ failures >= ReleaseMax
           stage == IF dead THEN "dead_letter" ELSE IF o.error THEN c.stage ELSE o.stage
           due == IF o.error /\ ~dead THEN now + RetryDelay(failures) ELSE now
           from == IF dead THEN c.stage ELSE r.failedStage
           task == IF o.task = None THEN r.task ELSE o.task
<1>1. /\ failures \in Nat /\ task \in Tasks \cup {None}
      /\ from \in Recoverable \cup {None}
  BY DEF Claim, Outcome, Row
<1>2. due \in Nat
  <2>1. CASE o.error
    BY <2>1, RetryDelayPositive DEF Claim
  <2>2. CASE ~o.error
    BY <2>2
  <2> QED BY <2>1, <2>2
<1>3. Unlocked(r).task = r.task /\ Unlocked(r).failedStage = r.failedStage
  BY SMT DEF Unlocked, Row
<1>4. Released(r, c, o) = [ Unlocked(r) EXCEPT
          !.stage = stage, !.attempts = failures, !.availableAt = due,
          !.task = task, !.failedStage = from ]
  BY <1>3 DEF Released
<1>5. 0 \in Nat
  OBVIOUS
<1> HIDE DEF failures, dead, stage, due, from, task
<1>6. Unlocked(r) \in Row
  BY <1>5, Zenon DEF Unlocked, Row
<1>7. stage \in RowStages
  <2>1. Released(r, c, o).stage = stage
    BY <1>4, <1>6, SMT DEF Row
  <2> QED BY <2>1
<1> QED BY <1>1, <1>2, <1>4, <1>6, <1>7, Zenon DEF Row

LEMMA RequeuedFields ==
  ASSUME NEW r \in Row
  PROVE  /\ Requeued(r).lockedBy = None
         /\ Requeued(r).attempts = 0
         /\ Requeued(r).failedStage = None
         /\ Requeued(r).stage = IF r.failedStage \in Recoverable
                                THEN r.failedStage ELSE "queued"
<1> DEFINE stage == IF r.failedStage \in Recoverable THEN r.failedStage ELSE "queued"
<1>1. Requeued(r) = [ Unlocked(r) EXCEPT !.stage = stage, !.attempts = 0,
                        !.availableAt = now, !.failedStage = None ]
  BY DEF Requeued
<1> HIDE DEF stage
<1>2. /\ Requeued(r).lockedBy = None
      /\ Requeued(r).attempts = 0
      /\ Requeued(r).failedStage = None
      /\ Requeued(r).stage = stage
  BY <1>1, SMT DEF Unlocked, Row
<1> QED BY <1>2 DEF stage

LEMMA RequeuedType ==
  ASSUME NEW r \in Row, now \in Nat
  PROVE  Requeued(r) \in Row
<1> DEFINE stage == IF r.failedStage \in Recoverable THEN r.failedStage ELSE "queued"
<1>1. Requeued(r) = [ Unlocked(r) EXCEPT !.stage = stage, !.attempts = 0,
                        !.availableAt = now, !.failedStage = None ]
  BY DEF Requeued
<1>2. stage \in RowStages /\ 0 \in Nat
  BY DEF RowStages, Recoverable
<1> HIDE DEF stage
<1>3. Unlocked(r) \in Row
  BY <1>2, Zenon DEF Unlocked, Row
<1> QED BY <1>1, <1>2, <1>3, Zenon DEF Row

-----------------------------------------------------------------------------
(* Type correctness.                                                       *)

LEMMA AbsentRowType == AbsentRow \in Row
<1>1. 0 \in Nat
  OBVIOUS
<1> QED BY <1>1, Zenon DEF AbsentRow, Row

LEMMA QueuedRowType ==
  ASSUME now \in Nat
  PROVE  /\ [AbsentRow EXCEPT !.stage = "queued", !.availableAt = now] \in Row
         /\ [AbsentRow EXCEPT !.stage = "queued", !.availableAt = now].stage = "queued"
         /\ [AbsentRow EXCEPT !.stage = "queued", !.availableAt = now].lockedBy = None
         /\ [AbsentRow EXCEPT !.stage = "queued", !.availableAt = now].failedStage = None
         /\ [AbsentRow EXCEPT !.stage = "queued", !.availableAt = now].attempts = 0
<1>1. "queued" \in RowStages
  BY DEF RowStages, Recoverable
<1>2. [AbsentRow EXCEPT !.stage = "queued", !.availableAt = now] \in Row
  BY <1>1, AbsentRowType, Zenon DEF Row
<1> QED BY <1>2, SMT DEF AbsentRow

LEMMA HeldType ==
  ASSUME TypeOK, NEW p \in Workers, NEW c \in Held(p)
  PROVE  c \in Claim
BY DEF TypeOK, Held

LEMMA AfterRecoveryType ==
  ASSUME TypeOK, RowInv
  PROVE  AfterRecovery \in [Items -> Row]
<1> SUFFICES ASSUME NEW i \in Items, LockExpired(row[i])
             PROVE  Recovered(row[i]) \in Row
  BY DEF AfterRecovery, TypeOK
<1>1. row[i] \in Row /\ now \in Nat /\ row[i].stage \in Recoverable
  BY DEF TypeOK, RowInv, LockExpired
<1> QED BY <1>1, RecoveredType

LEMMA ClaimOfType ==
  ASSUME NEW i \in Items, NEW r \in Row, NEW e \in Nat, now \in Nat,
         r.stage \in Recoverable
  PROVE  ClaimOf(i, r, e) \in Claim
BY DEF ClaimOf, Claim, Row

\* A row claimed right after recovery was not recovered: recovery makes a row
\* available later, never now.
LEMMA ClaimedRow ==
  ASSUME TypeOK, NEW i \in Items, Claimable(AfterRecovery[i])
  PROVE  /\ AfterRecovery[i] = row[i]
         /\ ~LockExpired(row[i])
         /\ row[i].stage \in Recoverable
         /\ row[i].lockedBy = None
<1> USE DEF TypeOK
<1>0. row[i] \in Row /\ row[i].attempts \in Nat /\ now \in Nat /\ row[i].leaseUntil \in Nat
  BY DEF Row
<1>1. ~LockExpired(row[i])
  <2> SUFFICES ASSUME LockExpired(row[i]) PROVE FALSE
    OBVIOUS
  <2>1. AfterRecovery[i] = Recovered(row[i])
    BY DEF AfterRecovery
  <2>2. Recovered(row[i]).stage # "dead_letter"
    BY <2>1 DEF Claimable, Recoverable
  <2>3. Recovered(row[i]).availableAt = now + RetryDelay(row[i].attempts + 1)
    BY <2>2, <1>0, RecoveredFields
  <2>4. RetryDelay(row[i].attempts + 1) \in Nat /\ RetryDelay(row[i].attempts + 1) > 0
    BY <1>0, RetryDelayPositive
  <2> QED BY <1>0, <2>1, <2>3, <2>4 DEF Claimable
<1>2. AfterRecovery[i] = row[i]
  BY <1>1 DEF AfterRecovery
<1>3. row[i].stage \in Recoverable /\ row[i].stage \notin Terminal
  BY <1>2 DEF Claimable, Recoverable, Terminal
<1> QED BY <1>0, <1>1, <1>2, <1>3 DEF Claimable, LockExpired

LEMMA TypeStep ==
  ASSUME TypeOK, RowInv, [Next]_vars
  PROVE  TypeOK'
<1> USE DEF TypeOK
<1>1. ASSUME NEW i \in Items, Submit(i)
      PROVE  TypeOK'
  BY <1>1, QueuedRowType DEF Submit
<1>2. ASSUME NEW i \in Items, Requeue(i)
      PROVE  TypeOK'
  BY <1>2, RequeuedType DEF Requeue
<1>3. ASSUME NEW p \in Workers, NEW S \in SUBSET Items, ClaimBatch(p, S)
      PROVE  TypeOK'
  <2>1. AfterRecovery \in [Items -> Row]
    BY AfterRecoveryType
  <2>2. \A i \in S : AfterRecovery[i].stage \in Recoverable
    BY <1>3 DEF ClaimBatch, ClaimSet, Claimable
  <2>3. row' \in [Items -> Row]
    <3>1. \A i \in Items : Locked(AfterRecovery[i], p) \in Row
      BY <2>1, LockedType
    <3> QED BY <1>3, <2>1, <3>1 DEF ClaimBatch
  <2>4. {ClaimOf(i, AfterRecovery[i], epoch[i] + 1) : i \in S} \subseteq Claim
    <3> SUFFICES ASSUME NEW i \in S
                 PROVE  ClaimOf(i, AfterRecovery[i], epoch[i] + 1) \in Claim
      OBVIOUS
    <3> QED BY <2>1, <2>2, ClaimOfType
  <2>5. pending' \in [Workers -> SUBSET Claim]
    BY <1>3, <2>4 DEF ClaimBatch
  <2>6. epoch' \in [Items -> Nat]
    BY <1>3 DEF ClaimBatch
  <2> QED BY <1>3, <2>3, <2>5, <2>6 DEF ClaimBatch
<1>4. ASSUME NEW p \in Workers, NEW c \in pending[p], BeginAdvance(p, c)
      PROVE  TypeOK'
  BY <1>4, NoneAssumption DEF BeginAdvance
<1>5. ASSUME NEW p \in Workers, NEW o \in Outcome, EndAdvance(p, o)
      PROVE  TypeOK'
  BY <1>5 DEF EndAdvance
<1>6. ASSUME NEW p \in Workers, Release(p)
      PROVE  TypeOK'
  <2>1. current[p] \in Claim /\ outcome[p] \in Outcome
    BY <1>6 DEF Release
  <2>2. row' \in [Items -> Row]
    <3>1. current[p].item \in Items
      BY <2>1 DEF Claim
    <3>2. Released(row[current[p].item], current[p], outcome[p]) \in Row
      BY <1>6, <2>1, <3>1, ReleasedType DEF Release
    <3> QED BY <1>6, <3>1, <3>2 DEF Release
  <2> QED BY <1>6, <2>2 DEF Release
<1>7. ASSUME NEW p \in Workers, ReleaseThrows(p) \/ Crash(p)
      PROVE  TypeOK'
  BY <1>7 DEF ReleaseThrows, Crash
<1>8. CASE Tick
  BY <1>8 DEF Tick
<1>9. CASE UNCHANGED vars
  BY <1>9 DEF vars
<1> QED BY <1>1, <1>2, <1>3, <1>4, <1>5, <1>6, <1>7, <1>8, <1>9 DEF Next

-----------------------------------------------------------------------------
(* The fence invariant, row by row: locked rows are in delivery under a    *)
(* full lease, dead letters know their stage.                              *)

\* Succeeding outcomes never name a terminal stage other than completed.
LEMMA OutcomeStage ==
  ASSUME NEW c \in Claim, NEW o \in AdvanceOutcomes(c), ~o.error
  PROVE  o.stage # "dead_letter"
BY DEF AdvanceOutcomes, NextStages, Recoverable

LEMMA RowStep ==
  ASSUME TypeOK, FenceInv, [Next]_vars
  PROVE  RowInv'
<1> USE DEF TypeOK, FenceInv, RowInv
<1>0. /\ now \in Nat /\ LeaseSeconds \in Nat
      /\ "dead_letter" \notin Recoverable /\ None \notin Recoverable
  BY QueueAssumption, NoneAssumption DEF Recoverable
<1>1. ASSUME NEW i \in Items, Submit(i)
      PROVE  RowInv'
  BY <1>0, <1>1, QueuedRowType DEF Submit
<1>2. ASSUME NEW i \in Items, Requeue(i)
      PROVE  RowInv'
  <2>1. /\ Requeued(row[i]).lockedBy = None
        /\ Requeued(row[i]).failedStage = None
        /\ Requeued(row[i]).stage # "dead_letter"
    BY <1>0, RequeuedFields
  <2> QED BY <1>2, <2>1 DEF Requeue
<1>3. ASSUME NEW p \in Workers, NEW S \in SUBSET Items, ClaimBatch(p, S)
      PROVE  RowInv'
  <2> SUFFICES ASSUME NEW i \in Items
               PROVE  /\ row'[i].lockedBy # None =>
                           /\ row'[i].stage \in Recoverable
                           /\ row'[i].lockedAt <= now
                           /\ row'[i].leaseUntil = row'[i].lockedAt + LeaseSeconds
                      /\ row'[i].stage = "dead_letter" <=> row'[i].failedStage # None
    BY <1>3 DEF ClaimBatch
  <2>0. row[i] \in Row
    OBVIOUS
  <2>1. CASE i \in S
    <3>1. AfterRecovery[i] = row[i] /\ row[i].stage \in Recoverable
      BY <1>3, <2>1, ClaimedRow DEF ClaimBatch, ClaimSet
    <3>2. row'[i] = Locked(row[i], p)
      BY <1>3, <2>1, <3>1 DEF ClaimBatch
    <3>3. /\ row'[i].stage = row[i].stage
          /\ row'[i].failedStage = row[i].failedStage
          /\ row'[i].lockedAt = now
          /\ row'[i].leaseUntil = now + LeaseSeconds
      BY <3>2, LockedFields
    <3> QED BY <1>0, <3>1, <3>3
  <2>2. CASE i \notin S /\ LockExpired(row[i])
    <3>1. row'[i] = Recovered(row[i])
      BY <1>3, <2>2 DEF ClaimBatch, AfterRecovery
    <3>2. row[i].stage \in Recoverable
      BY <2>2 DEF LockExpired
    <3>3. /\ row'[i].lockedBy = None
          /\ \/ row'[i].stage = "dead_letter" /\ row'[i].failedStage = row[i].stage
             \/ row'[i].stage = row[i].stage /\ row'[i].failedStage = row[i].failedStage
      BY <3>1, RecoveredFields
    <3> QED BY <1>0, <3>2, <3>3
  <2>3. CASE i \notin S /\ ~LockExpired(row[i])
    <3>1. row'[i] = row[i]
      BY <1>3, <2>3 DEF ClaimBatch, AfterRecovery
    <3> QED BY <3>1
  <2> QED BY <2>1, <2>2, <2>3
<1>4. ASSUME NEW p \in Workers, Release(p)
      PROVE  RowInv'
  <2> DEFINE c == current[p]
             o == outcome[p]
             i == c.item
  <2>1. /\ c \in Claim /\ o \in Outcome /\ o \in AdvanceOutcomes(c)
        /\ i \in Items /\ c.stage \in Recoverable
    BY <1>4 DEF Release, Claim, TickInv
  <2>2. row[i].lockedBy # None
    <3>1. CanRelease(p, c)
      BY <1>4 DEF Release
    <3>2. IdOf[p] # None
      BY QueueAssumption
    <3> QED BY <3>1, <3>2 DEF CanRelease
  <2>3. row[i].failedStage = None /\ row[i] \in Row
    BY <1>0, <2>1, <2>2
  <2>4. Released(row[i], c, o).lockedBy = None
    BY <2>1, <2>3, ReleasedFields
  <2>5. Released(row[i], c, o).stage = "dead_letter"
          <=> Released(row[i], c, o).failedStage # None
    BY <1>0, <2>1, <2>3, ReleasedFields, OutcomeStage
  <2>6. row' = [row EXCEPT ![i] = Released(row[i], c, o)] /\ now' = now
    BY <1>4 DEF Release
  <2> HIDE DEF c, o, i
  <2> QED BY <2>1, <2>4, <2>5, <2>6
<1>5. ASSUME NEW p \in Workers, \/ \E c \in pending[p] : BeginAdvance(p, c)
                                \/ \E o \in Outcome : EndAdvance(p, o)
                                \/ ReleaseThrows(p)
                                \/ Crash(p)
      PROVE  RowInv'
  BY <1>5 DEF BeginAdvance, EndAdvance, ReleaseThrows, Crash
<1>6. CASE Tick
  <2>1. \A i \in Items : row[i].lockedAt \in Nat
    BY DEF Row
  <2> QED BY <1>0, <1>6, <2>1 DEF Tick
<1>7. CASE UNCHANGED vars
  BY <1>7 DEF vars
<1> QED BY <1>1, <1>2, <1>3, <1>4, <1>5, <1>6, <1>7 DEF Next

\* What a process carries through its tick.
LEMMA TickStep ==
  ASSUME TypeOK, TypeOK', TickInv, [Next]_vars
  PROVE  TickInv'
<1> USE DEF TickInv
<1>1. ASSUME NEW p \in Workers, NEW S \in SUBSET Items, ClaimBatch(p, S)
      PROVE  TickInv'
  <2>1. current[p] = None /\ current' = current /\ outcome' = outcome
    BY <1>1 DEF ClaimBatch, Held
  <2>2. None \notin pending'[p]
    BY NoneAssumption DEF TypeOK
  <2>3. \A q \in Workers \ {p} : pending'[q] = pending[q]
    BY <1>1 DEF ClaimBatch, TypeOK
  <2> QED BY <2>1, <2>2, <2>3
<1> USE DEF TypeOK
<1>2. ASSUME NEW p \in Workers, NEW c \in pending[p], BeginAdvance(p, c)
      PROVE  TickInv'
  BY <1>2 DEF BeginAdvance
<1>3. ASSUME NEW p \in Workers, NEW o \in Outcome, EndAdvance(p, o)
      PROVE  TickInv'
  BY <1>3 DEF EndAdvance, AdvanceOutcomes
<1>4. ASSUME NEW p \in Workers, Release(p) \/ ReleaseThrows(p) \/ Crash(p)
      PROVE  TickInv'
  BY <1>4, NoneAssumption DEF Release, ReleaseThrows, Crash
<1>5. CASE (\E i \in Items : Submit(i) \/ Requeue(i)) \/ Tick \/ UNCHANGED vars
  BY <1>5 DEF Submit, Requeue, Tick, vars
<1> QED BY <1>1, <1>2, <1>3, <1>4, <1>5 DEF Next

-----------------------------------------------------------------------------
(* The fence invariant, claim by claim.                                    *)

\* A claim whose row carries no lock has outlived its lease.
LEMMA UnlockedIsStale ==
  ASSUME ClaimInv, NEW p \in Workers, NEW c \in Held(p), row[c.item].lockedBy = None
  PROVE  c.lockedAt + LeaseSeconds <= now
<1>1. IdOf[p] # None
  BY QueueAssumption
<1> QED BY <1>1 DEF ClaimInv, CurrentClaim, StaleClaim

\* A claim that passes the fence is the lock its row carries: a stale claim's
\* row is unlocked or was locked a whole lease later.
LEMMA FenceMeansCurrent ==
  ASSUME TypeOK, ClaimInv, NEW p \in Workers, NEW c \in Held(p), CanRelease(p, c)
  PROVE  CurrentClaim(p, c)
<1>1. IdOf[p] # None /\ LeaseSeconds \in Nat \ {0}
  BY QueueAssumption
<1>2. c.lockedAt \in Nat
  BY HeldType DEF Claim
<1>3. ~StaleClaim(c)
  BY <1>1, <1>2 DEF CanRelease, StaleClaim
<1> QED BY <1>3 DEF ClaimInv

\* Rows and epochs as they were, time not running back, no claim added.
LEMMA ClaimsDropped ==
  ASSUME TypeOK, ClaimInv, UNCHANGED <<row, epoch>>, now' \in Nat, now <= now',
         \A q \in Workers : Held(q)' \subseteq Held(q)
  PROVE  ClaimInv'
<1>1. LeaseSeconds \in Nat /\ now \in Nat
  BY QueueAssumption DEF TypeOK
<1>2. \A q \in Workers : \A c \in Held(q) : c.lockedAt \in Nat
  BY HeldType DEF Claim
<1> QED BY <1>1, <1>2 DEF ClaimInv, CurrentClaim, StaleClaim

\* One row loses its lock, or never had one, and no fresh claim on it remains.
LEMMA LockDropped ==
  ASSUME TypeOK, ClaimInv, NEW i \in Items, NEW r, r.lockedBy = None,
         row' = [row EXCEPT ![i] = r], UNCHANGED <<now, epoch>>,
         \A q \in Workers : Held(q)' \subseteq Held(q),
         \A q \in Workers : \A c \in Held(q)' :
            c.item = i => c.lockedAt + LeaseSeconds <= now
  PROVE  ClaimInv'
<1>1. ASSUME NEW q \in Workers, NEW c \in Held(q)'
      PROVE  c.epoch <= epoch'[c.item] /\ (CurrentClaim(q, c)' \/ StaleClaim(c)')
  <2>1. c \in Held(q) /\ c.item \in Items
    BY HeldType DEF Claim
  <2>2. c.epoch <= epoch[c.item] /\ (CurrentClaim(q, c) \/ StaleClaim(c))
    BY <2>1 DEF ClaimInv
  <2>3. CASE c.item = i
    <3>1. row'[c.item].lockedBy = None
      BY <2>1, <2>3 DEF TypeOK
    <3> QED BY <2>2, <2>3, <3>1 DEF StaleClaim
  <2>4. CASE c.item # i
    <3>1. row'[c.item] = row[c.item]
      BY <2>1, <2>4 DEF TypeOK
    <3> QED BY <2>2, <3>1 DEF StaleClaim, CurrentClaim
  <2> QED BY <2>3, <2>4
<1>2. \A p, q \in Workers : \A c \in Held(p)', d \in Held(q)' :
        c.item = d.item /\ c.epoch = d.epoch => p = q /\ c = d
  BY DEF ClaimInv
<1> QED BY <1>1, <1>2 DEF ClaimInv

\* The claim transaction: claims of earlier epochs stay what they were or
\* become stale, the new claims are the locks just written.
LEMMA ClaimBatchFence ==
  ASSUME TypeOK, TypeOK', RowInv, ClaimInv, NEW p \in Workers, NEW S \in SUBSET Items,
         ClaimBatch(p, S)
  PROVE  ClaimInv'
<1> DEFINE Fresh == {ClaimOf(i, AfterRecovery[i], epoch[i] + 1) : i \in S}
<1>0. LeaseSeconds \in Nat \ {0} /\ now \in Nat /\ \A i \in Items : epoch[i] \in Nat
  BY QueueAssumption DEF TypeOK
<1>1. Held(p)' = Fresh /\ Held(p) = {}
  BY <1>0 DEF ClaimBatch, Held, TypeOK
<1>2. \A q \in Workers \ {p} : Held(q)' = Held(q)
  BY DEF ClaimBatch, Held, TypeOK
<1>3. \A i \in S : /\ AfterRecovery[i] = row[i] /\ row[i].lockedBy = None
                   /\ row'[i] = Locked(row[i], p)
                   /\ epoch'[i] = epoch[i] + 1
                   /\ row[i] \in Row
  BY ClaimedRow DEF ClaimBatch, ClaimSet, TypeOK
<1>4. \A i \in Items \ S : epoch'[i] = epoch[i]
                           /\ row'[i] = IF LockExpired(row[i]) THEN Recovered(row[i]) ELSE row[i]
  BY DEF ClaimBatch, AfterRecovery
<1>5. now' = now
  BY DEF ClaimBatch
<1>6. ASSUME NEW c \in Fresh
      PROVE  /\ c.item \in S
             /\ c = ClaimOf(c.item, row[c.item], epoch[c.item] + 1)
             /\ c.epoch = epoch[c.item] + 1
             /\ CurrentClaim(p, c)'
  <2>1. PICK i \in S : c = ClaimOf(i, row[i], epoch[i] + 1)
    BY <1>3
  <2>2. /\ c.item = i /\ c.epoch = epoch[i] + 1 /\ c.lockedAt = now
        /\ c.stage = row[i].stage /\ c.attempts = row[i].attempts
    BY <2>1 DEF ClaimOf
  <2>3. /\ row'[i].stage = row[i].stage /\ row'[i].attempts = row[i].attempts
        /\ row'[i].lockedBy = IdOf[p] /\ row'[i].lockedAt = now
    BY <1>3, LockedFields
  <2> QED BY <1>3, <2>1, <2>2, <2>3 DEF CurrentClaim
<1>7. ASSUME NEW q \in Workers \ {p}, NEW c \in Held(q)
      PROVE  /\ c.item \in Items /\ c.epoch <= epoch[c.item]
             /\ CurrentClaim(q, c)' \/ StaleClaim(c)'
  <2>1. c \in Claim /\ c.item \in Items /\ c.lockedAt \in Nat
    BY HeldType DEF Claim
  <2>2. c.epoch <= epoch[c.item] /\ (CurrentClaim(q, c) \/ StaleClaim(c))
    BY DEF ClaimInv
  <2>3. CASE c.item \in S
    <3>1. c.lockedAt + LeaseSeconds <= now
      BY <1>3, <2>3, UnlockedIsStale
    <3>2. row'[c.item].lockedAt = now
      BY <1>3, <2>3, LockedFields
    <3> QED BY <1>5, <2>1, <2>2, <3>1, <3>2 DEF StaleClaim
  <2>4. CASE c.item \notin S /\ LockExpired(row[c.item])
    <3>1. c.lockedAt + LeaseSeconds <= now
      BY <2>1, <2>2, <2>4 DEF LockExpired, RowInv, CurrentClaim, StaleClaim
    <3>2. row'[c.item].lockedBy = None
      BY <1>4, <2>1, <2>4, RecoveredFields DEF TypeOK
    <3> QED BY <1>5, <2>1, <2>2, <3>1, <3>2 DEF StaleClaim
  <2>5. CASE c.item \notin S /\ ~LockExpired(row[c.item])
    <3>1. row'[c.item] = row[c.item] /\ epoch'[c.item] = epoch[c.item]
      BY <1>4, <2>1, <2>5
    <3> QED BY <1>5, <2>1, <2>2, <3>1 DEF CurrentClaim, StaleClaim
  <2> QED BY <2>3, <2>4, <2>5
<1>8. ASSUME NEW q \in Workers, NEW c \in Held(q)'
      PROVE  c.epoch <= epoch'[c.item] /\ (CurrentClaim(q, c)' \/ StaleClaim(c)')
  <2>1. CASE q = p
    <3>1. c.item \in S /\ c.epoch = epoch[c.item] + 1 /\ CurrentClaim(q, c)'
      BY <1>1, <1>6, <2>1
    <3> QED BY <1>0, <1>3, <3>1
  <2>2. CASE q # p
    <3>1. c.item \in Items /\ c.epoch <= epoch[c.item]
          /\ (CurrentClaim(q, c)' \/ StaleClaim(c)')
      BY <1>2, <1>7, <2>2
    <3>2. c.epoch \in Nat
      BY <1>2, <2>2, HeldType DEF Claim
    <3>3. epoch[c.item] <= epoch'[c.item] /\ epoch'[c.item] \in Nat
      BY <1>0, <1>3, <1>4, <3>1
    <3> QED BY <1>0, <3>1, <3>2, <3>3
  <2> QED BY <2>1, <2>2
<1>9. ASSUME NEW q \in Workers, NEW s \in Workers, NEW c \in Held(q)', NEW d \in Held(s)',
             c.item = d.item, c.epoch = d.epoch
      PROVE  q = s /\ c = d
  <2>1. CASE q = p /\ s = p
    BY <1>1, <1>6, <1>9, <2>1
  <2>2. CASE q # p /\ s # p
    BY <1>2, <1>9, <2>2 DEF ClaimInv
  <2>3. CASE q = p /\ s # p
    BY <1>0, <1>1, <1>2, <1>6, <1>7, <1>9, <2>3
  <2>4. CASE q # p /\ s = p
    BY <1>0, <1>1, <1>2, <1>6, <1>7, <1>9, <2>4
  <2> QED BY <2>1, <2>2, <2>3, <2>4
<1> QED BY <1>8, <1>9 DEF ClaimInv

LEMMA ClaimStep ==
  ASSUME TypeOK, TypeOK', FenceInv, [Next]_vars
  PROVE  ClaimInv'
<1> USE DEF FenceInv
<1>0. now \in Nat /\ now <= now /\ "dead_letter" \notin Recoverable /\ "absent" \notin Recoverable
  BY DEF TypeOK, Recoverable
<1>1. ASSUME NEW i \in Items, Submit(i) \/ Requeue(i)
      PROVE  ClaimInv'
  <2>1. row[i].lockedBy = None
    BY <1>0, <1>1 DEF Submit, Requeue, RowInv
  <2>2. PICK r : r.lockedBy = None /\ row' = [row EXCEPT ![i] = r]
    <3>1. CASE Submit(i)
      BY <1>0, <3>1, QueuedRowType DEF Submit
    <3>2. CASE Requeue(i)
      BY <3>2, RequeuedFields DEF Requeue, TypeOK
    <3> QED BY <1>1, <3>1, <3>2
  <2>3. UNCHANGED <<now, epoch>> /\ \A q \in Workers : Held(q)' = Held(q)
    BY <1>1 DEF Submit, Requeue, Held
  <2>4. \A q \in Workers : \A c \in Held(q)' : c.item = i => c.lockedAt + LeaseSeconds <= now
    BY <2>1, <2>3, UnlockedIsStale
  <2> QED BY <2>2, <2>3, <2>4, LockDropped
<1>2. ASSUME NEW p \in Workers, NEW S \in SUBSET Items, ClaimBatch(p, S)
      PROVE  ClaimInv'
  BY <1>2, ClaimBatchFence
<1>3. ASSUME NEW p \in Workers, Release(p)
      PROVE  ClaimInv'
  <2> DEFINE c == current[p]
             r == Released(row[c.item], c, outcome[p])
  <2>1. c \in Claim /\ c \in Held(p) /\ outcome[p] \in Outcome /\ c.item \in Items
    BY <1>3, NoneAssumption DEF Release, TypeOK, Held, Claim
  <2>2. /\ r.lockedBy = None /\ row' = [row EXCEPT ![c.item] = r]
        /\ UNCHANGED <<now, epoch>>
    BY <1>3, <2>1, ReleasedFields DEF Release, TypeOK
  <2>3. \A q \in Workers : Held(q)' \subseteq Held(q)
    BY <1>3 DEF Release, Held, TypeOK
  <2>4. c \notin Held(p)'
    BY <1>3, <2>1 DEF Release, Held, TypeOK, TickInv
  <2>5. CurrentClaim(p, c)
    BY <1>3, <2>1, FenceMeansCurrent DEF Release
  <2>6. ASSUME NEW q \in Workers, NEW d \in Held(q)', d.item = c.item
        PROVE  d.lockedAt + LeaseSeconds <= now
    <3>1. d \in Held(q) /\ (q = p => d # c)
      BY <2>3, <2>4
    <3>2. ~CurrentClaim(q, d)
      BY <2>1, <2>5, <2>6, <3>1 DEF CurrentClaim, ClaimInv
    <3> QED BY <3>1, <3>2 DEF ClaimInv, StaleClaim
  <2> HIDE DEF c, r
  <2> QED BY <2>1, <2>2, <2>3, <2>6, LockDropped
<1>4. ASSUME NEW p \in Workers, NEW c \in pending[p], BeginAdvance(p, c)
      PROVE  ClaimInv'
  <2>1. \A q \in Workers : Held(q)' \subseteq Held(q)
    BY <1>4, NoneAssumption DEF BeginAdvance, Held, TypeOK
  <2> QED BY <1>0, <1>4, <2>1, ClaimsDropped DEF BeginAdvance
<1>5. ASSUME NEW p \in Workers, \/ \E o \in Outcome : EndAdvance(p, o)
                                \/ ReleaseThrows(p) \/ Crash(p)
      PROVE  ClaimInv'
  <2>1. \A q \in Workers : Held(q)' \subseteq Held(q)
    BY <1>5 DEF EndAdvance, ReleaseThrows, Crash, Held, TypeOK
  <2> QED BY <1>0, <1>5, <2>1, ClaimsDropped DEF EndAdvance, ReleaseThrows, Crash
<1>6. CASE Tick \/ UNCHANGED vars
  <2>1. \A q \in Workers : Held(q)' \subseteq Held(q)
    BY <1>6 DEF Tick, vars, Held
  <2> QED BY <1>0, <1>6, <2>1, ClaimsDropped DEF Tick, vars
<1> QED BY <1>1, <1>2, <1>3, <1>4, <1>5, <1>6 DEF Next

-----------------------------------------------------------------------------
(* Theorems.                                                               *)

LEMMA InitFence == Init => TypeOK /\ FenceInv
<1> SUFFICES ASSUME Init PROVE TypeOK /\ FenceInv
  OBVIOUS
<1>1. TypeOK
  BY AbsentRowType DEF Init, TypeOK
<1>2. \A p \in Workers : Held(p) = {} /\ outcome[p] = None /\ current[p] \notin pending[p]
  BY DEF Init, Held
<1>3. RowInv
  BY DEF Init, RowInv, AbsentRow
<1> QED BY <1>1, <1>2, <1>3 DEF FenceInv, ClaimInv, TickInv

\* Rows, locks and the claims in memory belong together in every reachable
\* state: the inductive invariant of the queue.
THEOREM Fenced == Spec => [](TypeOK /\ FenceInv)
<1>1. TypeOK /\ FenceInv /\ [Next]_vars => TypeOK' /\ FenceInv'
  BY TypeStep, RowStep, ClaimStep, TickStep DEF FenceInv
<1> QED BY InitFence, <1>1, PTL DEF Spec

\* The table and the processes hold values of their types.
THEOREM TypeCorrect == Spec => []TypeOK
BY Fenced, PTL

\* A claim that passes the fence of the release statement is the item's
\* latest claim and its snapshot is the row's.
THEOREM SnapshotIsFresh == Spec => []SnapshotFresh
<1>1. TypeOK /\ FenceInv => SnapshotFresh
  BY FenceMeansCurrent DEF FenceInv, SnapshotFresh, CurrentClaim
<1> QED BY Fenced, <1>1, PTL

\* At most one of the claims of an item in memory passes the fence, however
\* many processes share a worker id.
THEOREM ReleaseIsExclusive == Spec => []ExclusiveRelease
<1>1. TypeOK /\ FenceInv => ExclusiveRelease
  BY FenceMeansCurrent DEF FenceInv, ExclusiveRelease, CurrentClaim, ClaimInv
<1> QED BY Fenced, <1>1, PTL

\* No completed or dead-lettered row has an owner left.
THEOREM TerminalUnowned == Spec => []TerminalRowsUnowned
<1>1. FenceInv => TerminalRowsUnowned
  BY DEF FenceInv, RowInv, TerminalRowsUnowned
<1> QED BY Fenced, <1>1, PTL

-----------------------------------------------------------------------------
(* What no step may do.                                                    *)

LEMMA BudgetStep ==
  ASSUME TypeOK, FenceInv, AttemptBudget, [Next]_vars
  PROVE  AttemptBudget'
<1> USE DEF TypeOK, AttemptBudget
<1>0. /\ RowMax \in Nat \ {0} /\ ReleaseMax \in Nat \ {0}
      /\ "dead_letter" \notin Recoverable
      /\ \A i \in Items : row[i] \in Row /\ row[i].attempts \in Nat
  BY QueueAssumption DEF Recoverable, Row
<1>1. ASSUME NEW i \in Items, Submit(i)
      PROVE  AttemptBudget'
  BY <1>0, <1>1, QueuedRowType DEF Submit
<1>2. ASSUME NEW i \in Items, Requeue(i)
      PROVE  AttemptBudget'
  <2>1. Requeued(row[i]).attempts = 0 /\ Requeued(row[i]).stage # "dead_letter"
    BY <1>0, RequeuedFields
  <2> QED BY <1>0, <1>2, <2>1 DEF Requeue
<1>3. ASSUME NEW p \in Workers, NEW S \in SUBSET Items, ClaimBatch(p, S)
      PROVE  AttemptBudget'
  <2> SUFFICES ASSUME NEW i \in Items
               PROVE  /\ row'[i].stage \in Recoverable =>
                           row'[i].attempts < RowMax \/ row'[i].attempts < ReleaseMax
                      /\ row'[i].stage = "dead_letter" =>
                           row'[i].attempts >= RowMax \/ row'[i].attempts >= ReleaseMax
    OBVIOUS
  <2>1. CASE i \in S
    <3>1. row'[i].stage = row[i].stage /\ row'[i].attempts = row[i].attempts
      BY <1>0, <1>3, <2>1, ClaimedRow, LockedFields DEF ClaimBatch, ClaimSet
    <3> QED BY <3>1
  <2>2. CASE i \notin S /\ LockExpired(row[i])
    <3>1. row'[i] = Recovered(row[i])
      BY <1>3, <2>2 DEF ClaimBatch, AfterRecovery
    <3> QED BY <1>0, <3>1, RecoveredFields
  <2>3. CASE i \notin S /\ ~LockExpired(row[i])
    BY <1>3, <2>3 DEF ClaimBatch, AfterRecovery
  <2> QED BY <2>1, <2>2, <2>3
<1>4. ASSUME NEW p \in Workers, Release(p)
      PROVE  AttemptBudget'
  <2> DEFINE c == current[p]
             o == outcome[p]
             r == Released(row[c.item], c, o)
  <2>1. /\ c \in Claim /\ o \in Outcome /\ o \in AdvanceOutcomes(c)
        /\ c.item \in Items /\ c.stage \in Recoverable /\ c.attempts \in Nat
    BY <1>4 DEF Release, Claim, FenceInv, TickInv
  <2>2. r.stage \in Recoverable => r.attempts < RowMax \/ r.attempts < ReleaseMax
    BY <1>0, <2>1, ReleasedFields
  <2>3. r.stage = "dead_letter" => r.attempts >= ReleaseMax
    BY <1>0, <2>1, ReleasedFields, OutcomeStage
  <2>4. row' = [row EXCEPT ![c.item] = r]
    BY <1>4 DEF Release
  <2> HIDE DEF c, o, r
  <2> QED BY <2>1, <2>2, <2>3, <2>4
<1>5. CASE UNCHANGED row
  BY <1>5
<1>6. ASSUME NEW p \in Workers, \/ \E c \in pending[p] : BeginAdvance(p, c)
                                \/ \E o \in Outcome : EndAdvance(p, o)
                                \/ ReleaseThrows(p) \/ Crash(p)
      PROVE  UNCHANGED row
  BY <1>6 DEF BeginAdvance, EndAdvance, ReleaseThrows, Crash
<1> QED BY <1>1, <1>2, <1>3, <1>4, <1>5, <1>6 DEF Next, Tick, vars

\* A row in delivery has failed fewer times than the larger limit, a dead
\* letter at least as often as the smaller.
THEOREM AttemptsBounded == Spec => []AttemptBudget
<1>1. Init => AttemptBudget
  BY DEF Init, AttemptBudget, AbsentRow, Recoverable
<1>2. (TypeOK /\ FenceInv) /\ AttemptBudget /\ [Next]_vars => AttemptBudget'
  BY BudgetStep
<1> QED BY <1>1, <1>2, Fenced, PTL DEF Spec

\* Ranks of the stages a delivery may name.
LEMMA RankOrder ==
  ASSUME NEW s \in Recoverable
  PROVE  /\ Rank(s) \in 1..4 /\ Rank("completed") = 5
         /\ \A t \in NextStages(s) : t # "failed" => Rank(t) >= Rank(s)
BY DEF Recoverable, Rank, NextStages

LEMMA NextStageNames ==
  ASSUME NEW c \in Claim, NEW o \in AdvanceOutcomes(c), ~o.error, o.stage # "failed"
  PROVE  Rank(o.stage) >= Rank(c.stage) /\ o.stage # "dead_letter"
<1>1. PICK s \in Recoverable : Rank(s) >= Rank(c.stage) /\ o.stage \in NextStages(s)
  <2>1. CASE c.stage = "queued" /\ o.stage = "intake_complete"
    BY <2>1 DEF Recoverable, NextStages, Rank
  <2>2. CASE ~(c.stage = "queued" /\ o.stage = "intake_complete")
    BY <2>2 DEF AdvanceOutcomes
  <2> QED BY <2>1, <2>2
<1>2. Rank(o.stage) >= Rank(s) /\ Rank(s) \in Nat /\ Rank(c.stage) \in Nat
  BY <1>1, RankOrder DEF Claim
<1>3. Rank(o.stage) \in Nat
  BY DEF Rank
<1> QED BY <1>1, <1>2, <1>3, OutcomeStage

\* No step takes an item back behind a stage it had recorded; completed rows
\* are never written again.
THEOREM ProgressIsKept == Spec => ProgressKept
<1> DEFINE Kept(i) == /\ Position(row'[i]) >= Position(row[i])
                      /\ row[i].stage = "completed" => row'[i] = row[i]
<1>1. ASSUME TypeOK, FenceInv, [Next]_vars, NEW i \in Items
      PROVE  Kept(i)
  <2> USE DEF TypeOK
  <2>0. /\ row[i] \in Row /\ Position(row[i]) \in Nat
        /\ "dead_letter" \notin Recoverable /\ "completed" \notin Recoverable
        /\ "queued" \in Recoverable
    BY <1>1 DEF Position, Rank, Recoverable
  <2>1. CASE row'[i] = row[i]
    BY <2>0, <2>1
  <2>2. CASE Submit(i)
    <3>1. Position(row[i]) = 0 /\ row[i].stage # "completed"
      BY <2>2 DEF Submit, Position, Rank
    <3>2. row'[i].stage = "queued"
      BY <1>1, <2>2, QueuedRowType DEF Submit
    <3> QED BY <3>1, <3>2 DEF Position, Rank
  <2>3. CASE Requeue(i)
    <3>1. row[i].stage = "dead_letter" /\ row'[i] = Requeued(row[i])
      BY <1>1, <2>3 DEF Requeue
    <3>2. row[i].failedStage \in Recoverable
      BY <1>1, <2>0, <3>1 DEF FenceInv, RowInv, Row
    <3>3. row'[i].stage = row[i].failedStage
      BY <2>0, <3>1, <3>2, RequeuedFields
    <3>4. Rank(row[i].failedStage) \in Nat
      BY DEF Rank
    <3> QED BY <2>0, <3>1, <3>2, <3>3, <3>4 DEF Position
  <2>4. ASSUME NEW p \in Workers, NEW S \in SUBSET Items, ClaimBatch(p, S)
        PROVE  Kept(i)
    <3>1. CASE i \in S
      <4>1. row[i].stage \in Recoverable /\ row'[i] = Locked(row[i], p)
        BY <1>1, <2>4, <3>1, ClaimedRow DEF ClaimBatch, ClaimSet
      <4>2. row'[i].stage = row[i].stage /\ row'[i].failedStage = row[i].failedStage
        BY <2>0, <4>1, LockedFields
      <4> QED BY <2>0, <4>1, <4>2 DEF Position
    <3>2. CASE i \notin S /\ LockExpired(row[i])
      <4>1. row'[i] = Recovered(row[i])
        BY <2>4, <3>2 DEF ClaimBatch, AfterRecovery
      <4>2. row[i].stage \in Recoverable
        BY <1>1, <3>2 DEF LockExpired, FenceInv, RowInv
      <4>3. \/ row'[i].stage = "dead_letter" /\ row'[i].failedStage = row[i].stage
            \/ row'[i].stage = row[i].stage
        BY <2>0, <4>1, RecoveredFields
      <4> QED BY <2>0, <4>2, <4>3 DEF Position
    <3>3. CASE i \notin S /\ ~LockExpired(row[i])
      BY <2>1, <2>4, <3>3 DEF ClaimBatch, AfterRecovery
    <3> QED BY <3>1, <3>2, <3>3
  <2>5. ASSUME NEW p \in Workers, Release(p), current[p].item = i
        PROVE  Kept(i)
    <3> DEFINE c == current[p]
               o == outcome[p]
    <3>1. /\ c \in Claim /\ c \in Held(p) /\ o \in Outcome /\ o \in AdvanceOutcomes(c)
          /\ c.stage \in Recoverable
      BY <1>1, <2>5, NoneAssumption DEF Release, Held, Claim, FenceInv, TickInv
    <3>2. row[i].stage = c.stage
      BY <1>1, <2>5, <3>1, FenceMeansCurrent DEF Release, CurrentClaim, FenceInv
    <3>3. row'[i] = Released(row[i], c, o) /\ row'[i].stage \in RowStages
      BY <1>1, <2>5 DEF Release
    <3>4. \/ row'[i].stage = "dead_letter" /\ row'[i].failedStage = c.stage
          \/ row'[i].stage = c.stage
          \/ ~o.error /\ row'[i].stage = o.stage
      BY <2>0, <3>1, <3>3, ReleasedFields
    <3>5. "failed" \notin RowStages
      BY DEF RowStages, Recoverable, Terminal
    <3> HIDE DEF c, o
    <3> QED BY <2>0, <3>1, <3>2, <3>3, <3>4, <3>5, NextStageNames DEF Position
  <2>6. ASSUME NEW p \in Workers, \/ Release(p) /\ current[p].item # i
                                  \/ \E c \in pending[p] : BeginAdvance(p, c)
                                  \/ \E o \in Outcome : EndAdvance(p, o)
                                  \/ ReleaseThrows(p) \/ Crash(p)
        PROVE  row'[i] = row[i]
    BY <1>1, <2>6 DEF Release, BeginAdvance, EndAdvance, ReleaseThrows, Crash
  <2>7. ASSUME NEW j \in Items, j # i, Submit(j) \/ Requeue(j)
        PROVE  row'[i] = row[i]
    BY <1>1, <2>7 DEF Submit, Requeue
  <2> QED BY <1>1, <2>1, <2>2, <2>3, <2>4, <2>5, <2>6, <2>7 DEF Next, Tick, vars
<1>2. (TypeOK /\ FenceInv) /\ [Next]_vars
        => [\A i \in Items : /\ Position(row'[i]) >= Position(row[i])
                             /\ row[i].stage = "completed" => row'[i] = row[i]]_row
  BY <1>1
<1> QED BY Fenced, <1>2, PTL DEF Spec, ProgressKept

\* No claim ever takes over a live lease.
THEOREM LiveLeaseRespected == Spec => NoLiveTakeover
<1>1. ASSUME TypeOK, FenceInv, [Next]_vars, NEW i \in Items, epoch'[i] # epoch[i]
      PROVE  row[i].lockedBy = None
  <2>1. PICK p \in Workers, S \in SUBSET Items : ClaimBatch(p, S)
    BY <1>1 DEF Next, vars, Submit, Requeue, BeginAdvance, EndAdvance, Release,
                ReleaseThrows, Crash, Tick
  <2>2. i \in S
    BY <1>1, <2>1 DEF ClaimBatch
  <2> QED BY <1>1, <2>1, <2>2, ClaimedRow DEF ClaimBatch, ClaimSet
<1>2. (TypeOK /\ FenceInv) /\ [Next]_vars
        => [\A i \in Items : epoch'[i] # epoch[i] =>
              row[i].lockedBy = None \/ row[i].leaseUntil <= now]_vars
  BY <1>1
<1> QED BY Fenced, <1>2, PTL DEF Spec, NoLiveTakeover
=============================================================================
