--------------------------- MODULE FactoryDelivery ---------------------------
(***************************************************************************)
(* What an orchestrator does between claiming a queue row and releasing    *)
(* it: the steps of advanceFactoryItem, which work on the item's evidence  *)
(* file.  The file is outside the database: it is read when the advance    *)
(* starts, copied into memory, and overwritten as a whole after the intake *)
(* and after each phase, without a lock and without looking at the lease.  *)
(* A process that lost its lease keeps writing.                            *)
(*                                                                         *)
(* Claims, leases and releases are those of FactoryQueue.  An advance is   *)
(* assumed to end, or its process to stop, within WorkLimit.               *)
(***************************************************************************)
EXTENDS FactoryQueue

CONSTANT WorkLimit   \* the longest an advance takes

ASSUME WorkAssumption == WorkLimit \in Nat \ {0}

VARIABLES
  evidence,   \* the evidence file of each item
  work,       \* per process: the step its advance is at, or None
  spent,      \* per process: how long its present advance has taken
  created,    \* history: the tasks created for each item
  reached     \* history: the furthest phase ever saved for each item

deliveryVars == <<evidence, work, spent, created, reached>>
allVars == <<vars, deliveryVars>>

\* phase 0 is "phase0_started", phase n is "phase<n>_complete".
Evidence == [ file : {"absent", "saved", "torn"}, phase : 0..6, task : Tasks \cup {None} ]

\* "phases" makes the writes next..7 of phases 2 to 6, then reads the file again.
Steps == Recoverable \cup {"created", "phase1", "phase1_saved", "phases"}
Work  == [ at : Steps, next : 2..8, task : Tasks \cup {None} ]

\* No advance under way.
Idle == [at |-> "queued", next |-> 2, task |-> None]

\* Mutant: the final proof is attempted as soon as phase 5 is recorded.
ResolveAfterPhase5(c, e) ==
  LET proven == IF e.file = "saved" THEN e.phase ELSE 0
  IN  IF c.stage = "phase6_complete" \/ proven >= 5 THEN "phase6_complete"
      ELSE IF c.stage = "phase1_complete" \/ proven >= 1 THEN "phase1_complete"
      ELSE IF c.task # None THEN "intake_complete"
      ELSE c.stage

\* The stage to work on: the row's, or a later one the evidence proves.
resolveDeliveryStage(c, e) ==
  LET proven == IF e.file = "saved" THEN e.phase ELSE 0
  IN  IF c.stage = "phase6_complete" \/ proven = 6 THEN "phase6_complete"
      ELSE IF c.stage = "phase1_complete" \/ proven >= 1 THEN "phase1_complete"
      ELSE IF c.task # None THEN "intake_complete"
      ELSE c.stage

\* Only phase 6 is resumed on its own; otherwise phases 2 to 6 run again.
FirstWrite(e) == IF e.phase = 5 THEN 7 ELSE 2

\* The phase a write records: before phase 5 the merge of the pull request
\* saves the file of phase 4 once more.
PhaseWritten(n) == IF n <= 4 THEN n ELSE n - 1

Saved(n, t) == [file |-> "saved", phase |-> n, task |-> t]

At(p, s) == current[p] # None /\ outcome[p] = None /\ work[p].at = s
File(p)  == evidence[current[p].item]

\* The advance of p returns o.
Returns(p, o) ==
  /\ outcome' = [outcome EXCEPT ![p] = o]
  /\ work' = [work EXCEPT ![p] = Idle]
  /\ UNCHANGED <<row, now, pending, current, epoch>>

Success(stage, task) == [error |-> FALSE, stage |-> stage, task |-> task]

\* The advance of p overwrites the evidence file.
Saves(p, n, t) ==
  LET i == current[p].item
  IN  /\ evidence' = [evidence EXCEPT ![i] = Saved(n, t)]
      /\ reached' = [reached EXCEPT ![i] = IF n > @ THEN n ELSE @]

-----------------------------------------------------------------------------
(* The steps of an advance.                                                *)

\* Mutant: torn evidence is treated like missing evidence.
StartOnAnyFile(p, c) ==
  /\ BeginAdvance(p, c)
  /\ work' = [work EXCEPT ![p] =
       [at |-> resolveDeliveryStage(c, evidence[c.item]), next |-> 2, task |-> None]]
  /\ UNCHANGED <<evidence, spent, created, reached>>

\* The evidence is read and the stage resolved.
Start(p, c) ==
  /\ BeginAdvance(p, c)
  /\ evidence[c.item].file # "torn"
  /\ work' = [work EXCEPT ![p] =
       [at |-> resolveDeliveryStage(c, evidence[c.item]), next |-> 2, task |-> None]]
  /\ UNCHANGED <<evidence, spent, created, reached>>

\* Unreadable evidence throws out of the advance and of the tick: nothing is
\* released, the batch stays locked.
StartThrows(p, c) ==
  /\ current[p] = None /\ c \in pending[p]
  /\ evidence[c.item].file = "torn"
  /\ pending' = [pending EXCEPT ![p] = {}]
  /\ UNCHANGED <<row, now, current, outcome, epoch, deliveryVars>>

\* Mutant: a failed step reports the task it had created.
FailsWithTask(p) ==
  /\ current[p] # None /\ outcome[p] = None
  /\ Returns(p, [error |-> TRUE, stage |-> "failed",
                  task |-> IF work[p].at = "created" THEN work[p].task ELSE current[p].task])
  /\ UNCHANGED <<evidence, spent, created, reached>>

\* Mutant: the stage "failed" is returned without an error.
FailsWithoutError(p) ==
  /\ current[p] # None /\ outcome[p] = None
  /\ Returns(p, [error |-> FALSE, stage |-> "failed", task |-> current[p].task])
  /\ UNCHANGED <<evidence, spent, created, reached>>

\* Every other failure becomes an outcome; it carries the claimed item, not
\* what the failed step had created.
Fails(p) ==
  /\ current[p] # None /\ outcome[p] = None
  /\ Returns(p, [error |-> TRUE, stage |-> "failed", task |-> current[p].task])
  /\ UNCHANGED <<evidence, spent, created, reached>>

\* Project and task are created anew: intake does not look for earlier ones.
CreateIntake(p, t) ==
  /\ At(p, "queued")
  /\ \A i \in Items : t \notin created[i]
  /\ created' = [created EXCEPT ![current[p].item] = @ \cup {t}]
  /\ work' = [work EXCEPT ![p].at = "created", ![p].task = t]
  /\ UNCHANGED <<vars, evidence, spent, reached>>

RecordIntake(p) ==
  /\ At(p, "created")
  /\ Saves(p, 0, work[p].task)
  /\ Returns(p, Success("intake_complete", work[p].task))
  /\ UNCHANGED <<spent, created>>

\* Phase 1 starts from the file as it is now; if another process has done it
\* since the stage was resolved, that is the outcome.
LoadPhase1(p) ==
  /\ At(p, "intake_complete")
  /\ File(p).file = "saved"
  /\ IF File(p).phase = 1
     THEN Returns(p, Success("phase1_complete", current[p].task))
     ELSE /\ work' = [work EXCEPT ![p].at = "phase1", ![p].task = File(p).task]
          /\ UNCHANGED vars
  /\ UNCHANGED <<evidence, spent, created, reached>>

SavePhase1(p) ==
  /\ At(p, "phase1")
  /\ Saves(p, 1, work[p].task)
  /\ work' = [work EXCEPT ![p].at = "phase1_saved"]
  /\ UNCHANGED <<vars, spent, created>>

\* The stage reported is what the file says now.
EndPhase1(p) ==
  /\ At(p, "phase1_saved")
  /\ File(p).file # "torn"
  /\ Returns(p, Success(IF File(p).file = "saved" /\ File(p).phase = 1
                        THEN "phase1_complete" ELSE "failed", current[p].task))
  /\ UNCHANGED <<evidence, spent, created, reached>>

LoadPhases(p) ==
  /\ At(p, "phase1_complete")
  /\ File(p).file = "saved"
  /\ work' = [work EXCEPT ![p] = [at |-> "phases", next |-> FirstWrite(File(p)),
                                  task |-> File(p).task]]
  /\ UNCHANGED <<vars, evidence, spent, created, reached>>

\* Mutant: the phase loop runs once too often.
SavePhaseOneMore(p) ==
  /\ At(p, "phases") /\ work[p].next <= 8
  /\ Saves(p, PhaseWritten(work[p].next), work[p].task)
  /\ work' = [work EXCEPT ![p].next = @ + 1]
  /\ UNCHANGED <<vars, spent, created>>

SavePhase(p) ==
  /\ At(p, "phases") /\ work[p].next <= 7
  /\ Saves(p, PhaseWritten(work[p].next), work[p].task)
  /\ work' = [work EXCEPT ![p].next = @ + 1]
  /\ UNCHANGED <<vars, spent, created>>

\* No merge is asked for, or the file says it was done.
SkipMerge(p) ==
  /\ At(p, "phases") /\ work[p].next = 5
  /\ work' = [work EXCEPT ![p].next = 6]
  /\ UNCHANGED <<vars, evidence, spent, created, reached>>

EndPhases(p) ==
  /\ At(p, "phases") /\ work[p].next = 8
  /\ File(p).file # "torn"
  /\ Returns(p, Success(IF File(p).file = "saved" /\ File(p).phase = 6
                        THEN "phase6_complete" ELSE "phase1_complete", current[p].task))
  /\ UNCHANGED <<evidence, spent, created, reached>>

\* The final proof was built and verified.
Complete(p) ==
  /\ At(p, "phase6_complete")
  /\ Returns(p, Success("completed", current[p].task))
  /\ UNCHANGED <<evidence, spent, created, reached>>

\* The process stops while it writes the file.
CrashWriting(p) ==
  /\ At(p, "created") \/ At(p, "phase1") \/ (At(p, "phases") /\ work[p].next <= 7)
  /\ Crash(p)
  /\ evidence' = [evidence EXCEPT ![current[p].item].file = "torn"]
  /\ work' = [work EXCEPT ![p] = Idle]
  /\ UNCHANGED <<spent, created, reached>>

-----------------------------------------------------------------------------
(* The queue's actions, with the time an advance may take.                 *)

ClaimAt(p, S) ==
  /\ ClaimBatch(p, S)
  /\ spent' = [spent EXCEPT ![p] = 0]
  /\ UNCHANGED <<evidence, work, created, reached>>

\* After a release the next item of the batch begins.
ReleaseAt(p) ==
  /\ Release(p)
  /\ spent' = [spent EXCEPT ![p] = 0]
  /\ UNCHANGED <<evidence, work, created, reached>>

\* A release that throws, and a crash between two writes, leave the file.
StopsAt(p) ==
  /\ ReleaseThrows(p) \/ Crash(p)
  /\ work' = [work EXCEPT ![p] = Idle]
  /\ UNCHANGED <<evidence, spent, created, reached>>

TimePasses ==
  /\ Tick
  /\ \A p \in Workers : Held(p) # {} => spent[p] < WorkLimit
  /\ spent' = [p \in Workers |-> IF Held(p) = {} THEN 0 ELSE spent[p] + 1]
  /\ UNCHANGED <<evidence, work, created, reached>>

DeliveryInit ==
  /\ Init
  /\ evidence = [i \in Items |-> [file |-> "absent", phase |-> 0, task |-> None]]
  /\ work = [p \in Workers |-> Idle]
  /\ spent = [p \in Workers |-> 0]
  /\ created = [i \in Items |-> {}]
  /\ reached = [i \in Items |-> 0]

DeliveryNext ==
  \/ \E i \in Items : (Submit(i) \/ Requeue(i)) /\ UNCHANGED deliveryVars
  \/ \E p \in Workers, S \in SUBSET Items : ClaimAt(p, S)
  \/ \E p \in Workers : \E c \in pending[p] : Start(p, c) \/ StartThrows(p, c)
  \/ \E p \in Workers, t \in Tasks : CreateIntake(p, t)
  \/ \E p \in Workers :
       \/ Fails(p) \/ RecordIntake(p) \/ LoadPhase1(p) \/ SavePhase1(p) \/ EndPhase1(p)
       \/ LoadPhases(p) \/ SavePhase(p) \/ SkipMerge(p) \/ EndPhases(p) \/ Complete(p)
       \/ CrashWriting(p) \/ ReleaseAt(p)
       \/ StopsAt(p)
  \/ TimePasses

DeliverySpec == DeliveryInit /\ [][DeliveryNext]_allVars

-----------------------------------------------------------------------------
(* Properties.                                                             *)

\* The file, the advances and the histories hold values of their types.
DeliveryTypeOK ==
  /\ TypeOK
  /\ evidence \in [Items -> Evidence]
  /\ work \in [Workers -> Work]
  /\ spent \in [Workers -> 0..WorkLimit]
  /\ created \in [Items -> SUBSET Tasks]
  /\ reached \in [Items -> 0..6]

\* A process that is still working on an item still owns it: when no advance
\* is longer than a lease, no lease runs out under the work.
LeaseOutlivesWork ==
  \A p \in Workers : current[p] # None => CanRelease(p, current[p])

\* The phase a stage rests on.
PhaseOf(s) == CASE s = "phase1_complete" -> 1
                [] s \in {"phase6_complete", "completed"} -> 6
                [] OTHER -> 0

\* The stage a row records is one its readable evidence file still proves.
EvidenceBacksRow ==
  \A i \in Items :
    row[i].stage \in {"intake_complete", "phase1_complete", "phase6_complete", "completed"} =>
      \/ evidence[i].file = "torn"
      \/ evidence[i].file = "saved" /\ evidence[i].phase >= PhaseOf(row[i].stage)

\* The row and the file name the same task: phases work on the file's task,
\* operators and the intake refinement on the row's.
TaskAgrees ==
  \A i \in Items : row[i].task # None /\ evidence[i].file = "saved" =>
                     evidence[i].task = row[i].task

\* Once a row records its task, no second task is created for the item and the
\* row keeps naming that task: through crashes, dead letters and requeues.
IntakeOnce ==
  [][\A i \in Items : row[i].task # None =>
       created'[i] = created[i] /\ row'[i].task = row[i].task]_allVars

\* Nothing is built on a torn file: the item keeps its place, whatever is
\* retried or requeued.
TornFileStopsItem ==
  [][\A i \in Items : evidence[i].file = "torn" =>
       /\ evidence'[i] = evidence[i]
       /\ Position(row'[i]) = Position(row[i])]_allVars

\* Even when processes outlive their leases and overwrite each other's files:
\* a row never records a stage whose phase was not once saved for the item.
StageWasReached ==
  \A i \in Items : reached[i] >= PhaseOf(row[i].stage)

\* Whatever the steps of an advance do, the queue sees an advance of
\* FactoryQueue.
DeliveryImplementsQueue == Spec

=============================================================================
