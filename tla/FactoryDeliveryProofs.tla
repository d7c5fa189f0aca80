----------------------- MODULE FactoryDeliveryProofs -----------------------
(***************************************************************************)
(* Proofs about FactoryDelivery.  For every value of the constants: the    *)
(* types, the refinement of the queue, and that no stage is recorded that  *)
(* was not once reached.  In time - one item per tick, and no advance      *)
(* longer than a lease - the rest: a claim in memory is its row's lock, so *)
(* a process at work has the row and the file to itself, and both say the  *)
(* same.                                                                   *)
(***************************************************************************)
EXTENDS FactoryDelivery, FactoryQueueRefinement, FiniteSetTheorems

-----------------------------------------------------------------------------
(* The step an advance is at and the claim it works on.                    *)

StageFits(c, w) ==
  /\ w.at \in {"queued", "created"} => c.stage = "queued" /\ c.task = None
  /\ w.at = "created" => w.task \in Tasks
  /\ w.at \in {"intake_complete", "phase1", "phase1_saved"} =>
       c.stage \in {"queued", "intake_complete"}
  /\ w.at \in {"phase1_complete", "phases"} => c.stage # "phase6_complete"

Working(p) == current[p] # None /\ outcome[p] = None

\* The advances that have not ended are at a step their claim allows.
WorkInv == \A p \in Workers : Working(p) => StageFits(current[p], work[p])

BaseInv == DeliveryTypeOK /\ FenceInv /\ WorkInv

LEMMA ResolvedStage ==
  ASSUME NEW c \in Claim, NEW e \in Evidence, NEW n, NEW t
  PROVE  /\ resolveDeliveryStage(c, e) \in Recoverable
         /\ StageFits(c, [at |-> resolveDeliveryStage(c, e), next |-> n, task |-> t])
         /\ e.file = "saved" => 
              /\ resolveDeliveryStage(c, e) = "phase6_complete" =>
                   c.stage = "phase6_complete" \/ e.phase = 6
              /\ resolveDeliveryStage(c, e) = "phase1_complete" =>
                   c.stage = "phase1_complete" \/ e.phase >= 1
         /\ e.file # "saved" => 
              /\ resolveDeliveryStage(c, e) \in {"phase1_complete", "phase6_complete"} =>
                   resolveDeliveryStage(c, e) = c.stage
<1>1. c.stage \in Recoverable /\ e.phase \in 0..6
  BY DEF Claim, Evidence
<1>2. CASE c.stage = "phase6_complete" \/ (e.file = "saved" /\ e.phase = 6)
  BY <1>1, <1>2 DEF resolveDeliveryStage, StageFits, Recoverable
<1>3. CASE ~(c.stage = "phase6_complete" \/ (e.file = "saved" /\ e.phase = 6))
  BY <1>1, <1>3 DEF resolveDeliveryStage, StageFits, Recoverable
<1> QED BY <1>2, <1>3

LEMMA ClaimAndWork ==
  ASSUME DeliveryTypeOK, NEW p \in Workers
  PROVE  /\ current[p] # None => /\ current[p] \in Claim /\ current[p].item \in Items
                                 /\ evidence[current[p].item] \in Evidence
                                 /\ current[p].task \in Tasks \cup {None}
         /\ work[p] \in Work /\ work[p].at \in Steps /\ work[p].next \in 2..8
         /\ work[p].task \in Tasks \cup {None}
         /\ \A c \in pending[p] : c \in Claim /\ c.item \in Items
BY DEF DeliveryTypeOK, TypeOK, Claim, Work

-----------------------------------------------------------------------------
(* The actions by who takes them.                                          *)

\* The steps between taking up a claim and its outcome.
AdvanceStep(p) ==
  \/ \E t \in Tasks : CreateIntake(p, t)
  \/ Fails(p) \/ RecordIntake(p) \/ LoadPhase1(p) \/ SavePhase1(p) \/ EndPhase1(p)
  \/ LoadPhases(p) \/ SavePhase(p) \/ SkipMerge(p) \/ EndPhases(p) \/ Complete(p)

\* Those after which the advance goes on.
Continues(p) ==
  \/ \E t \in Tasks : CreateIntake(p, t)
  \/ LoadPhase1(p) /\ File(p).phase # 1
  \/ SavePhase1(p) \/ LoadPhases(p) \/ SavePhase(p) \/ SkipMerge(p)

Begins(p) == \E c \in pending[p] : Start(p, c)

LetsGo(p) == (\E c \in pending[p] : StartThrows(p, c)) \/ CrashWriting(p) \/ StopsAt(p)

Outside == \/ \E i \in Items : (Submit(i) \/ Requeue(i)) /\ UNCHANGED deliveryVars
           \/ TimePasses \/ UNCHANGED allVars

-----------------------------------------------------------------------------
(* Every step of an advance is one of the queue's, or none.                *)

LEMMA ReturnEnds ==
  ASSUME DeliveryTypeOK, NEW p \in Workers, current[p] # None, outcome[p] = None,
         NEW o \in AdvanceOutcomes(current[p]), o \in Outcome, Returns(p, o)
  PROVE  \E u \in Outcome : EndAdvance(p, u)
BY DEF Returns, EndAdvance

LEMMA SuccessEnds ==
  ASSUME DeliveryTypeOK, NEW p \in Workers, current[p] # None, outcome[p] = None,
         NEW s \in Recoverable \ {"queued"}, Rank(s) >= Rank(current[p].stage),
         NEW t \in NextStages(s), Returns(p, Success(t, current[p].task))
  PROVE  \E u \in Outcome : EndAdvance(p, u)
<1>1. Success(t, current[p].task) \in AdvanceOutcomes(current[p])
  <2> DEFINE From(u) == { [error |-> FALSE, stage |-> x, task |-> current[p].task] : x \in NextStages(u) }
             U == { u \in Recoverable \ {"queued"} : Rank(u) >= Rank(current[p].stage) }
  <2>1. Success(t, current[p].task) \in From(s) /\ s \in U
    BY DEF Success
  <2>2. Success(t, current[p].task) \in UNION { From(u) : u \in U }
    <3> HIDE DEF From, U
    <3> QED BY <2>1
  <2> QED BY <2>2 DEF AdvanceOutcomes
<1>2. t \in RowStages \cup {"failed"}
  BY DEF NextStages, RowStages, Recoverable, Terminal
<1>3. Success(t, current[p].task) \in Outcome
  BY <1>2, ClaimAndWork DEF Success, Outcome
<1> QED BY <1>1, <1>3, ReturnEnds

LEMMA AdvanceMaps ==
  ASSUME BaseInv, NEW p \in Workers, AdvanceStep(p)
  PROVE  (\E u \in Outcome : EndAdvance(p, u)) \/ (UNCHANGED vars /\ Continues(p))
<1> USE DEF BaseInv
<1> DEFINE Goal == \/ \E u \in Outcome : EndAdvance(p, u)
                   \/ UNCHANGED vars /\ Continues(p)
<1>2. ASSUME Fails(p)
      PROVE  Goal
  <2> DEFINE o == [error |-> TRUE, stage |-> "failed", task |-> current[p].task]
  <2>1. o \in AdvanceOutcomes(current[p])
    BY DEF AdvanceOutcomes
  <2>2. o \in Outcome
    BY <1>2, ClaimAndWork DEF Fails, Outcome
  <2> QED BY <1>2, <2>1, <2>2, ReturnEnds DEF Fails
<1>3. ASSUME RecordIntake(p)
      PROVE  Goal
  <2> DEFINE o == Success("intake_complete", work[p].task)
  <2>1. /\ current[p] # None /\ outcome[p] = None /\ Returns(p, o)
        /\ current[p].stage = "queued" /\ current[p].task = None /\ work[p].task \in Tasks
    BY <1>3 DEF RecordIntake, At, WorkInv, Working, StageFits
  <2>2. o \in AdvanceOutcomes(current[p])
    BY <2>1 DEF Success, AdvanceOutcomes
  <2>3. "intake_complete" \in RowStages
    BY DEF RowStages, Recoverable
  <2>4. o \in Outcome
    BY <2>1, <2>3 DEF Success, Outcome
  <2> QED BY <2>1, <2>2, <2>4, ReturnEnds
<1>4. ASSUME LoadPhase1(p) \/ EndPhase1(p)
      PROVE  Goal
  <2>1. /\ current[p] # None /\ outcome[p] = None
        /\ current[p].stage \in {"queued", "intake_complete"}
    BY <1>4 DEF LoadPhase1, EndPhase1, At, WorkInv, Working, StageFits
  <2>2. /\ "intake_complete" \in Recoverable \ {"queued"}
        /\ Rank("intake_complete") >= Rank(current[p].stage)
        /\ NextStages("intake_complete") = {"phase1_complete", "failed"}
    BY <2>1 DEF Recoverable, Rank, NextStages
  <2>3. \/ UNCHANGED vars /\ Continues(p)
        \/ \E t \in {"phase1_complete", "failed"} : Returns(p, Success(t, current[p].task))
    BY <1>4 DEF LoadPhase1, EndPhase1, Continues
  <2> QED BY <2>1, <2>2, <2>3, SuccessEnds
<1>5. ASSUME EndPhases(p)
      PROVE  Goal
  <2>1. /\ current[p] # None /\ outcome[p] = None
        /\ current[p].stage \in Recoverable \ {"phase6_complete"}
    BY <1>5, ClaimAndWork DEF EndPhases, At, WorkInv, Working, StageFits, Claim
  <2>2. /\ "phase1_complete" \in Recoverable \ {"queued"}
        /\ Rank("phase1_complete") >= Rank(current[p].stage)
        /\ NextStages("phase1_complete") = {"phase6_complete", "phase1_complete"}
    BY <2>1 DEF Recoverable, Rank, NextStages
  <2>3. \E t \in {"phase6_complete", "phase1_complete"} : Returns(p, Success(t, current[p].task))
    BY <1>5 DEF EndPhases
  <2> QED BY <2>1, <2>2, <2>3, SuccessEnds
<1>6. ASSUME Complete(p)
      PROVE  Goal
  <2>1. /\ current[p] # None /\ outcome[p] = None
        /\ current[p].stage \in Recoverable
    BY <1>6, ClaimAndWork DEF Complete, At, Claim
  <2>2. /\ "phase6_complete" \in Recoverable \ {"queued"}
        /\ Rank("phase6_complete") >= Rank(current[p].stage)
        /\ "completed" \in NextStages("phase6_complete")
    BY <2>1 DEF Recoverable, Rank, NextStages
  <2> QED BY <1>6, <2>1, <2>2, SuccessEnds DEF Complete
<1>7. ASSUME
             \/ \E t \in Tasks : CreateIntake(p, t)
             \/ SavePhase1(p) \/ LoadPhases(p) \/ SavePhase(p) \/ SkipMerge(p)
      PROVE  Goal
  BY <1>7 DEF CreateIntake, SavePhase1, LoadPhases, SavePhase, SkipMerge, Continues
<1> QED BY <1>2, <1>3, <1>4, <1>5, <1>6, <1>7 DEF AdvanceStep

LEMMA DeliveryStepMaps ==
  ASSUME BaseInv, [DeliveryNext]_allVars
  PROVE  [Next]_vars
<1> USE DEF BaseInv
<1>1. ASSUME NEW p \in Workers, NEW c \in pending[p], StartThrows(p, c)
      PROVE  Next
  <2>1. current[p] = None /\ outcome[p] = None
    BY <1>1 DEF StartThrows, DeliveryTypeOK, TypeOK
  <2>2. Crash(p)
    BY <1>1, <2>1 DEF StartThrows, Crash, Held, DeliveryTypeOK, TypeOK
  <2> QED BY <2>2 DEF Next
<1>2. ASSUME NEW p \in Workers, AdvanceStep(p)
      PROVE  Next \/ UNCHANGED vars
  BY <1>2, AdvanceMaps DEF Next
<1>8. ASSUME NEW p \in Workers, CrashWriting(p) \/ ReleaseAt(p) \/ StopsAt(p)
      PROVE  Next
  BY <1>8 DEF CrashWriting, ReleaseAt, StopsAt, Next
<1>9. ASSUME NEW p \in Workers, NEW S \in SUBSET Items, ClaimAt(p, S)
      PROVE  Next
  BY <1>9 DEF ClaimAt, Next
<1>10. ASSUME NEW p \in Workers, NEW c \in pending[p], Start(p, c)
       PROVE  Next
  BY <1>10 DEF Start, Next
<1>11. CASE \E i \in Items : (Submit(i) \/ Requeue(i)) /\ UNCHANGED deliveryVars
  BY <1>11 DEF Next
<1>12. CASE TimePasses
  BY <1>12 DEF TimePasses, Next
<1>13. CASE UNCHANGED allVars
  BY <1>13 DEF allVars
<1> QED BY <1>1, <1>2, <1>8, <1>9, <1>10, <1>11, <1>12, <1>13
        DEF DeliveryNext, AdvanceStep

LEMMA FileTypes ==
  ASSUME DeliveryTypeOK, NEW p \in Workers, NEW n \in 0..6, NEW t \in Tasks \cup {None},
         current[p] # None, Saves(p, n, t)
  PROVE  evidence' \in [Items -> Evidence] /\ reached' \in [Items -> 0..6]
<1>1. Saved(n, t) \in Evidence
  BY DEF Saved, Evidence
<1>2. current[p].item \in Items /\ reached[current[p].item] \in 0..6
  BY ClaimAndWork DEF DeliveryTypeOK
<1> QED BY <1>1, <1>2 DEF Saves, DeliveryTypeOK

\* What the writes of phases 2 to 6 record.
LEMMA PhasesWritten ==
  ASSUME NEW n \in 2..8
  PROVE  /\ n <= 7 => PhaseWritten(n) \in 2..6 /\ n + 1 \in 2..8
         /\ n = 7 => PhaseWritten(n) = 6
BY DEF PhaseWritten

LEMMA IdleType == Idle \in Work
<1>1. "queued" \in Steps
  BY DEF Steps, Recoverable
<1> QED BY <1>1 DEF Idle, Work

LEMMA DeliveryTypesStep ==
  ASSUME DeliveryTypeOK, TypeOK', [DeliveryNext]_allVars
  PROVE  DeliveryTypeOK'
<1> USE DEF DeliveryTypeOK
<1> DEFINE Rest == /\ evidence' \in [Items -> Evidence]
                   /\ work' \in [Workers -> Work]
                   /\ spent' \in [Workers -> 0..WorkLimit]
                   /\ created' \in [Items -> SUBSET Tasks]
                   /\ reached' \in [Items -> 0..6]
<1> SUFFICES Rest
  OBVIOUS
<1>0. {"created", "phase1", "phase1_saved", "phases"} \subseteq Steps
  BY DEF Steps
<1>1. ASSUME NEW p \in Workers, NEW c \in pending[p], Start(p, c)
      PROVE  Rest
  <2> DEFINE s == resolveDeliveryStage(c, evidence[c.item])
  <2>1. s \in Steps
    BY <1>1, ClaimAndWork, ResolvedStage DEF Steps
  <2> HIDE DEF s
  <2>2. [at |-> s, next |-> 2, task |-> None] \in Work
    BY <2>1 DEF Work
  <2>3. work' = [work EXCEPT ![p] = [at |-> s, next |-> 2, task |-> None]]
    BY <1>1 DEF Start, s
  <2> QED BY <1>1, <2>2, <2>3 DEF Start
<1>2. ASSUME NEW p \in Workers, NEW c \in pending[p], StartThrows(p, c)
      PROVE  Rest
  BY <1>2 DEF StartThrows, deliveryVars
<1>3. ASSUME NEW p \in Workers, Fails(p) \/ EndPhase1(p) \/ EndPhases(p) \/ Complete(p)
      PROVE  Rest
  <2>1. work' = [work EXCEPT ![p] = Idle] /\ UNCHANGED <<evidence, spent, created, reached>>
    BY <1>3 DEF Fails, EndPhase1, EndPhases, Complete, Returns
  <2> QED BY <2>1, IdleType
<1>4. ASSUME NEW p \in Workers, NEW t \in Tasks, CreateIntake(p, t)
      PROVE  Rest
  <2>1. current[p] # None /\ current[p].item \in Items /\ work[p] \in Work
    BY <1>4, ClaimAndWork DEF CreateIntake, At
  <2>2. [work[p] EXCEPT !.at = "created", !.task = t] \in Work
    BY <1>0, <2>1 DEF Work
  <2>3. work' = [work EXCEPT ![p] = [work[p] EXCEPT !.at = "created", !.task = t]]
    BY <1>4 DEF CreateIntake
  <2> QED BY <1>4, <2>1, <2>2, <2>3 DEF CreateIntake
<1>5. ASSUME NEW p \in Workers, RecordIntake(p)
      PROVE  Rest
  <2>1. evidence' \in [Items -> Evidence] /\ reached' \in [Items -> 0..6]
    BY <1>5, ClaimAndWork, FileTypes DEF RecordIntake, At
  <2> QED BY <1>5, <2>1, IdleType DEF RecordIntake, Returns
<1>6. ASSUME NEW p \in Workers, LoadPhase1(p)
      PROVE  Rest
  <2>1. CASE File(p).phase = 1
    BY <1>6, <2>1, IdleType DEF LoadPhase1, Returns
  <2>2. CASE File(p).phase # 1
    <3>1. File(p).task \in Tasks \cup {None} /\ work[p] \in Work
      BY <1>6, ClaimAndWork DEF LoadPhase1, At, File, Evidence
    <3>2. [work[p] EXCEPT !.at = "phase1", !.task = File(p).task] \in Work
      BY <1>0, <3>1 DEF Work
    <3>3. work' = [work EXCEPT ![p] = [work[p] EXCEPT !.at = "phase1", !.task = File(p).task]]
      BY <1>6, <2>2 DEF LoadPhase1
    <3> QED BY <1>6, <3>2, <3>3 DEF LoadPhase1
  <2> QED BY <2>1, <2>2
<1>7. ASSUME NEW p \in Workers, SavePhase1(p)
      PROVE  Rest
  <2>1. evidence' \in [Items -> Evidence] /\ reached' \in [Items -> 0..6]
    BY <1>7, ClaimAndWork, FileTypes DEF SavePhase1, At
  <2>2. [work[p] EXCEPT !.at = "phase1_saved"] \in Work
    BY <1>0, ClaimAndWork DEF Work
  <2>3. work' = [work EXCEPT ![p] = [work[p] EXCEPT !.at = "phase1_saved"]]
    BY <1>7 DEF SavePhase1
  <2> QED BY <1>7, <2>1, <2>2, <2>3 DEF SavePhase1
<1>8. ASSUME NEW p \in Workers, LoadPhases(p)
      PROVE  Rest
  <2>1. File(p).task \in Tasks \cup {None} /\ FirstWrite(File(p)) \in 2..8
    BY <1>8, ClaimAndWork DEF LoadPhases, At, File, Evidence, FirstWrite
  <2>2. [at |-> "phases", next |-> FirstWrite(File(p)), task |-> File(p).task] \in Work
    BY <1>0, <2>1 DEF Work
  <2> QED BY <1>8, <2>2 DEF LoadPhases
<1>9. ASSUME NEW p \in Workers, SavePhase(p)
      PROVE  Rest
  <2>1. PhaseWritten(work[p].next) \in 0..6 /\ work[p].next + 1 \in 2..8
    BY <1>9, ClaimAndWork, PhasesWritten DEF SavePhase
  <2>2. evidence' \in [Items -> Evidence] /\ reached' \in [Items -> 0..6]
    BY <1>9, <2>1, ClaimAndWork, FileTypes DEF SavePhase, At
  <2>3. [work[p] EXCEPT !.next = @ + 1] \in Work
    BY <2>1, ClaimAndWork DEF Work
  <2>4. work' = [work EXCEPT ![p] = [work[p] EXCEPT !.next = @ + 1]]
    BY <1>9 DEF SavePhase
  <2> QED BY <1>9, <2>2, <2>3, <2>4 DEF SavePhase
<1>10. ASSUME NEW p \in Workers, SkipMerge(p)
       PROVE  Rest
  <2>1. [work[p] EXCEPT !.next = 6] \in Work
    BY ClaimAndWork DEF Work
  <2>2. work' = [work EXCEPT ![p] = [work[p] EXCEPT !.next = 6]]
    BY <1>10 DEF SkipMerge
  <2> QED BY <1>10, <2>1, <2>2 DEF SkipMerge
<1>11. ASSUME NEW p \in Workers, CrashWriting(p)
       PROVE  Rest
  <2>1. current[p].item \in Items /\ evidence[current[p].item] \in Evidence
    BY <1>11, ClaimAndWork DEF CrashWriting, At
  <2>2. [evidence[current[p].item] EXCEPT !.file = "torn"] \in Evidence
    BY <2>1 DEF Evidence
  <2>3. evidence' = [evidence EXCEPT ![current[p].item] =
                       [evidence[current[p].item] EXCEPT !.file = "torn"]]
    BY <1>11 DEF CrashWriting
  <2> QED BY <1>11, <2>1, <2>2, <2>3, IdleType DEF CrashWriting
<1>12. ASSUME NEW p \in Workers,
              (\E S \in SUBSET Items : ClaimAt(p, S)) \/ ReleaseAt(p)
       PROVE  Rest
  <2>1. spent' = [spent EXCEPT ![p] = 0] /\ 0 \in 0..WorkLimit
        /\ UNCHANGED <<evidence, work, created, reached>>
    BY <1>12, WorkAssumption DEF ClaimAt, ReleaseAt
  <2> QED BY <2>1
<1>13. ASSUME NEW p \in Workers, StopsAt(p)
       PROVE  Rest
  BY <1>13, IdleType DEF StopsAt
<1>14. CASE TimePasses
  <2>1. \A p \in Workers : (IF Held(p) = {} THEN 0 ELSE spent[p] + 1) \in 0..WorkLimit
    BY <1>14, WorkAssumption DEF TimePasses
  <2> QED BY <1>14, <2>1 DEF TimePasses
<1>15. CASE (\E i \in Items : (Submit(i) \/ Requeue(i)) /\ UNCHANGED deliveryVars) \/ UNCHANGED allVars
  BY <1>15 DEF allVars, deliveryVars
<1> HIDE DEF Rest
<1> QED BY <1>1, <1>2, <1>3, <1>4, <1>5, <1>6, <1>7, <1>8, <1>9, <1>10, <1>11, <1>12,
           <1>13, <1>14, <1>15 DEF DeliveryNext

LEMMA WhoSteps ==
  ASSUME [DeliveryNext]_allVars
  PROVE  \/ \E p \in Workers : \/ AdvanceStep(p) \/ Begins(p) \/ LetsGo(p) \/ ReleaseAt(p)
                               \/ \E S \in SUBSET Items : ClaimAt(p, S)
         \/ Outside
BY DEF DeliveryNext, AdvanceStep, Begins, LetsGo, Outside

\* What a worker's step leaves of the others.
LEMMA Bystander ==
  ASSUME DeliveryTypeOK, NEW p \in Workers, NEW q \in Workers, q # p,
         \/ AdvanceStep(p) \/ Begins(p) \/ LetsGo(p) \/ ReleaseAt(p)
         \/ \E S \in SUBSET Items : ClaimAt(p, S)
  PROVE  /\ current'[q] = current[q] /\ outcome'[q] = outcome[q] /\ work'[q] = work[q]
         /\ pending'[q] = pending[q] /\ spent'[q] = spent[q] /\ Held(q)' = Held(q)
<1> USE DEF DeliveryTypeOK, TypeOK, Held
<1>1. CASE AdvanceStep(p)
  <2>1. UNCHANGED <<pending, current, spent>>
    BY <1>1 DEF AdvanceStep, CreateIntake, Fails, RecordIntake, LoadPhase1, SavePhase1,
       EndPhase1, LoadPhases, SavePhase, SkipMerge, EndPhases, Complete, Returns, vars
  <2>2. outcome'[q] = outcome[q] /\ work'[q] = work[q]
    BY <1>1 DEF AdvanceStep, CreateIntake, Fails, RecordIntake, LoadPhase1, SavePhase1,
       EndPhase1, LoadPhases, SavePhase, SkipMerge, EndPhases, Complete, Returns, vars
  <2> QED BY <2>1, <2>2
<1>2. CASE Begins(p)
  BY <1>2 DEF Begins, Start, BeginAdvance
<1>3. CASE LetsGo(p)
  BY <1>3 DEF LetsGo, StartThrows, CrashWriting, StopsAt, ReleaseThrows, Crash, deliveryVars
<1>4. CASE ReleaseAt(p)
  BY <1>4 DEF ReleaseAt, Release
<1>5. CASE \E S \in SUBSET Items : ClaimAt(p, S)
  BY <1>5 DEF ClaimAt, ClaimBatch
<1> QED BY <1>1, <1>2, <1>3, <1>4, <1>5

LEMMA OutsideLeavesWorkers ==
  ASSUME Outside
  PROVE  /\ UNCHANGED <<pending, current, outcome, work, evidence, reached, created>>
         /\ \A q \in Workers : Held(q)' = Held(q)
BY DEF Outside, Submit, Requeue, TimePasses, Tick, deliveryVars, allVars, vars, Held

LEMMA WorkStep ==
  ASSUME BaseInv, DeliveryTypeOK', [DeliveryNext]_allVars
  PROVE  WorkInv'
<1> SUFFICES ASSUME NEW q \in Workers, current'[q] # None, outcome'[q] = None
             PROVE  StageFits(current'[q], work'[q])
  BY DEF WorkInv, Working
<1> USE DEF BaseInv, WorkInv, Working
<1>1. CASE Outside
  BY <1>1, OutsideLeavesWorkers
<1>2. ASSUME NEW p \in Workers, p # q,
             \/ AdvanceStep(p) \/ Begins(p) \/ LetsGo(p) \/ ReleaseAt(p)
             \/ \E S \in SUBSET Items : ClaimAt(p, S)
      PROVE  StageFits(current'[q], work'[q])
  <2>1. current'[q] = current[q] /\ outcome'[q] = outcome[q] /\ work'[q] = work[q]
    BY <1>2, Bystander
  <2> QED BY <2>1
<1>3. CASE Begins(q)
  <2>1. PICK c \in pending[q] : Start(q, c)
    BY <1>3 DEF Begins
  <2>2. current'[q] = c /\ c \in Claim /\ evidence[c.item] \in Evidence
    BY <2>1, ClaimAndWork DEF Start, BeginAdvance, DeliveryTypeOK, TypeOK
  <2>3. work'[q] = [at |-> resolveDeliveryStage(c, evidence[c.item]), next |-> 2, task |-> None]
    BY <2>1 DEF Start, DeliveryTypeOK
  <2> QED BY <2>2, <2>3, ResolvedStage
<1>4. CASE LetsGo(q) \/ ReleaseAt(q)
  BY <1>4 DEF LetsGo, StartThrows, CrashWriting, StopsAt, ReleaseThrows, Crash, ReleaseAt,
     Release, DeliveryTypeOK, TypeOK
<1>5. CASE \E S \in SUBSET Items : ClaimAt(q, S)
  BY <1>5 DEF ClaimAt, ClaimBatch
<1>6. CASE AdvanceStep(q)
  <2>1. /\ outcome[q] = None /\ current'[q] = current[q] /\ current[q] # None
        /\ StageFits(current[q], work[q])
    BY <1>6 DEF AdvanceStep, CreateIntake, Fails, RecordIntake, LoadPhase1, SavePhase1,
       EndPhase1, LoadPhases, SavePhase, SkipMerge, EndPhases, Complete, Returns, At, vars
  <2>2. Continues(q)
    <3>1. \A u \in Outcome : ~EndAdvance(q, u)
      BY <2>1, NoneAssumption DEF EndAdvance, DeliveryTypeOK, TypeOK
    <3> QED BY <1>6, <3>1, AdvanceMaps
  <2>3. CASE \E t \in Tasks : CreateIntake(q, t)
    <3>1. PICK t \in Tasks : CreateIntake(q, t)
      BY <2>3
    <3>2. work[q].at = "queued" /\ work'[q].at = "created" /\ work'[q].task = t
      BY <3>1, ClaimAndWork DEF CreateIntake, At, DeliveryTypeOK, Work
    <3> QED BY <2>1, <3>2 DEF StageFits
  <2>4. CASE (LoadPhase1(q) /\ File(q).phase # 1) \/ SavePhase1(q)
    <3>1. /\ work'[q].at \in {"phase1", "phase1_saved"}
          /\ work[q].at \in {"intake_complete", "phase1"}
      BY <2>4, ClaimAndWork DEF LoadPhase1, SavePhase1, At, DeliveryTypeOK, Work
    <3> QED BY <2>1, <3>1 DEF StageFits
  <2>5. CASE LoadPhases(q) \/ SavePhase(q) \/ SkipMerge(q)
    <3>1. work'[q].at = "phases" /\ work[q].at \in {"phase1_complete", "phases"}
      BY <2>5, ClaimAndWork DEF LoadPhases, SavePhase, SkipMerge, At, DeliveryTypeOK, Work
    <3> QED BY <2>1, <3>1 DEF StageFits
  <2> QED BY <2>2, <2>3, <2>4, <2>5 DEF Continues
<1> QED BY <1>1, <1>2, <1>3, <1>4, <1>5, <1>6, WhoSteps

LEMMA BaseInit == DeliveryInit => BaseInv
<1> SUFFICES ASSUME DeliveryInit PROVE BaseInv
  OBVIOUS
<1>1. TypeOK /\ FenceInv
  BY InitFence DEF DeliveryInit
<1>2. [file |-> "absent", phase |-> 0, task |-> None] \in Evidence
  BY DEF Evidence
<1>3. DeliveryTypeOK
  BY <1>1, <1>2, IdleType, WorkAssumption DEF DeliveryInit, DeliveryTypeOK
<1>4. WorkInv
  BY DEF DeliveryInit, Init, WorkInv, Working
<1> QED BY <1>1, <1>3, <1>4 DEF BaseInv

LEMMA BaseStep ==
  ASSUME BaseInv, [DeliveryNext]_allVars
  PROVE  BaseInv' /\ [Next]_vars
<1>1. [Next]_vars
  BY DeliveryStepMaps
<1>2. TypeOK' /\ FenceInv'
  BY <1>1, TypeStep, RowStep, ClaimStep, TickStep DEF BaseInv, FenceInv, DeliveryTypeOK
<1>3. DeliveryTypeOK'
  BY <1>2, DeliveryTypesStep DEF BaseInv
<1>4. WorkInv'
  BY <1>3, WorkStep
<1> QED BY <1>1, <1>2, <1>3, <1>4 DEF BaseInv

\* What holds of every run, however long an advance takes: types, the fence of
\* the queue, and that an advance is at a step its claim allows.
THEOREM BaseHolds == DeliverySpec => []BaseInv
BY BaseInit, BaseStep, PTL DEF DeliverySpec

\* The file, the advances and the histories hold values of their types.
THEOREM DeliveryTypeCorrect == DeliverySpec => []DeliveryTypeOK
<1>1. BaseInv => DeliveryTypeOK
  BY DEF BaseInv
<1> QED BY BaseHolds, <1>1, PTL

\* Whatever the steps of an advance do, and however late, the queue sees an
\* advance of FactoryQueue: all that is proved of the queue holds here.
THEOREM DeliveryIsQueue == DeliverySpec => DeliveryImplementsQueue
<1>1. DeliveryInit => Init
  BY DEF DeliveryInit
<1>2. BaseInv /\ [DeliveryNext]_allVars => [Next]_vars
  BY BaseStep
<1> QED BY <1>1, <1>2, BaseHolds, PTL DEF DeliverySpec, Spec, DeliveryImplementsQueue

\* The delivery keeps the contract of the queue: whatever its advances do and
\* however long they take, an item is in at most one process's hands, and what
\* becomes of it is what LeaseContract allows.
THEOREM DeliveryImplementsContract == DeliverySpec => ImplementsContract /\ []Contract!OneOwner
BY DeliveryIsQueue, QueueImplementsContract, QueueKeepsOneOwner, PTL DEF DeliveryImplementsQueue

\* What is proved of the queue with advances that return anything is kept by
\* the advances of the golden path: one claim passes the fence, a row's failed
\* attempts stay within the limits, no stage is lost and no live lease is taken.
THEOREM DeliveryKeepsQueueSafe ==
  DeliverySpec => []ExclusiveRelease /\ []AttemptBudget /\ ProgressKept /\ NoLiveTakeover
BY DeliveryIsQueue, ReleaseIsExclusive, AttemptsBounded, ProgressIsKept, LiveLeaseRespected, PTL
   DEF DeliveryImplementsQueue

-----------------------------------------------------------------------------
(* Why a recorded stage was once reached, leases or not: what the row, the *)
(* claims, the advances and their outcomes say was once saved.             *)

RowReached(r, n) ==
  /\ n >= PhaseOf(r.stage)
  /\ r.stage = "dead_letter" => n >= PhaseOf(r.failedStage)

StepReached(s, n) ==
  /\ s = "phase6_complete" => n >= 6
  /\ s \in {"phase1_complete", "phases"} => n >= 1

ReachedInv ==
  /\ \A i \in Items : evidence[i].phase <= reached[i] /\ RowReached(row[i], reached[i])
  /\ \A p \in Workers : \A c \in Held(p) : reached[c.item] >= PhaseOf(c.stage)
  /\ \A p \in Workers :
       /\ Working(p) => StepReached(work[p].at, reached[current[p].item])
       /\ outcome[p] # None /\ ~outcome[p].error =>
            reached[current[p].item] >= PhaseOf(outcome[p].stage)

LEMMA PhaseOfStage ==
  /\ PhaseOf("absent") = 0 /\ PhaseOf("queued") = 0 /\ PhaseOf("intake_complete") = 0
  /\ PhaseOf("failed") = 0 /\ PhaseOf("dead_letter") = 0
  /\ PhaseOf("phase1_complete") = 1
  /\ PhaseOf("phase6_complete") = 6 /\ PhaseOf("completed") = 6
  /\ \A s : PhaseOf(s) \in {0, 1, 6}
BY DEF PhaseOf

\* What is saved is reached, and what was reached remains so.
LEMMA FileSteps ==
  ASSUME BaseInv, [DeliveryNext]_allVars, NEW i \in Items
  PROVE  \/ /\ evidence'[i] = evidence[i] /\ reached'[i] = reached[i]
         \/ \E p \in Workers : 
              /\ CrashWriting(p) /\ i = current[p].item /\ reached'[i] = reached[i]
              /\ evidence'[i] = [evidence[i] EXCEPT !.file = "torn"]
         \/ \E p \in Workers, n \in 0..6, t \in Tasks \cup {None} :
              /\ Working(p) /\ i = current[p].item /\ t = work[p].task
              /\ \/ RecordIntake(p) /\ n = 0
                 \/ SavePhase1(p) /\ n = 1
                 \/ SavePhase(p) /\ n = PhaseWritten(work[p].next) /\ n >= 2
              /\ evidence'[i] = Saved(n, t)
              /\ reached'[i] = IF n > reached[i] THEN n ELSE reached[i]
<1> USE DEF BaseInv
<1>1. CASE UNCHANGED <<evidence, reached>>
  BY <1>1
<1>2. ASSUME NEW p \in Workers, NEW n \in 0..6, Saves(p, n, work[p].task), Working(p),
             \/ RecordIntake(p) /\ n = 0
             \/ SavePhase1(p) /\ n = 1
             \/ SavePhase(p) /\ n = PhaseWritten(work[p].next) /\ n >= 2,
             i = current[p].item
      PROVE  \E q \in Workers, m \in 0..6, t \in Tasks \cup {None} :
              /\ Working(q) /\ i = current[q].item /\ t = work[q].task
              /\ \/ RecordIntake(q) /\ m = 0
                 \/ SavePhase1(q) /\ m = 1
                 \/ SavePhase(q) /\ m = PhaseWritten(work[q].next) /\ m >= 2
              /\ evidence'[i] = Saved(m, t)
              /\ reached'[i] = IF m > reached[i] THEN m ELSE reached[i]
  <2>1. /\ evidence'[i] = Saved(n, work[p].task)
        /\ reached'[i] = IF n > reached[i] THEN n ELSE reached[i]
    BY <1>2 DEF Saves, DeliveryTypeOK
  <2>2. work[p].task \in Tasks \cup {None}
    BY ClaimAndWork
  <2> QED BY <1>2, <2>1, <2>2
<1>3. ASSUME NEW p \in Workers, NEW n \in 0..6, Saves(p, n, work[p].task), i # current[p].item
      PROVE  evidence'[i] = evidence[i] /\ reached'[i] = reached[i]
  BY <1>3 DEF Saves, DeliveryTypeOK
<1>4. ASSUME NEW p \in Workers, RecordIntake(p) \/ SavePhase1(p) \/ SavePhase(p)
      PROVE  \E n \in 0..6 :
               /\ Saves(p, n, work[p].task) /\ Working(p)
               /\ \/ RecordIntake(p) /\ n = 0
                  \/ SavePhase1(p) /\ n = 1
                  \/ SavePhase(p) /\ n = PhaseWritten(work[p].next) /\ n >= 2
  <2>1. Working(p)
    BY <1>4 DEF RecordIntake, SavePhase1, SavePhase, At, Working
  <2>2. CASE RecordIntake(p) \/ SavePhase1(p)
    <3>1. \/ RecordIntake(p) /\ Saves(p, 0, work[p].task)
          \/ SavePhase1(p) /\ Saves(p, 1, work[p].task)
      BY <2>2 DEF RecordIntake, SavePhase1
    <3> QED BY <2>1, <3>1
  <2>3. CASE SavePhase(p)
    <3>1. PhaseWritten(work[p].next) \in 2..6
      BY <2>3, ClaimAndWork, PhasesWritten DEF SavePhase
    <3>2. Saves(p, PhaseWritten(work[p].next), work[p].task)
      BY <2>3 DEF SavePhase
    <3> QED BY <2>1, <2>3, <3>1, <3>2
  <2> QED BY <1>4, <2>2, <2>3
<1>5. ASSUME NEW p \in Workers, CrashWriting(p)
      PROVE  \/ evidence'[i] = evidence[i] /\ reached'[i] = reached[i]
             \/ /\ CrashWriting(p) /\ i = current[p].item /\ reached'[i] = reached[i]
                /\ evidence'[i] = [evidence[i] EXCEPT !.file = "torn"]
  BY <1>5 DEF CrashWriting, DeliveryTypeOK
<1>6. \/ \E p \in Workers : \/ RecordIntake(p) \/ SavePhase1(p) \/ SavePhase(p)
                            \/ CrashWriting(p)
      \/ UNCHANGED <<evidence, reached>>
  BY DEF DeliveryNext, ClaimAt, Start, StartThrows, CreateIntake, Fails, LoadPhase1, EndPhase1,
     LoadPhases, SkipMerge, EndPhases, Complete, ReleaseAt, StopsAt, TimePasses, deliveryVars,
     allVars
<1> QED BY <1>1, <1>2, <1>3, <1>4, <1>5, <1>6

LEMMA ReachedGrows ==
  ASSUME BaseInv, ReachedInv, [DeliveryNext]_allVars, NEW i \in Items
  PROVE  /\ reached[i] \in 0..6 /\ reached'[i] \in Nat /\ reached'[i] >= reached[i]
         /\ evidence'[i].phase <= reached'[i]
<1>1. reached[i] \in 0..6 /\ evidence[i] \in Evidence /\ evidence[i].phase <= reached[i]
  BY DEF BaseInv, DeliveryTypeOK, ReachedInv
<1>2. [evidence[i] EXCEPT !.file = "torn"].phase = evidence[i].phase
  BY <1>1 DEF Evidence
<1>3. \A n, t : Saved(n, t).phase = n
  BY DEF Saved
<1>4. ASSUME NEW n \in 0..6, NEW t, evidence'[i] = Saved(n, t),
             reached'[i] = IF n > reached[i] THEN n ELSE reached[i]
      PROVE  reached'[i] \in Nat /\ reached'[i] >= reached[i] /\ evidence'[i].phase <= reached'[i]
  BY <1>1, <1>3, <1>4
<1>5. ASSUME reached'[i] = reached[i],
             evidence'[i] = evidence[i] \/ evidence'[i] = [evidence[i] EXCEPT !.file = "torn"]
      PROVE  reached'[i] \in Nat /\ reached'[i] >= reached[i] /\ evidence'[i].phase <= reached'[i]
  <2>1. evidence'[i].phase = evidence[i].phase
    BY <1>2, <1>5, Zenon
  <2>2. evidence[i].phase \in Nat
    BY <1>1 DEF Evidence
  <2> QED BY <1>1, <2>1, <2>2, <1>5
<1>6. \/ /\ reached'[i] = reached[i]
         /\ evidence'[i] = evidence[i] \/ evidence'[i] = [evidence[i] EXCEPT !.file = "torn"]
      \/ \E n \in 0..6, t \in Tasks \cup {None} :
           /\ evidence'[i] = Saved(n, t)
           /\ reached'[i] = IF n > reached[i] THEN n ELSE reached[i]
  BY FileSteps
<1> QED BY <1>1, <1>4, <1>5, <1>6

LEMMA RowReachedStep ==
  ASSUME BaseInv, BaseInv', ReachedInv, [DeliveryNext]_allVars, NEW i \in Items
  PROVE  RowReached(row'[i], reached'[i])
<1>1. /\ row \in [Items -> Row] /\ row[i] \in Row /\ now \in Nat
      /\ RowReached(row[i], reached[i]) /\ TypeOK /\ FenceInv /\ ClaimInv /\ RowInv
  BY DEF BaseInv, DeliveryTypeOK, TypeOK, ReachedInv, FenceInv
<1>2. reached[i] \in Nat /\ reached'[i] \in Nat /\ reached'[i] >= reached[i]
  BY ReachedGrows
<1>3. \A s : PhaseOf(s) \in Nat
  BY PhaseOfStage
<1>4. ASSUME NEW r, RowReached(r, reached[i])
      PROVE  RowReached(r, reached'[i])
  BY <1>2, <1>3, <1>4 DEF RowReached
<1> SUFFICES RowReached(row'[i], reached[i])
  BY <1>4
<1>5. CASE row'[i] = row[i]
  BY <1>1, <1>5
<1>6. CASE Submit(i)
  <2>1. row'[i].stage = "queued"
    BY <1>1, <1>6, QueuedRowType DEF Submit
  <2> QED BY <1>2, <2>1, PhaseOfStage DEF RowReached
<1>7. CASE Requeue(i)
  <2>1. /\ row[i].stage = "dead_letter" /\ row'[i] = Requeued(row[i])
        /\ row[i].failedStage \in Recoverable /\ "dead_letter" \notin Recoverable
    BY <1>1, <1>7 DEF Requeue, RowInv, Row, Recoverable
  <2>2. row'[i].stage = row[i].failedStage
    BY <1>1, <2>1, RequeuedFields
  <2> QED BY <1>1, <2>1, <2>2 DEF RowReached
<1>8. ASSUME NEW p \in Workers, NEW S \in SUBSET Items, ClaimBatch(p, S)
      PROVE  RowReached(row'[i], reached[i])
  <2>1. CASE i \in S
    <3>1. row[i].stage \in Recoverable /\ row'[i] = Locked(row[i], p)
      BY <1>1, <1>8, <2>1, ClaimedRow DEF ClaimBatch, ClaimSet
    <3>2. row'[i].stage = row[i].stage /\ row'[i].failedStage = row[i].failedStage
      BY <1>1, <3>1, LockedFields
    <3> QED BY <1>1, <3>2 DEF RowReached
  <2>2. CASE i \notin S /\ LockExpired(row[i])
    <3>1. row'[i] = Recovered(row[i])
      BY <1>8, <2>2 DEF ClaimBatch, AfterRecovery
    <3>2. \/ row'[i].stage = "dead_letter" /\ row'[i].failedStage = row[i].stage
          \/ row'[i].stage = row[i].stage /\ row'[i].failedStage = row[i].failedStage
      BY <1>1, <3>1, RecoveredFields
    <3> QED BY <1>1, <1>2, <3>2, PhaseOfStage DEF RowReached
  <2>3. CASE i \notin S /\ ~LockExpired(row[i])
    BY <1>5, <1>8, <2>3 DEF ClaimBatch, AfterRecovery
  <2> QED BY <2>1, <2>2, <2>3
<1>9. ASSUME NEW p \in Workers, Release(p), current[p].item = i
      PROVE  RowReached(row'[i], reached[i])
  <2> DEFINE c == current[p]
             o == outcome[p]
  <2>1. /\ c \in Claim /\ c \in Held(p) /\ o \in Outcome /\ o \in AdvanceOutcomes(c)
        /\ c.stage \in Recoverable /\ "dead_letter" \notin Recoverable
    BY <1>1, <1>9, NoneAssumption DEF Release, Held, Claim, TypeOK, FenceInv, TickInv, Recoverable
  <2>2. row'[i] = Released(row[i], c, o) /\ row'[i].stage \in RowStages
    BY <1>1, <1>9 DEF Release
  <2>3. \/ row'[i].stage = "dead_letter" /\ row'[i].failedStage = c.stage
        \/ row'[i].stage = c.stage
        \/ ~o.error /\ row'[i].stage = o.stage /\ o.stage # "dead_letter"
    BY <1>1, <2>1, <2>2, ReleasedFields, OutcomeStage
  <2>4. /\ reached[i] >= PhaseOf(c.stage)
        /\ ~o.error => reached[i] >= PhaseOf(o.stage)
    BY <1>9, <2>1 DEF ReachedInv, Release
  <2> HIDE DEF c, o
  <2> QED BY <1>2, <2>1, <2>3, <2>4, PhaseOfStage DEF RowReached
<1>10. ASSUME NEW p \in Workers, Release(p), current[p].item # i
       PROVE  row'[i] = row[i]
  BY <1>1, <1>10 DEF Release
<1>11. ASSUME NEW j \in Items, j # i, Submit(j) \/ Requeue(j)
       PROVE  row'[i] = row[i]
  BY <1>1, <1>11 DEF Submit, Requeue
<1>12. CASE \/ \E p \in Workers : \/ \E c \in pending[p] : BeginAdvance(p, c)
                                  \/ \E o \in Outcome : EndAdvance(p, o)
                                  \/ ReleaseThrows(p) \/ Crash(p)
            \/ Tick \/ UNCHANGED vars
  BY <1>5, <1>12 DEF BeginAdvance, EndAdvance, ReleaseThrows, Crash, Tick, vars
<1> QED BY <1>5, <1>6, <1>7, <1>8, <1>9, <1>10, <1>11, <1>12, BaseStep DEF Next

LEMMA ClaimReachedStep ==
  ASSUME BaseInv, BaseInv', ReachedInv, [DeliveryNext]_allVars, NEW p \in Workers, NEW c \in Held(p)'
  PROVE  reached'[c.item] >= PhaseOf(c.stage)
<1>1. \A i \in Items : reached[i] \in Nat /\ reached'[i] \in Nat /\ reached'[i] >= reached[i]
  BY ReachedGrows
<1>2. PhaseOf(c.stage) \in Nat
  BY PhaseOfStage
<1>3. CASE c \in Held(p)
  <2>1. c.item \in Items
    BY <1>3, HeldType DEF BaseInv, DeliveryTypeOK, Claim
  <2> QED BY <1>1, <1>2, <1>3, <2>1 DEF ReachedInv
<1>4. ASSUME NEW S \in SUBSET Items, ClaimBatch(p, S)
      PROVE  reached'[c.item] >= PhaseOf(c.stage)
  <2>1. PICK i \in S : c = ClaimOf(i, AfterRecovery[i], epoch[i] + 1)
    BY <1>4 DEF ClaimBatch, Held, BaseInv, DeliveryTypeOK, TypeOK
  <2>2. c.item = i /\ c.stage = AfterRecovery[i].stage
    BY <2>1 DEF ClaimOf
  <2>3. AfterRecovery[i] = row[i]
    BY <1>4, ClaimedRow DEF ClaimBatch, ClaimSet, BaseInv, DeliveryTypeOK
  <2>4. reached[i] >= PhaseOf(row[i].stage)
    BY DEF ReachedInv, RowReached
  <2> QED BY <1>1, <1>2, <2>2, <2>3, <2>4
<1>5. (\E S \in SUBSET Items : ClaimBatch(p, S)) \/ Held(p)' \subseteq Held(p)
  BY NoneAssumption, BaseStep DEF Next, vars, Submit, Requeue, ClaimBatch, BeginAdvance, EndAdvance,
     Release, ReleaseThrows, Crash, Tick, Held, BaseInv, DeliveryTypeOK, TypeOK
<1> QED BY <1>3, <1>4, <1>5

\* What the step an advance is at says was reached.
LEMMA StepReachedStep ==
  ASSUME BaseInv, BaseInv', ReachedInv, [DeliveryNext]_allVars, NEW q \in Workers, Working(q)'
  PROVE  StepReached(work'[q].at, reached'[current'[q].item])
<1> USE DEF BaseInv
<1>1. \A i \in Items : /\ reached[i] \in Nat /\ reached'[i] \in Nat /\ reached'[i] >= reached[i]
                        /\ evidence[i].phase <= reached[i]
  BY ReachedGrows DEF ReachedInv
<1>2. ASSUME NEW s, NEW i \in Items, StepReached(s, reached[i])
      PROVE  StepReached(s, reached'[i])
  BY <1>1, <1>2 DEF StepReached
<1>3. ASSUME Working(q), current'[q] = current[q], work'[q] = work[q]
      PROVE  StepReached(work'[q].at, reached'[current'[q].item])
  <2>1. StepReached(work[q].at, reached[current[q].item]) /\ current[q].item \in Items
    BY <1>3, ClaimAndWork DEF ReachedInv, Working
  <2> QED BY <1>2, <1>3, <2>1
<1>4. CASE Outside
  BY <1>3, <1>4, OutsideLeavesWorkers DEF Working
<1>5. ASSUME NEW p \in Workers, p # q,
             \/ AdvanceStep(p) \/ Begins(p) \/ LetsGo(p) \/ ReleaseAt(p)
             \/ \E S \in SUBSET Items : ClaimAt(p, S)
      PROVE  StepReached(work'[q].at, reached'[current'[q].item])
  <2>1. current'[q] = current[q] /\ outcome'[q] = outcome[q] /\ work'[q] = work[q]
    BY <1>5, Bystander
  <2> QED BY <1>3, <2>1 DEF Working
<1>6. CASE Begins(q)
  <2>1. PICK c \in pending[q] : Start(q, c)
    BY <1>6 DEF Begins
  <2> DEFINE s == resolveDeliveryStage(c, evidence[c.item])
  <2>2. current'[q] = c /\ c \in Claim /\ c.item \in Items /\ evidence[c.item] \in Evidence
        /\ c \in Held(q)
    BY <2>1, ClaimAndWork DEF Start, BeginAdvance, DeliveryTypeOK, TypeOK, Held
  <2>3. work'[q].at = s
    BY <2>1 DEF Start, DeliveryTypeOK
  <2>4. reached[c.item] >= PhaseOf(c.stage) /\ evidence[c.item].phase <= reached[c.item]
        /\ evidence[c.item].phase \in 0..6
    BY <1>1, <2>2 DEF ReachedInv, Evidence
  <2>5. s \in Recoverable
    BY <2>2, ResolvedStage
  <2>6. /\ s = "phase6_complete" => c.stage = "phase6_complete" \/ evidence[c.item].phase = 6
        /\ s = "phase1_complete" => c.stage = "phase1_complete" \/ evidence[c.item].phase >= 1
    BY <2>2, ResolvedStage
  <2> HIDE DEF s
  <2>7. StepReached(s, reached[c.item])
    BY <1>1, <2>2, <2>4, <2>5, <2>6, PhaseOfStage DEF StepReached, Recoverable
  <2> QED BY <1>2, <2>2, <2>3, <2>7
<1>7. CASE LetsGo(q) \/ ReleaseAt(q)
  BY <1>7 DEF LetsGo, StartThrows, CrashWriting, StopsAt, ReleaseThrows, Crash, ReleaseAt,
     Release, DeliveryTypeOK, TypeOK, Working
<1>8. CASE \E S \in SUBSET Items : ClaimAt(q, S)
  BY <1>3, <1>8 DEF ClaimAt, ClaimBatch, Working
<1>9. CASE AdvanceStep(q)
  <2>1. Continues(q) /\ Working(q) /\ current'[q] = current[q]
    <3>1. \A u \in Outcome : ~EndAdvance(q, u)
      BY NoneAssumption DEF EndAdvance, DeliveryTypeOK, TypeOK, Working
    <3>2. Continues(q) /\ UNCHANGED vars
      BY <1>9, <3>1, AdvanceMaps
    <3> QED BY <3>2 DEF vars, Working
  <2>2. StepReached(work[q].at, reached[current[q].item]) /\ current[q].item \in Items
    BY <2>1, ClaimAndWork DEF ReachedInv, Working
  <2>3. CASE (\E t \in Tasks : CreateIntake(q, t)) \/ (LoadPhase1(q) /\ File(q).phase # 1) \/ SavePhase1(q)
    <3>1. work'[q].at \in {"created", "phase1", "phase1_saved"}
      BY <2>3, ClaimAndWork DEF CreateIntake, LoadPhase1, SavePhase1, At, DeliveryTypeOK, Work
    <3> QED BY <3>1 DEF StepReached
  <2>4. CASE LoadPhases(q) \/ SavePhase(q) \/ SkipMerge(q)
    <3>1. work'[q].at = "phases" /\ work[q].at \in {"phase1_complete", "phases"}
      BY <2>4, ClaimAndWork DEF LoadPhases, SavePhase, SkipMerge, At, DeliveryTypeOK, Work
    <3>2. StepReached("phases", reached[current[q].item])
      BY <2>2, <3>1 DEF StepReached
    <3> QED BY <1>2, <2>1, <2>2, <3>1, <3>2
  <2> QED BY <2>1, <2>3, <2>4 DEF Continues
<1> QED BY <1>4, <1>5, <1>6, <1>7, <1>8, <1>9, WhoSteps

\* What the outcome of an advance says was reached.
LEMMA OutcomeReachedStep ==
  ASSUME BaseInv, BaseInv', ReachedInv, [DeliveryNext]_allVars, NEW q \in Workers,
         outcome'[q] # None, ~outcome'[q].error
  PROVE  reached'[current'[q].item] >= PhaseOf(outcome'[q].stage)
<1> USE DEF BaseInv
<1>1. \A i \in Items : /\ reached[i] \in Nat /\ reached'[i] \in Nat /\ reached'[i] >= reached[i]
                        /\ evidence[i].phase <= reached[i]
  BY ReachedGrows DEF ReachedInv
<1>2. \A s : PhaseOf(s) \in Nat
  BY PhaseOfStage
<1>3. ASSUME current'[q] = current[q], outcome'[q] = outcome[q]
      PROVE  reached'[current'[q].item] >= PhaseOf(outcome'[q].stage)
  <2>1. current[q] # None /\ current[q].item \in Items
    BY <1>3, ClaimAndWork DEF DeliveryTypeOK, TypeOK
  <2>2. reached[current[q].item] >= PhaseOf(outcome[q].stage)
    BY <1>3 DEF ReachedInv
  <2> QED BY <1>1, <1>2, <1>3, <2>1, <2>2
<1>4. CASE Outside
  BY <1>3, <1>4, OutsideLeavesWorkers
<1>5. ASSUME NEW p \in Workers, p # q,
             \/ AdvanceStep(p) \/ Begins(p) \/ LetsGo(p) \/ ReleaseAt(p)
             \/ \E S \in SUBSET Items : ClaimAt(p, S)
      PROVE  reached'[current'[q].item] >= PhaseOf(outcome'[q].stage)
  BY <1>3, <1>5, Bystander
<1>6. CASE Begins(q)
  <2>1. outcome' = outcome /\ current[q] = None
    BY <1>6 DEF Begins, Start, BeginAdvance
  <2> QED BY <2>1 DEF DeliveryTypeOK, TypeOK
<1>7. CASE LetsGo(q) \/ ReleaseAt(q)
  <2>1. outcome'[q] = None
    BY <1>7 DEF LetsGo, StartThrows, CrashWriting, StopsAt, ReleaseThrows, Crash, ReleaseAt,
       Release, DeliveryTypeOK, TypeOK
  <2> QED BY <2>1
<1>8. CASE \E S \in SUBSET Items : ClaimAt(q, S)
  BY <1>3, <1>8 DEF ClaimAt, ClaimBatch
<1>9. CASE AdvanceStep(q)
  <2>1. CASE UNCHANGED vars
    BY <1>3, <2>1 DEF vars
  <2>2. CASE ~UNCHANGED vars
    <3>1. PICK u \in Outcome : EndAdvance(q, u)
      BY <1>9, <2>2, AdvanceMaps
    <3>2. /\ outcome[q] = None /\ current'[q] = current[q] /\ current[q] # None
          /\ current[q].item \in Items /\ outcome'[q] = u
      BY <3>1, ClaimAndWork DEF EndAdvance, DeliveryTypeOK, TypeOK
    <3>3. StepReached(work[q].at, reached[current[q].item])
      BY <3>2 DEF ReachedInv, Working
    <3>4. evidence[current[q].item] \in Evidence
      BY <3>2 DEF DeliveryTypeOK
    <3> DEFINE n == reached[current[q].item]
    <3>5. n \in Nat /\ File(q).phase <= n /\ File(q).phase \in 0..6
      BY <1>1, <3>2, <3>4 DEF File, Evidence
    <3> SUFFICES n >= PhaseOf(u.stage)
      BY <1>1, <1>2, <3>2
    <3>6. CASE Fails(q)
      <4>1. outcome'[q] = [error |-> TRUE, stage |-> "failed", task |-> current[q].task]
        BY <3>6 DEF Fails, Returns, DeliveryTypeOK, TypeOK
      <4> QED BY <3>2, <4>1
    <3>7. ASSUME NEW s, NEW t, Returns(q, Success(s, t)), n >= PhaseOf(s)
          PROVE  n >= PhaseOf(u.stage)
      <4>1. u = Success(s, t)
        BY <3>2, <3>7 DEF Returns, DeliveryTypeOK, TypeOK
      <4>2. u.stage = s
        BY <4>1 DEF Success
      <4> QED BY <3>7, <4>2
    <3>8. CASE RecordIntake(q)
      BY <3>5, <3>7, <3>8, PhaseOfStage DEF RecordIntake
    <3>9. CASE LoadPhase1(q) \/ EndPhase1(q)
      <4>1. \/ File(q).phase = 1 /\ Returns(q, Success("phase1_complete", current[q].task))
            \/ Returns(q, Success("failed", current[q].task))
            \/ UNCHANGED vars
        BY <3>9 DEF LoadPhase1, EndPhase1
      <4> QED BY <2>2, <3>5, <3>7, <4>1, PhaseOfStage
    <3>10. CASE EndPhases(q)
      <4>1. \/ File(q).phase = 6 /\ Returns(q, Success("phase6_complete", current[q].task))
            \/ Returns(q, Success("phase1_complete", current[q].task))
        BY <3>10 DEF EndPhases
      <4>2. n >= 1
        BY <3>3, <3>10 DEF StepReached, EndPhases, At
      <4> QED BY <3>5, <3>7, <4>1, <4>2, PhaseOfStage
    <3>11. CASE Complete(q)
      <4>1. n >= 6
        BY <3>3, <3>11 DEF StepReached, Complete, At
      <4> QED BY <3>5, <3>7, <3>11, <4>1, PhaseOfStage DEF Complete
    <3>12. CASE Continues(q) /\ ~LoadPhase1(q)
      BY <2>2, <3>12 DEF Continues, CreateIntake, SavePhase1, LoadPhases, SavePhase, SkipMerge
    <3> QED BY <1>9, <3>6, <3>8, <3>9, <3>10, <3>11, <3>12 DEF AdvanceStep, Continues
  <2> QED BY <2>1, <2>2
<1> QED BY <1>4, <1>5, <1>6, <1>7, <1>8, <1>9, WhoSteps

\* Even when processes outlive their leases and overwrite each other's files,
\* a row never records a stage whose phase was not once saved for the item.
THEOREM StagesWereReached == DeliverySpec => []StageWasReached
<1>1. DeliveryInit => ReachedInv
  <2> SUFFICES ASSUME DeliveryInit PROVE ReachedInv
    OBVIOUS
  <2>1. \A i \in Items : row[i].stage = "absent" /\ evidence[i].phase = 0 /\ reached[i] = 0
    BY DEF DeliveryInit, Init, AbsentRow
  <2>2. \A p \in Workers : Held(p) = {} /\ current[p] = None /\ outcome[p] = None
    BY DEF DeliveryInit, Init, Held
  <2> QED BY <2>1, <2>2, PhaseOfStage DEF ReachedInv, RowReached, Working
<1>2. BaseInv /\ BaseInv' /\ ReachedInv /\ [DeliveryNext]_allVars => ReachedInv'
  BY ReachedGrows, RowReachedStep, ClaimReachedStep, StepReachedStep, OutcomeReachedStep
     DEF ReachedInv
<1>3. ReachedInv => StageWasReached
  BY DEF ReachedInv, RowReached, StageWasReached
<1> QED BY <1>1, <1>2, <1>3, BaseHolds, PTL DEF DeliverySpec

-----------------------------------------------------------------------------
(* In time: one item per tick, and no advance longer than a lease.         *)

InTime == IsFiniteSet(Items) /\ BatchSize = 1 /\ WorkLimit < LeaseSeconds

OneClaim == \A p \in Workers : \A c, d \in Held(p) : c = d

WithinLease == \A p \in Workers : \A c \in Held(p) : now <= c.lockedAt + spent[p]

TimeInv == OneClaim /\ WithinLease

LEMMA HeldSteps ==
  ASSUME BaseInv, [DeliveryNext]_allVars, NEW p \in Workers
  PROVE  \/ \E S \in SUBSET Items : ClaimAt(p, S)
         \/ ReleaseAt(p)
         \/ TimePasses /\ Held(p)' = Held(p)
         \/ Held(p)' \subseteq Held(p) /\ spent'[p] = spent[p] /\ now' = now
<1> USE DEF BaseInv, DeliveryTypeOK, TypeOK
<1>1. CASE Outside
  <2>1. Held(p)' = Held(p)
    BY <1>1, OutsideLeavesWorkers
  <2> QED BY <1>1, <2>1 DEF Outside, Submit, Requeue, deliveryVars, allVars, vars
<1>2. ASSUME NEW q \in Workers, q # p,
             \/ AdvanceStep(q) \/ Begins(q) \/ LetsGo(q) \/ ReleaseAt(q)
             \/ \E S \in SUBSET Items : ClaimAt(q, S)
      PROVE  Held(p)' \subseteq Held(p) /\ spent'[p] = spent[p] /\ now' = now
  <2>1. Held(p)' = Held(p) /\ spent'[p] = spent[p]
    BY <1>2, Bystander
  <2>2. now' = now
    BY <1>2 DEF AdvanceStep, CreateIntake, Fails, RecordIntake, LoadPhase1, SavePhase1,
       EndPhase1, LoadPhases, SavePhase, SkipMerge, EndPhases, Complete, Returns, vars,
       Begins, Start, BeginAdvance, LetsGo, StartThrows, CrashWriting, StopsAt, ReleaseThrows,
       Crash, ReleaseAt, Release, ClaimAt, ClaimBatch
  <2> QED BY <2>1, <2>2
<1>3. CASE AdvanceStep(p)
  BY <1>3 DEF AdvanceStep, CreateIntake, Fails, RecordIntake, LoadPhase1, SavePhase1,
     EndPhase1, LoadPhases, SavePhase, SkipMerge, EndPhases, Complete, Returns, vars, Held
<1>4. CASE Begins(p)
  <2>1. PICK c \in pending[p] : Start(p, c)
    BY <1>4 DEF Begins
  <2>2. /\ pending'[p] = pending[p] \ {c} /\ current'[p] = c /\ now' = now /\ spent' = spent
    BY <2>1 DEF Start, BeginAdvance
  <2> QED BY <2>1, <2>2 DEF Held
<1>5. CASE LetsGo(p)
  BY <1>5 DEF LetsGo, StartThrows, CrashWriting, StopsAt, ReleaseThrows, Crash, Held, deliveryVars
<1> QED BY <1>1, <1>2, <1>3, <1>4, <1>5, WhoSteps

LEMMA ClaimsOne ==
  ASSUME InTime, NEW t, NEW S, ClaimSet(t, S)
  PROVE  S = {} \/ \E i : S = {i}
<1> DEFINE open == {i \in Items : Claimable(t[i])}
<1>1. S \subseteq open /\ IsFiniteSet(open)
  <2>1. open \subseteq Items
    OBVIOUS
  <2> QED BY <2>1, FS_Subset DEF InTime, ClaimSet
<1>2. IsFiniteSet(S) /\ Cardinality(open) \in Nat
  BY <1>1, FS_Subset, FS_CardinalityType
<1>3. Cardinality(S) = IF Cardinality(open) < 1 THEN Cardinality(open) ELSE 1
  BY DEF InTime, ClaimSet
<1>4. Cardinality(S) = 0 \/ Cardinality(S) = 1
  <2> HIDE DEF open
  <2> QED BY <1>2, <1>3
<1> QED BY <1>2, <1>4, FS_EmptySet, FS_Singleton

LEMMA TimeStep ==
  ASSUME InTime, BaseInv, BaseInv', TimeInv, [DeliveryNext]_allVars
  PROVE  TimeInv'
<1> USE DEF TimeInv, OneClaim, WithinLease
<1> SUFFICES ASSUME NEW p \in Workers
             PROVE  /\ \A c, d \in Held(p)' : c = d
                    /\ \A c \in Held(p)' : now' <= c.lockedAt + spent'[p]
  OBVIOUS
<1>0. /\ now \in Nat /\ spent[p] \in Nat
      /\ \A c \in Held(p) : c.lockedAt \in Nat
  BY HeldType DEF BaseInv, DeliveryTypeOK, TypeOK, Claim
<1>1. ASSUME NEW S \in SUBSET Items, ClaimAt(p, S)
      PROVE  /\ \A c, d \in Held(p)' : c = d
             /\ \A c \in Held(p)' : now' <= c.lockedAt + spent'[p]
  <2>1. Held(p)' = {ClaimOf(i, AfterRecovery[i], epoch[i] + 1) : i \in S}
    BY <1>1 DEF ClaimAt, ClaimBatch, Held, BaseInv, DeliveryTypeOK, TypeOK
  <2>2. S = {} \/ \E i : S = {i}
    BY <1>1, ClaimsOne DEF ClaimAt, ClaimBatch
  <2>3. \A c \in Held(p)' : c.lockedAt = now
    BY <2>1 DEF ClaimOf
  <2>4. now' = now /\ spent'[p] = 0
    BY <1>1 DEF ClaimAt, ClaimBatch, BaseInv, DeliveryTypeOK
  <2>5. \A c, d \in Held(p)' : c = d
    BY <2>1, <2>2
  <2> QED BY <1>0, <2>3, <2>4, <2>5
<1>2. CASE ReleaseAt(p)
  <2>1. /\ current[p] \in Held(p) /\ Held(p)' = Held(p) \ {current[p]}
    BY <1>2, NoneAssumption DEF ReleaseAt, Release, Held, BaseInv, DeliveryTypeOK, TypeOK, FenceInv, TickInv
  <2>2. Held(p)' = {}
    BY <2>1
  <2> QED BY <2>2
<1>3. CASE TimePasses /\ Held(p)' = Held(p)
  <2>1. CASE Held(p) = {}
    BY <1>3, <2>1
  <2>2. CASE Held(p) # {}
    <3>1. now' = now + 1 /\ spent'[p] = spent[p] + 1
      BY <1>3, <2>2 DEF TimePasses, Tick
    <3> QED BY <1>0, <1>3, <3>1
  <2> QED BY <2>1, <2>2
<1>4. CASE Held(p)' \subseteq Held(p) /\ spent'[p] = spent[p] /\ now' = now
  BY <1>4
<1> QED BY <1>1, <1>2, <1>3, <1>4, HeldSteps

\* In time every claim in memory is its row's lock, under a live lease.
LEMMA HeldIsLock ==
  ASSUME InTime, BaseInv, TimeInv, NEW p \in Workers, NEW c \in Held(p)
  PROVE  CurrentClaim(p, c) /\ CanRelease(p, c) /\ c \in Claim /\ c.item \in Items
<1>1. c \in Claim /\ c.item \in Items /\ c.lockedAt \in Nat
  BY HeldType DEF BaseInv, DeliveryTypeOK, Claim
<1>2. /\ now \in Nat /\ spent[p] \in 0..WorkLimit /\ LeaseSeconds \in Nat /\ WorkLimit \in Nat
      /\ now <= c.lockedAt + spent[p] /\ WorkLimit < LeaseSeconds
  BY QueueAssumption, WorkAssumption DEF BaseInv, DeliveryTypeOK, TypeOK, TimeInv, WithinLease, InTime
<1>3. now < c.lockedAt + LeaseSeconds
  BY <1>1, <1>2
<1>4. ~StaleClaim(c)
  BY <1>1, <1>2, <1>3 DEF StaleClaim
<1>5. CurrentClaim(p, c)
  BY <1>4 DEF BaseInv, FenceInv, ClaimInv
<1>6. IdOf[p] # None
  BY QueueAssumption
<1>7. row[c.item].leaseUntil > now
  <2>1. row[c.item].leaseUntil = c.lockedAt + LeaseSeconds
    BY <1>1, <1>5, <1>6 DEF BaseInv, FenceInv, RowInv, CurrentClaim
  <2> QED BY <1>1, <1>2, <1>3, <2>1
<1> QED BY <1>1, <1>5, <1>7 DEF CurrentClaim, CanRelease

LEMMA AloneInTime ==
  ASSUME InTime, BaseInv, TimeInv, NEW p \in Workers, NEW q \in Workers,
         NEW c \in Held(p), NEW d \in Held(q), c.item = d.item
  PROVE  p = q
BY HeldIsLock DEF CurrentClaim, BaseInv, FenceInv, ClaimInv

\* In time a process has at most one claim, and its age is bounded by the time
\* spent on it.
THEOREM TimeHolds ==
  ASSUME InTime
  PROVE  DeliverySpec => []TimeInv
<1>1. DeliveryInit => TimeInv
  BY DEF DeliveryInit, Init, Held, TimeInv, OneClaim, WithinLease
<1>2. BaseInv /\ BaseInv' /\ TimeInv /\ [DeliveryNext]_allVars => TimeInv'
  BY TimeStep
<1> QED BY <1>1, <1>2, BaseHolds, PTL DEF DeliverySpec

\* A process that is still working on an item still owns it, if orchestrators
\* claim one item at a time and no advance is longer than a lease.
THEOREM WorkEndsBeforeLease ==
  ASSUME InTime
  PROVE  DeliverySpec => []LeaseOutlivesWork
<1>1. BaseInv /\ TimeInv => LeaseOutlivesWork
  BY HeldIsLock DEF LeaseOutlivesWork, Held
<1> QED BY <1>1, BaseHolds, TimeHolds, PTL

-----------------------------------------------------------------------------
(* In time, what a step does to a row.                                     *)

LEMMA TaskKept ==
  ASSUME NEW r \in Row
  PROVE  /\ Recovered(r).task = r.task
         /\ \A p : Locked(r, p).task = r.task
         /\ Requeued(r).task = r.task
<1>1. Unlocked(r).task = r.task /\ "task" \in DOMAIN Unlocked(r)
  BY SMT DEF Unlocked, Row
<1>2. \A p : Locked(r, p).task = r.task
  BY SMT DEF Locked, Row
<1>3. Recovered(r).task = Unlocked(r).task
  BY <1>1, Zenon DEF Recovered
<1>4. Requeued(r).task = Unlocked(r).task
  BY <1>1, Zenon DEF Requeued
<1> QED BY <1>1, <1>2, <1>3, <1>4

LEMMA ReleasedTask ==
  ASSUME NEW r \in Row, NEW c, NEW o
  PROVE  Released(r, c, o).task = IF o.task = None THEN r.task ELSE o.task
<1> DEFINE failures == IF o.error THEN c.attempts + 1 ELSE 0
           dead == o.error /\ failures >= ReleaseMax
           stage == IF dead THEN "dead_letter" ELSE IF o.error THEN c.stage ELSE o.stage
           due == IF o.error /\ ~dead THEN now + RetryDelay(failures) ELSE now
           from == IF dead THEN c.stage ELSE r.failedStage
           task == IF o.task = None THEN r.task ELSE o.task
<1>1. Unlocked(r).task = r.task /\ Unlocked(r).failedStage = r.failedStage
  BY SMT DEF Unlocked, Row
<1>2. Released(r, c, o) = [ Unlocked(r) EXCEPT
          !.stage = stage, !.attempts = failures, !.availableAt = due,
          !.task = task, !.failedStage = from ]
  BY <1>1 DEF Released
<1> HIDE DEF failures, dead, stage, due, from, task
<1>3. Released(r, c, o).task = task
  BY <1>2, SMT DEF Unlocked, Row
<1> QED BY <1>3 DEF task

\* A row keeps its task and its place, or is submitted, or is released.
LEMMA RowSteps ==
  ASSUME BaseInv, [Next]_vars, NEW i \in Items
  PROVE  \/ row'[i] = row[i]
         \/ row[i].stage = "absent" /\ row'[i].stage = "queued" /\ row'[i].task = None
         \/ /\ row'[i].task = row[i].task /\ row'[i].stage # "absent"
            /\ \/ /\ row[i].stage = "dead_letter" /\ row'[i].stage = row[i].failedStage
                  /\ row[i].failedStage \in Recoverable
               \/ row[i].stage \in Recoverable /\ row'[i].stage = row[i].stage
               \/ /\ row[i].stage \in Recoverable
                  /\ row'[i].stage = "dead_letter" /\ row'[i].failedStage = row[i].stage
         \/ \E p \in Workers :
              /\ Release(p) /\ current[p] # None /\ current[p].item = i
              /\ row'[i].task = IF outcome[p].task = None THEN row[i].task ELSE outcome[p].task
              /\ row'[i].stage \in RowStages
              /\ row[i].stage \in Recoverable /\ row[i].stage = current[p].stage
              /\ \/ row'[i].stage = "dead_letter" /\ row'[i].failedStage = row[i].stage
                 \/ row'[i].stage = row[i].stage
                 \/ ~outcome[p].error /\ row'[i].stage = outcome[p].stage
                    /\ row'[i].stage # "dead_letter"
<1>1. /\ row \in [Items -> Row] /\ row[i] \in Row /\ now \in Nat
      /\ TypeOK /\ FenceInv /\ ClaimInv /\ RowInv
      /\ "absent" \notin Recoverable /\ "dead_letter" \notin Recoverable
  BY DEF BaseInv, DeliveryTypeOK, TypeOK, FenceInv, Recoverable
<1>2. CASE Submit(i)
  <2>1. [AbsentRow EXCEPT !.stage = "queued", !.availableAt = now].task = None
    BY Zenon DEF AbsentRow
  <2> QED BY <1>1, <1>2, <2>1, QueuedRowType DEF Submit
<1>3. CASE Requeue(i)
  <2>1. /\ row[i].stage = "dead_letter" /\ row'[i] = Requeued(row[i])
        /\ row[i].failedStage \in Recoverable
    BY <1>1, <1>3 DEF Requeue, RowInv, Row
  <2>2. row'[i].stage = row[i].failedStage
    BY <1>1, <2>1, RequeuedFields
  <2>3. row'[i].task = row[i].task
    BY <1>1, <2>1, TaskKept
  <2> QED BY <1>1, <2>1, <2>2, <2>3
<1>4. ASSUME NEW p \in Workers, NEW S \in SUBSET Items, ClaimBatch(p, S), row'[i] # row[i]
      PROVE  /\ row'[i].task = row[i].task /\ row'[i].stage # "absent"
             /\ \/ row[i].stage \in Recoverable /\ row'[i].stage = row[i].stage
                \/ /\ row[i].stage \in Recoverable
                   /\ row'[i].stage = "dead_letter" /\ row'[i].failedStage = row[i].stage
  <2>1. CASE i \in S
    <3>1. row[i].stage \in Recoverable /\ row'[i] = Locked(row[i], p)
      BY <1>1, <1>4, <2>1, ClaimedRow DEF ClaimBatch, ClaimSet
    <3> QED BY <1>1, <3>1, LockedFields, TaskKept
  <2>2. CASE i \notin S
    <3>1. row'[i] = Recovered(row[i]) /\ LockExpired(row[i])
      BY <1>4, <2>2 DEF ClaimBatch, AfterRecovery
    <3>2. row[i].stage \in Recoverable
      BY <1>1, <3>1 DEF LockExpired, RowInv
    <3>3. \/ row'[i].stage = "dead_letter" /\ row'[i].failedStage = row[i].stage
          \/ row'[i].stage = row[i].stage
      BY <1>1, <3>1, RecoveredFields
    <3> QED BY <1>1, <3>1, <3>2, <3>3, TaskKept
  <2> QED BY <2>1, <2>2
<1>5. ASSUME NEW p \in Workers, Release(p), current[p].item = i
      PROVE  /\ Release(p) /\ current[p] # None /\ current[p].item = i
             /\ row'[i].task = IF outcome[p].task = None THEN row[i].task ELSE outcome[p].task
             /\ row'[i].stage \in RowStages
             /\ row[i].stage \in Recoverable /\ row[i].stage = current[p].stage
             /\ \/ row'[i].stage = "dead_letter" /\ row'[i].failedStage = row[i].stage
                \/ row'[i].stage = row[i].stage
                \/ ~outcome[p].error /\ row'[i].stage = outcome[p].stage
                   /\ row'[i].stage # "dead_letter"
  <2> DEFINE c == current[p]
             o == outcome[p]
  <2>1. /\ c \in Claim /\ c # None /\ c \in Held(p) /\ o \in Outcome /\ o \in AdvanceOutcomes(c)
        /\ c.stage \in Recoverable /\ CanRelease(p, c)
    BY <1>1, <1>5, NoneAssumption DEF Release, Held, Claim, TypeOK, FenceInv, TickInv
  <2>2. row'[i] = Released(row[i], c, o) /\ row'[i].stage \in RowStages
    BY <1>1, <1>5 DEF Release
  <2>3. \/ row'[i].stage = "dead_letter" /\ row'[i].failedStage = c.stage
        \/ row'[i].stage = c.stage
        \/ ~o.error /\ row'[i].stage = o.stage /\ o.stage # "dead_letter"
    BY <1>1, <2>1, <2>2, ReleasedFields, OutcomeStage
  <2>4. row[i].stage = c.stage
    BY <1>1, <1>5, <2>1, FenceMeansCurrent DEF CurrentClaim
  <2>5. row'[i].task = IF o.task = None THEN row[i].task ELSE o.task
    BY <1>1, <2>2, ReleasedTask
  <2> QED BY <1>5, <2>1, <2>2, <2>3, <2>4, <2>5
<1>6. ASSUME NEW p \in Workers, Release(p), current[p].item # i
      PROVE  row'[i] = row[i]
  BY <1>1, <1>6 DEF Release
<1>7. ASSUME NEW j \in Items, j # i, Submit(j) \/ Requeue(j)
      PROVE  row'[i] = row[i]
  BY <1>1, <1>7 DEF Submit, Requeue
<1>8. CASE \/ \E p \in Workers : \/ \E c \in pending[p] : BeginAdvance(p, c)
                                 \/ \E o \in Outcome : EndAdvance(p, o)
                                 \/ ReleaseThrows(p) \/ Crash(p)
           \/ Tick \/ UNCHANGED vars
  BY <1>8 DEF BeginAdvance, EndAdvance, ReleaseThrows, Crash, Tick, vars
<1> QED BY <1>2, <1>3, <1>4, <1>5, <1>6, <1>7, <1>8 DEF Next

-----------------------------------------------------------------------------
(* In time, the file and the row belong together: the file backs the stage *)
(* and names the task of the row, of the claim and of the outcome.         *)

Backed(e, s) ==
  s \in {"intake_complete", "phase1_complete", "phase6_complete", "completed"} =>
    e.file = "saved" /\ e.phase >= PhaseOf(s)

RowBacked(r, e) ==
  /\ e.file # "torn" => /\ Backed(e, r.stage)
                        /\ r.stage = "dead_letter" => Backed(e, r.failedStage)
  /\ e.file # "absent" => r.stage # "absent"
  /\ r.stage = "absent" => r.task = None
  /\ r.task # None /\ e.file = "saved" => e.task = r.task

StepBacked(c, w, e) ==
  /\ w.at \in {"phase1_complete", "phases"} => e.file = "saved" /\ e.phase >= 1
  /\ w.at = "phase6_complete" => e.file = "saved" /\ e.phase >= 6
  /\ w.at \in {"phase1", "phases"} /\ c.task # None => w.task = c.task

OutcomeBacked(o, e) ==
  /\ ~o.error => Backed(e, o.stage)
  /\ o.task # None /\ e.file = "saved" => e.task = o.task

HeldTasks == \A p \in Workers : \A c \in Held(p) : c.task = row[c.item].task

AdvanceBacked(p) ==
  current[p] # None =>
    /\ File(p).file # "torn"
    /\ Working(p) => StepBacked(current[p], work[p], File(p))
    /\ outcome[p] # None => OutcomeBacked(outcome[p], File(p))

FileInv ==
  /\ \A i \in Items : RowBacked(row[i], evidence[i])
  /\ HeldTasks
  /\ \A p \in Workers : AdvanceBacked(p)

Known == InTime /\ BaseInv /\ TimeInv /\ FileInv

\* What a claim under a live lease says of its row.
LEMMA ClaimedRowInTime ==
  ASSUME Known, NEW p \in Workers, current[p] # None
  PROVE  /\ current[p] \in Held(p) /\ current[p].item \in Items
         /\ row[current[p].item].stage = current[p].stage
         /\ row[current[p].item].task = current[p].task
         /\ current[p].stage \in Recoverable
         /\ File(p) \in Evidence
<1>1. current[p] \in Held(p)
  BY DEF Held
<1>2. CurrentClaim(p, current[p]) /\ current[p] \in Claim /\ current[p].item \in Items
  BY <1>1, HeldIsLock DEF Known
<1>3. current[p].task = row[current[p].item].task
  BY <1>1 DEF Known, FileInv, HeldTasks
<1> QED BY <1>1, <1>2, <1>3 DEF CurrentClaim, Claim, Known, BaseInv, DeliveryTypeOK, File

\* Nobody else writes to the file a process works on.
LEMMA FileOfOthers ==
  ASSUME Known, NEW p \in Workers, NEW q \in Workers, q # p, current[q] # None,
         \/ AdvanceStep(p) \/ Begins(p) \/ LetsGo(p) \/ ReleaseAt(p)
         \/ \E S \in SUBSET Items : ClaimAt(p, S)
  PROVE  evidence'[current[q].item] = evidence[current[q].item]
<1>1. current[q].item \in Items
  BY ClaimedRowInTime
<1>2. current[p] # None => current[p].item # current[q].item
  <2>1. current[p] # None => current[p] \in Held(p) /\ current[q] \in Held(q)
    BY DEF Held
  <2> QED BY <2>1, AloneInTime DEF Known
<1>3. CASE current[p] = None
  BY <1>3 DEF AdvanceStep, CreateIntake, Fails, RecordIntake, LoadPhase1, SavePhase1,
     EndPhase1, LoadPhases, SavePhase, SkipMerge, EndPhases, Complete, At,
     Begins, Start, LetsGo, StartThrows, deliveryVars, CrashWriting, StopsAt, ReleaseAt, ClaimAt
<1>4. CASE UNCHANGED evidence
  BY <1>4
<1>5. ASSUME NEW n, NEW t, Saves(p, n, t), current[p] # None
      PROVE  evidence'[current[q].item] = evidence[current[q].item]
  BY <1>1, <1>2, <1>5 DEF Saves, Known, BaseInv, DeliveryTypeOK
<1>6. CASE CrashWriting(p)
  BY <1>1, <1>2, <1>3, <1>6 DEF CrashWriting, Known, BaseInv, DeliveryTypeOK
<1> QED BY <1>3, <1>4, <1>5, <1>6 DEF AdvanceStep, CreateIntake, Fails, RecordIntake, LoadPhase1,
     SavePhase1, EndPhase1, LoadPhases, SavePhase, SkipMerge, EndPhases, Complete, 
     Begins, Start, LetsGo, StartThrows, deliveryVars, StopsAt, ReleaseAt, ClaimAt

LEMMA RowBackedStep ==
  ASSUME Known, [DeliveryNext]_allVars, NEW i \in Items
  PROVE  RowBacked(row'[i], evidence'[i])
<1> DEFINE e == evidence[i]
           r == row[i]
<1>1. [Next]_vars /\ RowBacked(r, e) /\ e \in Evidence /\ r \in Row
  BY BaseStep DEF Known, FileInv, BaseInv, DeliveryTypeOK, TypeOK
<1>2. CASE evidence'[i] = e
  <2>1. CASE row'[i] = r
    BY <1>1, <1>2, <2>1
  <2>2. CASE r.stage = "absent" /\ row'[i].stage = "queued" /\ row'[i].task = None
    BY <1>1, <1>2, <2>2 DEF RowBacked, Backed, Evidence
  <2>3. CASE /\ row'[i].task = r.task /\ row'[i].stage # "absent"
             /\ \/ r.stage = "dead_letter" /\ row'[i].stage = r.failedStage
                   /\ r.failedStage \in Recoverable
                \/ r.stage \in Recoverable /\ row'[i].stage = r.stage
                \/ /\ r.stage \in Recoverable
                   /\ row'[i].stage = "dead_letter" /\ row'[i].failedStage = r.stage
    <3>1. \A s \in Recoverable : s # "dead_letter"
      BY DEF Recoverable
    <3>2. Backed(e, "dead_letter")
      BY DEF Backed
    <3> HIDE DEF e, r
    <3> QED BY <1>1, <1>2, <2>3, <3>1, <3>2 DEF RowBacked
  <2>4. ASSUME NEW p \in Workers, Release(p), current[p] # None, current[p].item = i,
               row'[i].task = IF outcome[p].task = None THEN r.task ELSE outcome[p].task,
               row'[i].stage \in RowStages, r.stage \in Recoverable,
               \/ row'[i].stage = "dead_letter" /\ row'[i].failedStage = r.stage
               \/ row'[i].stage = r.stage
               \/ ~outcome[p].error /\ row'[i].stage = outcome[p].stage
                  /\ row'[i].stage # "dead_letter"
        PROVE  RowBacked(row'[i], evidence'[i])
    <3>1. OutcomeBacked(outcome[p], e)
      BY <2>4 DEF Known, FileInv, AdvanceBacked, File, Release
    <3>2. "absent" \notin RowStages /\ "dead_letter" \notin Recoverable /\ Backed(e, "dead_letter")
      BY DEF RowStages, Recoverable, Terminal, Backed
    <3> HIDE DEF e, r
    <3> QED BY <1>1, <1>2, <2>4, <3>1, <3>2 DEF RowBacked, OutcomeBacked
  <2> QED BY <1>1, <2>1, <2>2, <2>3, <2>4, RowSteps DEF Known
<1>3. ASSUME NEW p \in Workers, CrashWriting(p), i = current[p].item,
             evidence'[i] = [e EXCEPT !.file = "torn"]
      PROVE  RowBacked(row'[i], evidence'[i])
  <2>1. row' = row /\ current[p] # None
    BY <1>3 DEF CrashWriting, Crash, At
  <2>2. r.stage # "absent"
    BY <1>3, <2>1, ClaimedRowInTime DEF Recoverable
  <2>3. evidence'[i].file = "torn"
    BY <1>1, <1>3 DEF Evidence
  <2> QED BY <2>1, <2>2, <2>3 DEF RowBacked
<1>4. ASSUME NEW p \in Workers, NEW n \in 0..6, Working(p), i = current[p].item,
             \/ RecordIntake(p) /\ n = 0
             \/ SavePhase1(p) /\ n = 1
             \/ SavePhase(p) /\ n >= 2,
             evidence'[i] = Saved(n, work[p].task)
      PROVE  RowBacked(row'[i], evidence'[i])
  <2>1. row' = row /\ current[p] # None
    BY <1>4 DEF RecordIntake, SavePhase1, SavePhase, Returns, vars, Working
  <2>2. r.stage = current[p].stage /\ r.task = current[p].task /\ r.stage \in Recoverable
    BY <1>4, <2>1, ClaimedRowInTime
  <2>3. /\ evidence'[i].file = "saved" /\ evidence'[i].phase = n
        /\ evidence'[i].task = work[p].task
    BY <1>4 DEF Saved
  <2>4. StageFits(current[p], work[p]) /\ StepBacked(current[p], work[p], File(p))
    BY <1>4, <2>1 DEF Known, BaseInv, WorkInv, FileInv, AdvanceBacked
  <2>5. \/ n = 0 /\ work[p].at = "created"
        \/ n = 1 /\ work[p].at = "phase1"
        \/ n >= 2 /\ work[p].at = "phases"
    BY <1>4 DEF RecordIntake, SavePhase1, SavePhase, At
  <2>6. n >= PhaseOf(r.stage)
    <3>1. CASE n = 0
      BY <2>2, <2>4, <2>5, <3>1, PhaseOfStage DEF StageFits
    <3>2. CASE n = 1
      BY <2>2, <2>4, <2>5, <3>2, PhaseOfStage DEF StageFits
    <3>3. CASE n >= 2
      BY <2>2, <2>4, <2>5, <3>3, PhaseOfStage DEF StageFits, Recoverable
    <3> QED BY <2>5, <3>1, <3>2, <3>3
  <2>7. r.task # None => work[p].task = r.task
    BY <2>2, <2>4, <2>5 DEF StageFits, StepBacked
  <2>8. r.stage # "absent" /\ r.stage # "dead_letter"
    BY <2>2 DEF Recoverable
  <2> HIDE DEF e, r
  <2>9. row'[i] = r
    BY <2>1 DEF r
  <2> QED BY <2>3, <2>6, <2>7, <2>8, <2>9 DEF RowBacked, Backed
<1>5. \/ evidence'[i] = e
      \/ \E p \in Workers : CrashWriting(p) /\ i = current[p].item
                            /\ evidence'[i] = [e EXCEPT !.file = "torn"]
      \/ \E p \in Workers, n \in 0..6 :
              /\ Working(p) /\ i = current[p].item
              /\ \/ RecordIntake(p) /\ n = 0
                 \/ SavePhase1(p) /\ n = 1
                 \/ SavePhase(p) /\ n >= 2
              /\ evidence'[i] = Saved(n, work[p].task)
  BY FileSteps DEF Known
<1> QED BY <1>2, <1>3, <1>4, <1>5

LEMMA HeldTasksStep ==
  ASSUME Known, [DeliveryNext]_allVars
  PROVE  HeldTasks'
<1> SUFFICES ASSUME NEW p \in Workers, NEW c \in Held(p)' PROVE c.task = row'[c.item].task
  BY DEF HeldTasks
<1>1. [Next]_vars /\ row \in [Items -> Row] /\ now \in Nat
  BY BaseStep DEF Known, BaseInv, DeliveryTypeOK, TypeOK
<1>2. ASSUME NEW S \in SUBSET Items, ClaimAt(p, S)
      PROVE  c.task = row'[c.item].task
  <2>1. PICK i \in S : c = ClaimOf(i, AfterRecovery[i], epoch[i] + 1)
    BY <1>2 DEF ClaimAt, ClaimBatch, Held, Known, BaseInv, DeliveryTypeOK, TypeOK
  <2>2. c.item = i /\ c.task = AfterRecovery[i].task
    BY <2>1 DEF ClaimOf
  <2>3. AfterRecovery[i] = row[i]
    BY <1>2, ClaimedRow DEF ClaimAt, ClaimBatch, ClaimSet, Known, BaseInv, DeliveryTypeOK
  <2>4. row'[i] = Locked(row[i], p)
    BY <1>2, <2>3 DEF ClaimAt, ClaimBatch
  <2> QED BY <1>1, <2>2, <2>3, <2>4, TaskKept
<1>3. CASE ReleaseAt(p)
  <2>1. current[p] \in Held(p) /\ Held(p)' = Held(p) \ {current[p]}
    BY <1>3, NoneAssumption DEF ReleaseAt, Release, Held, Known, BaseInv, DeliveryTypeOK, TypeOK,
       FenceInv, TickInv
  <2>2. Held(p)' = {}
    BY <2>1 DEF Known, TimeInv, OneClaim
  <2> QED BY <2>2
<1>4. CASE c \in Held(p) /\ ~ReleaseAt(p)
  <2> DEFINE i == c.item
  <2>1. i \in Items /\ CurrentClaim(p, c) /\ c \in Claim
    BY <1>4, HeldIsLock DEF Known
  <2>2. row[i].stage \in Recoverable /\ row[i].stage # "absent"
    BY <2>1 DEF CurrentClaim, Claim, Recoverable
  <2>3. c.task = row[i].task
    BY <1>4 DEF Known, FileInv, HeldTasks
  <2>4. ASSUME NEW q \in Workers, Release(q), current[q] # None, current[q].item = i
        PROVE  FALSE
    <3>1. q = p
      BY <1>4, <2>4, AloneInTime DEF Known, Held
    <3>2. current[p] \in Held(p) /\ Held(p)' = Held(p) \ {current[p]}
      BY <2>4, <3>1, NoneAssumption DEF Release, Held, Known, BaseInv, DeliveryTypeOK, TypeOK,
         FenceInv, TickInv
    <3> QED BY <3>2 DEF Known, TimeInv, OneClaim
  <2>5. row'[i].task = row[i].task
    BY <1>1, <2>1, <2>2, <2>4, RowSteps DEF Known
  <2> QED BY <2>3, <2>5
<1>5. (\E S \in SUBSET Items : ClaimAt(p, S)) \/ ReleaseAt(p) \/ c \in Held(p)
  BY HeldSteps DEF Known
<1> QED BY <1>2, <1>3, <1>4, <1>5

\* The outcome of an advance, as the file stands when it ends.
LEMMA EndBacked ==
  ASSUME Known, NEW q \in Workers, AdvanceStep(q), NEW u \in Outcome, EndAdvance(q, u)
  PROVE  /\ evidence'[current[q].item].file # "torn"
         /\ OutcomeBacked(u, evidence'[current[q].item])
<1> DEFINE i == current[q].item
           e == evidence[i]
<1>1. /\ current[q] # None /\ outcome[q] = None /\ outcome'[q] = u /\ Working(q)
  BY DEF EndAdvance, Working, Known, BaseInv, DeliveryTypeOK, TypeOK
<1>2. /\ current[q].item \in Items /\ row[i].task = current[q].task /\ e \in Evidence
      /\ File(q) = e
  BY <1>1, ClaimedRowInTime DEF File
<1>3. /\ e.file # "torn" /\ StepBacked(current[q], work[q], e)
      /\ current[q].task # None /\ e.file = "saved" => e.task = current[q].task
  BY <1>1, <1>2 DEF Known, FileInv, AdvanceBacked, RowBacked
<1>4. ASSUME NEW s, Returns(q, Success(s, current[q].task)), evidence' = evidence, Backed(e, s)
      PROVE  evidence'[i].file # "torn" /\ OutcomeBacked(u, evidence'[i])
  <2>1. u = Success(s, current[q].task)
    BY <1>1, <1>4 DEF Returns, Known, BaseInv, DeliveryTypeOK, TypeOK
  <2>2. u.stage = s /\ u.task = current[q].task
    BY <2>1 DEF Success
  <2> QED BY <1>3, <1>4, <2>2 DEF OutcomeBacked
<1>5. CASE Fails(q)
  <2>1. u = [error |-> TRUE, stage |-> "failed", task |-> current[q].task] /\ evidence' = evidence
    BY <1>1, <1>5 DEF Fails, Returns, Known, BaseInv, DeliveryTypeOK, TypeOK
  <2>2. u.error /\ u.task = current[q].task
    BY <2>1
  <2> QED BY <1>3, <2>1, <2>2 DEF OutcomeBacked
<1>6. CASE RecordIntake(q)
  <2>1. u = Success("intake_complete", work[q].task) /\ evidence'[i] = Saved(0, work[q].task)
    BY <1>1, <1>2, <1>6 DEF RecordIntake, Returns, Saves, Known, BaseInv, DeliveryTypeOK, TypeOK
  <2>2. /\ u.stage = "intake_complete" /\ u.task = work[q].task
        /\ evidence'[i].file = "saved" /\ evidence'[i].phase = 0 /\ evidence'[i].task = work[q].task
    BY <2>1 DEF Success, Saved
  <2> QED BY <2>2, PhaseOfStage DEF OutcomeBacked, Backed
<1>7. CASE LoadPhase1(q) \/ EndPhase1(q)
  <2>1. /\ evidence' = evidence
        /\ \/ e.file = "saved" /\ e.phase = 1 /\ Returns(q, Success("phase1_complete", current[q].task))
           \/ Returns(q, Success("failed", current[q].task))
           \/ UNCHANGED vars
    BY <1>2, <1>7 DEF LoadPhase1, EndPhase1
  <2>2. /\ Backed(e, "failed")
        /\ e.file = "saved" /\ e.phase = 1 => Backed(e, "phase1_complete")
    BY PhaseOfStage DEF Backed
  <2>3. ~UNCHANGED vars
    BY <1>1, NoneAssumption DEF vars
  <2> QED BY <1>4, <2>1, <2>2, <2>3
<1>8. CASE EndPhases(q)
  <2>1. /\ evidence' = evidence /\ work[q].at = "phases"
        /\ \/ e.file = "saved" /\ e.phase = 6 /\ Returns(q, Success("phase6_complete", current[q].task))
           \/ Returns(q, Success("phase1_complete", current[q].task))
    BY <1>2, <1>8 DEF EndPhases, At
  <2>2. /\ Backed(e, "phase1_complete")
        /\ e.file = "saved" /\ e.phase = 6 => Backed(e, "phase6_complete")
    BY <1>3, <2>1, PhaseOfStage DEF Backed, StepBacked
  <2> QED BY <1>4, <2>1, <2>2
<1>9. CASE Complete(q)
  <2>1. evidence' = evidence /\ work[q].at = "phase6_complete"
        /\ Returns(q, Success("completed", current[q].task))
    BY <1>9 DEF Complete, At
  <2>2. Backed(e, "completed")
    BY <1>3, <2>1, PhaseOfStage DEF Backed, StepBacked
  <2> QED BY <1>4, <2>1, <2>2
<1>10. CASE Continues(q) /\ ~LoadPhase1(q)
  <2>1. UNCHANGED vars
    BY <1>10 DEF Continues, CreateIntake, SavePhase1, LoadPhases, SavePhase, SkipMerge
  <2> QED BY <1>1, <2>1, NoneAssumption DEF vars
<1> QED BY <1>5, <1>6, <1>7, <1>8, <1>9, <1>10 DEF AdvanceStep, Continues

LEMMA ContinueBacked ==
  ASSUME Known, NEW q \in Workers, Continues(q), Working(q)
  PROVE  /\ evidence'[current[q].item].file # "torn"
         /\ StepBacked(current[q], work'[q], evidence'[current[q].item])
<1> DEFINE i == current[q].item
           e == evidence[i]
           c == current[q]
<1>1. /\ c # None /\ i \in Items /\ row[i].task = c.task /\ e \in Evidence /\ File(q) = e
  BY ClaimedRowInTime DEF File, Working
<1>2. /\ e.file # "torn" /\ StepBacked(c, work[q], e)
      /\ c.task # None /\ e.file = "saved" => e.task = c.task
  BY <1>1 DEF Known, FileInv, AdvanceBacked, RowBacked
<1>3. work[q] \in Work /\ work \in [Workers -> Work] /\ evidence \in [Items -> Evidence]
  BY DEF Known, BaseInv, DeliveryTypeOK
<1>4. CASE \E t \in Tasks : CreateIntake(q, t)
  <2>1. evidence' = evidence /\ work'[q].at = "created"
    BY <1>3, <1>4 DEF CreateIntake, Work
  <2> QED BY <1>2, <2>1 DEF StepBacked
<1>5. CASE LoadPhase1(q) /\ File(q).phase # 1
  <2>1. /\ evidence' = evidence /\ work'[q].at = "phase1" /\ work'[q].task = e.task
        /\ e.file = "saved"
    BY <1>1, <1>3, <1>5 DEF LoadPhase1, Work
  <2> QED BY <1>2, <2>1 DEF StepBacked
<1>6. CASE SavePhase1(q)
  <2>1. evidence'[i] = Saved(1, work[q].task) /\ work'[q].at = "phase1_saved"
    BY <1>1, <1>3, <1>6 DEF SavePhase1, Saves, Work
  <2>2. evidence'[i].file = "saved"
    BY <2>1 DEF Saved
  <2> QED BY <2>1, <2>2 DEF StepBacked
<1>7. CASE LoadPhases(q)
  <2>1. /\ evidence' = evidence /\ work'[q].at = "phases" /\ work'[q].task = e.task
        /\ e.file = "saved" /\ work[q].at = "phase1_complete"
    BY <1>1, <1>3, <1>7 DEF LoadPhases, At, Work
  <2> QED BY <1>2, <2>1 DEF StepBacked
<1>8. CASE SavePhase(q)
  <2>1. PhaseWritten(work[q].next) \in 2..6
    BY <1>8, <1>3, PhasesWritten DEF SavePhase, Work
  <2>2. /\ evidence'[i] = Saved(PhaseWritten(work[q].next), work[q].task)
        /\ work'[q].at = "phases" /\ work'[q].task = work[q].task /\ work[q].at = "phases"
    BY <1>1, <1>3, <1>8 DEF SavePhase, Saves, At, Work
  <2>3. evidence'[i].file = "saved" /\ evidence'[i].phase >= 1
    BY <2>1, <2>2 DEF Saved
  <2> QED BY <1>2, <2>2, <2>3 DEF StepBacked
<1>9. CASE SkipMerge(q)
  <2>1. /\ evidence' = evidence /\ work'[q].at = "phases" /\ work'[q].task = work[q].task
        /\ work[q].at = "phases"
    BY <1>3, <1>9 DEF SkipMerge, At, Work
  <2> QED BY <1>2, <2>1 DEF StepBacked
<1> QED BY <1>4, <1>5, <1>6, <1>7, <1>8, <1>9 DEF Continues

LEMMA AdvanceBackedStep ==
  ASSUME Known, BaseInv', [DeliveryNext]_allVars, NEW q \in Workers
  PROVE  AdvanceBacked(q)'
<1> DEFINE e == evidence'[current'[q].item]
<1> SUFFICES ASSUME current'[q] # None
             PROVE  /\ e.file # "torn"
                    /\ Working(q)' => StepBacked(current'[q], work'[q], e)
                    /\ outcome'[q] # None => OutcomeBacked(outcome'[q], e)
  BY DEF AdvanceBacked, File
<1>1. ASSUME current'[q] = current[q], work'[q] = work[q], outcome'[q] = outcome[q],
             e = evidence[current[q].item]
      PROVE  /\ e.file # "torn"
             /\ Working(q)' => StepBacked(current'[q], work'[q], e)
             /\ outcome'[q] # None => OutcomeBacked(outcome'[q], e)
  BY <1>1 DEF Known, FileInv, AdvanceBacked, File, Working
<1>2. CASE Outside
  BY <1>1, <1>2, OutsideLeavesWorkers
<1>3. ASSUME NEW p \in Workers, p # q,
             \/ AdvanceStep(p) \/ Begins(p) \/ LetsGo(p) \/ ReleaseAt(p)
             \/ \E S \in SUBSET Items : ClaimAt(p, S)
      PROVE  /\ e.file # "torn"
             /\ Working(q)' => StepBacked(current'[q], work'[q], e)
             /\ outcome'[q] # None => OutcomeBacked(outcome'[q], e)
  <2>1. current'[q] = current[q] /\ outcome'[q] = outcome[q] /\ work'[q] = work[q]
    BY <1>3, Bystander DEF Known, BaseInv
  <2>2. e = evidence[current[q].item]
    BY <1>3, <2>1, FileOfOthers
  <2> QED BY <1>1, <2>1, <2>2
<1>4. CASE Begins(q)
  <2>1. PICK c \in pending[q] : Start(q, c)
    BY <1>4 DEF Begins
  <2> DEFINE s == resolveDeliveryStage(c, evidence[c.item])
  <2>2. /\ current'[q] = c /\ c \in Held(q) /\ evidence' = evidence /\ outcome'[q] = None
        /\ work'[q].at = s /\ e = evidence[c.item] /\ e.file # "torn"
    BY <2>1 DEF Start, BeginAdvance, Held, Known, BaseInv, DeliveryTypeOK, TypeOK
  <2>3. CurrentClaim(q, c) /\ c \in Claim /\ c.item \in Items
    BY <2>2, HeldIsLock DEF Known
  <2>4. RowBacked(row[c.item], e) /\ row[c.item].stage = c.stage /\ e \in Evidence
    BY <2>2, <2>3 DEF CurrentClaim, Known, FileInv, BaseInv, DeliveryTypeOK
  <2>5. Backed(e, c.stage)
    BY <2>2, <2>4 DEF RowBacked
  <2>6. /\ s \in Recoverable
        /\ e.file = "saved" =>
              /\ s = "phase6_complete" => c.stage = "phase6_complete" \/ e.phase = 6
              /\ s = "phase1_complete" => c.stage = "phase1_complete" \/ e.phase >= 1
        /\ e.file # "saved" /\ s \in {"phase1_complete", "phase6_complete"} => s = c.stage
    BY <2>2, <2>3, <2>4, ResolvedStage
  <2>7. e.phase \in Nat
    BY <2>4 DEF Evidence
  <2> HIDE DEF s, e
  <2>8. StepBacked(c, work'[q], e)
    BY <2>2, <2>5, <2>6, <2>7, PhaseOfStage DEF StepBacked, Backed, Recoverable
  <2> QED BY <2>2, <2>8
<1>5. CASE LetsGo(q) \/ ReleaseAt(q)
  <2>1. current'[q] = None
    BY <1>5 DEF LetsGo, StartThrows, CrashWriting, StopsAt, ReleaseThrows, Crash, ReleaseAt,
       Release, Known, BaseInv, DeliveryTypeOK, TypeOK
  <2> QED BY <2>1
<1>6. CASE \E S \in SUBSET Items : ClaimAt(q, S)
  <2>1. current'[q] = None
    BY <1>6 DEF ClaimAt, ClaimBatch, Held
  <2> QED BY <2>1
<1>7. CASE AdvanceStep(q)
  <2>1. CASE UNCHANGED vars /\ Continues(q)
    <3>1. Working(q) /\ current'[q] = current[q] /\ outcome'[q] = None
      BY <1>7, <2>1 DEF AdvanceStep, CreateIntake, Fails, RecordIntake, LoadPhase1, SavePhase1,
         EndPhase1, LoadPhases, SavePhase, SkipMerge, EndPhases, Complete, At, vars, Working
    <3> QED BY <2>1, <3>1, ContinueBacked
  <2>2. ASSUME NEW u \in Outcome, EndAdvance(q, u)
        PROVE  /\ e.file # "torn"
               /\ Working(q)' => StepBacked(current'[q], work'[q], e)
               /\ outcome'[q] # None => OutcomeBacked(outcome'[q], e)
    <3>1. current'[q] = current[q] /\ outcome'[q] = u /\ ~Working(q)'
      BY <2>2, NoneAssumption DEF EndAdvance, Working, Known, BaseInv, DeliveryTypeOK, TypeOK
    <3> QED BY <1>7, <2>2, <3>1, EndBacked
  <2> QED BY <1>7, <2>1, <2>2, AdvanceMaps DEF Known
<1> QED BY <1>2, <1>3, <1>4, <1>5, <1>6, <1>7, WhoSteps

LEMMA FileStep ==
  ASSUME Known, BaseInv', [DeliveryNext]_allVars
  PROVE  FileInv'
<1>1. \A i \in Items : RowBacked(row'[i], evidence'[i])
  BY RowBackedStep
<1>2. HeldTasks' /\ \A q \in Workers : AdvanceBacked(q)'
  BY HeldTasksStep, AdvanceBackedStep
<1> QED BY <1>1, <1>2 DEF FileInv

\* In time the evidence file, the row and the advance at work agree.
THEOREM FileHolds ==
  ASSUME InTime
  PROVE  DeliverySpec => []Known
<1>1. DeliveryInit => FileInv
  <2> SUFFICES ASSUME DeliveryInit PROVE FileInv
    OBVIOUS
  <2>1. \A i \in Items : /\ row[i].stage = "absent" /\ row[i].task = None
                          /\ evidence[i].file = "absent"
    BY DEF DeliveryInit, Init, AbsentRow
  <2>2. \A p \in Workers : Held(p) = {} /\ current[p] = None
    BY DEF DeliveryInit, Init, Held
  <2> QED BY <2>1, <2>2 DEF FileInv, RowBacked, Backed, HeldTasks, AdvanceBacked
<1>2. BaseInv /\ BaseInv' /\ TimeInv /\ FileInv /\ [DeliveryNext]_allVars => FileInv'
  BY FileStep DEF Known
<1>3. BaseInv /\ TimeInv /\ FileInv => Known
  BY DEF Known
<1> QED BY <1>1, <1>2, <1>3, BaseHolds, TimeHolds, PTL DEF DeliverySpec

\* The stage a row records is one its readable evidence file still proves.
THEOREM EvidenceBacks ==
  ASSUME InTime
  PROVE  DeliverySpec => []EvidenceBacksRow
<1>1. Known => EvidenceBacksRow
  <2> SUFFICES ASSUME Known, NEW i \in Items,
                      row[i].stage \in {"intake_complete", "phase1_complete", "phase6_complete", "completed"}
               PROVE  \/ evidence[i].file = "torn"
                      \/ evidence[i].file = "saved" /\ evidence[i].phase >= PhaseOf(row[i].stage)
    BY DEF EvidenceBacksRow
  <2> QED BY DEF Known, FileInv, RowBacked, Backed
<1> QED BY <1>1, FileHolds, PTL

\* The row and the file name the same task.
THEOREM TasksAgree ==
  ASSUME InTime
  PROVE  DeliverySpec => []TaskAgrees
<1>1. Known => TaskAgrees
  BY DEF Known, FileInv, RowBacked, TaskAgrees
<1> QED BY <1>1, FileHolds, PTL

\* Once a row records its task, no second one is created and the row keeps it.
THEOREM IntakeHappensOnce ==
  ASSUME InTime
  PROVE  DeliverySpec => IntakeOnce
<1>1. ASSUME Known, [DeliveryNext]_allVars, NEW i \in Items, row[i].task # None
      PROVE  created'[i] = created[i] /\ row'[i].task = row[i].task
  <2>1. ASSUME NEW p \in Workers, NEW t \in Tasks, CreateIntake(p, t)
        PROVE  created'[i] = created[i]
    <3>1. Working(p) /\ work[p].at = "queued" /\ current[p] # None
      BY <2>1 DEF CreateIntake, At, Working
    <3>2. current[p].task = None
      BY <3>1, <1>1 DEF Known, BaseInv, WorkInv, StageFits
    <3>3. current[p].item # i
      BY <1>1, <3>1, <3>2, ClaimedRowInTime
    <3> QED BY <2>1, <3>3 DEF CreateIntake
  <2>2. (\E p \in Workers, t \in Tasks : CreateIntake(p, t)) \/ created' = created
    BY <1>1 DEF DeliveryNext, ClaimAt, Start, StartThrows, Fails, RecordIntake, LoadPhase1,
       SavePhase1, EndPhase1, LoadPhases, SavePhase, SkipMerge, EndPhases, Complete, Returns,
       CrashWriting, ReleaseAt, StopsAt, TimePasses, deliveryVars, allVars
  <2>3. created'[i] = created[i]
    BY <2>1, <2>2
  <2>4. ASSUME NEW p \in Workers, Release(p), current[p] # None, current[p].item = i
        PROVE  outcome[p].task \in {None, row[i].task}
    <3>1. row[i].task = current[p].task
      BY <1>1, <2>4, ClaimedRowInTime
    <3>2. outcome[p] \in AdvanceOutcomes(current[p])
      BY <2>4, <1>1 DEF Release, Known, BaseInv, FenceInv, TickInv
    <3>3. outcome[p].task = current[p].task
      BY <1>1, <3>1, <3>2 DEF AdvanceOutcomes
    <3> QED BY <3>1, <3>3
  <2>5. [Next]_vars /\ BaseInv
    BY <1>1, BaseStep DEF Known
  <2>6. row[i].stage # "absent"
    BY <1>1 DEF Known, FileInv, RowBacked
  <2>7. row'[i].task = row[i].task
    BY <2>4, <2>5, <2>6, RowSteps
  <2> QED BY <2>3, <2>7
<1>2. Known /\ [DeliveryNext]_allVars
        => [\A i \in Items : row[i].task # None =>
              created'[i] = created[i] /\ row'[i].task = row[i].task]_allVars
  BY <1>1
<1> QED BY <1>2, FileHolds, PTL DEF DeliverySpec, IntakeOnce

\* Nothing is built on a torn file.
THEOREM TornFileStops ==
  ASSUME InTime
  PROVE  DeliverySpec => TornFileStopsItem
<1>1. ASSUME Known, [DeliveryNext]_allVars, NEW i \in Items, evidence[i].file = "torn"
      PROVE  evidence'[i] = evidence[i] /\ Position(row'[i]) = Position(row[i])
  <2>1. ASSUME NEW p \in Workers, current[p] # None
        PROVE  current[p].item # i
    BY <1>1, <2>1 DEF Known, FileInv, AdvanceBacked, File
  <2>2. evidence'[i] = evidence[i]
    <3>1. ASSUME NEW p \in Workers, CrashWriting(p)
          PROVE  current[p].item # i
      BY <2>1, <3>1 DEF CrashWriting, At
    <3>2. \A p \in Workers : Working(p) => current[p].item # i
      BY <2>1 DEF Working
    <3> QED BY <1>1, <3>1, <3>2, FileSteps DEF Known
  <2>3. row[i].stage # "absent"
    BY <1>1 DEF Known, FileInv, RowBacked
  <2>4. \/ row'[i] = row[i]
        \/ \/ /\ row[i].stage = "dead_letter" /\ row'[i].stage = row[i].failedStage
              /\ row[i].failedStage \in Recoverable
           \/ row[i].stage \in Recoverable /\ row'[i].stage = row[i].stage
           \/ /\ row[i].stage \in Recoverable
              /\ row'[i].stage = "dead_letter" /\ row'[i].failedStage = row[i].stage
    <3>1. [Next]_vars /\ BaseInv
      BY <1>1, BaseStep DEF Known
    <3> QED BY <2>1, <2>3, <3>1, RowSteps
  <2>5. "dead_letter" \notin Recoverable
    BY DEF Recoverable
  <2> QED BY <2>2, <2>4, <2>5 DEF Position
<1>2. Known /\ [DeliveryNext]_allVars
        => [\A i \in Items : evidence[i].file = "torn" =>
              /\ evidence'[i] = evidence[i]
              /\ Position(row'[i]) = Position(row[i])]_allVars
  BY <1>1
<1> QED BY <1>2, FileHolds, PTL DEF DeliverySpec, TornFileStopsItem

=============================================================================
