----------------------- MODULE FactoryQueueRefinement -----------------------
(***************************************************************************)
(* The queue implements its contract (LeaseContract), step by step and for *)
(* every value of the constants: the clock, the leases and the claims in   *)
(* memory that have gone stale disappear; what is left is a worker's hands *)
(* and counted failures.                                                   *)
(***************************************************************************)
EXTENDS FactoryQueueProofs

-----------------------------------------------------------------------------
(* What the mapping needs beside the fence: a row that was never submitted *)
(* has failed no attempt.                                                  *)

AbsentInv == \A i \in Items : row[i].stage = "absent" => row[i].attempts = 0

MapInv == TypeOK /\ FenceInv /\ AbsentInv

LEMMA StatusIs ==
  ASSUME NEW r \in Row
  PROVE  /\ r.stage = "absent" => StatusOf(r) = "absent" /\ Position(r) = 0
         /\ r.stage = "completed" => StatusOf(r) = "done" /\ Position(r) = 5
         /\ r.stage = "dead_letter" => StatusOf(r) = "dead" /\ Position(r) = Rank(r.failedStage)
         /\ r.stage \in Recoverable =>
              /\ StatusOf(r) = IF r.lockedBy = None THEN "ready" ELSE "owned"
              /\ Position(r) = Rank(r.stage)
BY DEF StatusOf, Position, Rank, Recoverable

\* A step that leaves a row's lock and epoch alone, or finds and leaves it
\* unlocked, keeps the validity of the claims on it.
LEMMA HandsMember ==
  ASSUME NEW p \in Workers, NEW i
  PROVE  i \in HandsOf(p) <=> \E c \in Held(p) : c.item = i /\ row[i].lockedBy # None /\ c.epoch = epoch[i]
BY DEF HandsOf, Valid

LEMMA HandsMemberNext ==
  ASSUME NEW p \in Workers, NEW i
  PROVE  i \in HandsOf(p)' <=>
           \E c \in Held(p)' : c.item = i /\ row'[i].lockedBy # None /\ c.epoch = epoch'[i]
BY DEF HandsOf, Valid

LEMMA SubmitMaps ==
  ASSUME MapInv, NEW i \in Items, Submit(i)
  PROVE  Contract!Submit(i)
<1>1. row \in [Items -> Row] /\ now \in Nat
  BY DEF MapInv, TypeOK
<1>2. /\ row'[i] \in Row /\ row'[i].stage = "queued" /\ row'[i].lockedBy = None
      /\ row'[i].attempts = 0
      /\ \A j \in Items \ {i} : row'[j] = row[j]
  BY <1>1, QueuedRowType DEF Submit
<1>3. /\ StatusOf(row[i]) = "absent" /\ StatusOf(row'[i]) = "ready"
      /\ Position(row'[i]) = 1
      /\ row[i].attempts = 0 /\ row[i].lockedBy = None
  <2>1. row[i].stage = "absent" /\ "absent" \notin Recoverable /\ "queued" \in Recoverable /\ Rank("queued") = 1
    BY DEF Submit, Recoverable, Rank
  <2> QED BY <1>1, <1>2, <2>1, StatusIs DEF MapInv, AbsentInv, FenceInv, RowInv
<1>4. \A p \in Workers : HandsOf(p)' = HandsOf(p)
  <2> SUFFICES ASSUME NEW p \in Workers, NEW j PROVE j \in HandsOf(p)' <=> j \in HandsOf(p)
    OBVIOUS
  <2>1. Held(p)' = Held(p) /\ epoch' = epoch
    BY DEF Submit, Held
  <2>2. \A c \in Held(p) : c.item \in Items
    BY HeldType DEF MapInv, Claim
  <2> QED BY <1>2, <1>3, <2>1, <2>2, HandsMember, HandsMemberNext
<1> QED BY <1>1, <1>2, <1>3, <1>4 DEF Contract!Submit

LEMMA RequeueMaps ==
  ASSUME MapInv, NEW i \in Items, Requeue(i)
  PROVE  Contract!Return(i)
<1>1. row \in [Items -> Row] /\ now \in Nat /\ row[i].stage = "dead_letter" /\ row[i].lockedBy = None
      /\ row[i].failedStage \in Recoverable
  BY NoneAssumption DEF MapInv, TypeOK, Requeue, FenceInv, RowInv, Row, Recoverable
<1>2. /\ row'[i] \in Row /\ row'[i].stage = row[i].failedStage /\ row'[i].lockedBy = None
      /\ row'[i].attempts = 0
      /\ \A j \in Items \ {i} : row'[j] = row[j]
  BY <1>1, RequeuedType, RequeuedFields DEF Requeue
<1>3. /\ StatusOf(row[i]) = "dead" /\ StatusOf(row'[i]) = "ready"
      /\ Position(row'[i]) = Position(row[i])
  BY <1>1, <1>2, StatusIs
<1>4. \A p \in Workers : HandsOf(p)' = HandsOf(p)
  <2> SUFFICES ASSUME NEW p \in Workers, NEW j PROVE j \in HandsOf(p)' <=> j \in HandsOf(p)
    OBVIOUS
  <2>1. Held(p)' = Held(p) /\ epoch' = epoch
    BY DEF Requeue, Held
  <2>2. \A c \in Held(p) : c.item \in Items
    BY HeldType DEF MapInv, Claim
  <2> QED BY <1>1, <1>2, <2>1, <2>2, HandsMember, HandsMemberNext
<1> QED BY <1>1, <1>2, <1>3, <1>4 DEF Contract!Return

\* A claim transaction is a round: L are the rows it recovers.
LEMMA ClaimBatchMaps ==
  ASSUME MapInv, MapInv', NEW p \in Workers, NEW S \in SUBSET Items, ClaimBatch(p, S)
  PROVE  Contract!Round(p, {i \in Items : LockExpired(row[i])}, S)
<1> DEFINE L == {i \in Items : LockExpired(row[i])}
<1>1. /\ row \in [Items -> Row] /\ now \in Nat /\ epoch \in [Items -> Nat]
      /\ row' \in [Items -> Row]
  BY DEF MapInv, TypeOK
<1>2. \A i \in S : /\ row[i].stage \in Recoverable /\ row[i].lockedBy = None /\ i \notin L
                    /\ row'[i] = Locked(row[i], p) /\ epoch'[i] = epoch[i] + 1
  BY <1>1, ClaimedRow DEF ClaimBatch, ClaimSet, MapInv
<1>3. \A i \in L : /\ row[i].stage \in Recoverable /\ row[i].lockedBy # None /\ i \notin S
                    /\ row'[i] = Recovered(row[i]) /\ epoch'[i] = epoch[i]
  BY <1>1, <1>2 DEF ClaimBatch, AfterRecovery, LockExpired, MapInv, FenceInv, RowInv
<1>4. \A i \in Items \ (L \cup S) : row'[i] = row[i] /\ epoch'[i] = epoch[i]
  BY <1>1 DEF ClaimBatch, AfterRecovery
<1>5. \A i \in S : /\ StatusOf(row[i]) = "ready" /\ StatusOf(row'[i]) = "owned"
                    /\ Position(row'[i]) = Position(row[i]) /\ row'[i].attempts = row[i].attempts
                    /\ row'[i].lockedBy # None
  <2> TAKE i \in S
  <2>1. /\ row'[i].stage = row[i].stage /\ row'[i].attempts = row[i].attempts
        /\ row'[i].lockedBy = IdOf[p] /\ IdOf[p] # None
    BY <1>1, <1>2, LockedFields, QueueAssumption
  <2> QED BY <1>1, <1>2, <2>1, StatusIs
<1>6. \A i \in L : /\ StatusOf(row[i]) = "owned" /\ row'[i].lockedBy = None
                    /\ row'[i].attempts = row[i].attempts + 1
                    /\ Position(row'[i]) = Position(row[i])
                    /\ \/ StatusOf(row'[i]) = "dead" /\ row[i].attempts + 1 >= RowMax
                       \/ StatusOf(row'[i]) = "ready" /\ row[i].attempts + 1 < RowMax
  <2> TAKE i \in L
  <2>1. /\ row'[i].lockedBy = None /\ row'[i].attempts = row[i].attempts + 1
        /\ row[i].attempts + 1 >= RowMax =>
             row'[i].stage = "dead_letter" /\ row'[i].failedStage = row[i].stage
        /\ ~(row[i].attempts + 1 >= RowMax) => row'[i].stage = row[i].stage
    BY <1>1, <1>3, RecoveredFields
  <2>2. row[i].attempts \in Nat /\ RowMax \in Nat
    BY <1>1, QueueAssumption DEF Row
  <2>3. CASE row[i].attempts + 1 >= RowMax
    BY <1>1, <1>3, <2>1, <2>3, StatusIs
  <2>4. CASE row[i].attempts + 1 < RowMax
    BY <1>1, <1>3, <2>1, <2>2, <2>4, StatusIs
  <2> QED BY <2>2, <2>3, <2>4
<1>7. HandsOf(p) = {} /\ HandsOf(p)' = S
  <2>1. Held(p) = {}
    BY DEF ClaimBatch
  <2>2. Held(p)' = {ClaimOf(i, AfterRecovery[i], epoch[i] + 1) : i \in S}
    BY <2>1 DEF ClaimBatch, Held, MapInv, TypeOK
  <2>3. HandsOf(p) = {}
    BY <2>1 DEF HandsOf
  <2>4. ASSUME NEW j PROVE j \in HandsOf(p)' <=> j \in S
    <3>1. \A c \in Held(p)' : c.item \in S /\ c.epoch = epoch'[c.item]
      BY <1>2, <2>2 DEF ClaimOf
    <3>2. ASSUME j \in S PROVE \E c \in Held(p)' : c.item = j
      <4>1. ClaimOf(j, AfterRecovery[j], epoch[j] + 1) \in Held(p)'
        BY <2>2, <3>2
      <4>2. ClaimOf(j, AfterRecovery[j], epoch[j] + 1).item = j
        BY DEF ClaimOf
      <4> QED BY <4>1, <4>2
    <3> QED BY <1>5, <3>1, <3>2, HandsMemberNext
  <2> QED BY <2>3, <2>4
<1>8. ASSUME NEW q \in Workers, q # p
      PROVE  HandsOf(q)' = HandsOf(q) \ L
  <2> SUFFICES ASSUME NEW j PROVE j \in HandsOf(q)' <=> j \in HandsOf(q) /\ j \notin L
    OBVIOUS
  <2>1. Held(q)' = Held(q)
    BY <1>8 DEF ClaimBatch, Held, MapInv, TypeOK
  <2>2. \A c \in Held(q) : c.item \in Items /\ c.epoch \in Nat /\ c.epoch <= epoch[c.item]
    BY HeldType DEF MapInv, Claim, FenceInv, ClaimInv
  <2>3. CASE j \in L
    BY <1>6, <2>3, HandsMemberNext
  <2>4. CASE j \in S
    <3>1. row[j].lockedBy = None /\ epoch'[j] = epoch[j] + 1 /\ epoch[j] \in Nat
      BY <1>1, <1>2, <2>4
    <3>2. \A c \in Held(q) : c.item = j => c.epoch # epoch'[j]
      BY <2>2, <3>1
    <3> QED BY <2>1, <3>1, <3>2, HandsMember, HandsMemberNext
  <2>5. CASE j \in Items \ (L \cup S)
    BY <1>4, <2>1, <2>5, HandsMember, HandsMemberNext
  <2>6. CASE j \notin Items
    BY <2>1, <2>2, <2>6, HandsMember, HandsMemberNext
  <2> QED BY <2>3, <2>4, <2>5, <2>6
<1>9. [q \in Workers |-> HandsOf(q)]' =
        [q \in Workers |-> IF q = p THEN S ELSE [r \in Workers |-> HandsOf(r)][q] \ L]
  BY <1>7, <1>8
<1> DEFINE after == [i \in L |-> StatusOf(row'[i])]
<1>9a. after \in [L -> {"ready", "dead"}]
  <2>1. \A i \in L : StatusOf(row'[i]) \in {"ready", "dead"}
    BY <1>6
  <2> HIDE DEF L
  <2> QED BY <2>1
<1>10. \A i \in L : \/ after[i] = "dead" /\ row[i].attempts + 1 >= RowMax
                    \/ after[i] = "ready" /\ row[i].attempts + 1 < RowMax
  <2> TAKE i \in L
  <2>1. after[i] = StatusOf(row'[i])
    OBVIOUS
  <2> HIDE DEF after
  <2> QED BY <1>6, <2>1
<1>11. \A i \in L : Contract!FailureSets(i, after[i])
  <2> TAKE i \in L
  <2>1. row[i].attempts \in Nat /\ RowMax \in Nat /\ ReleaseMax \in Nat
    BY <1>1, QueueAssumption DEF Row
  <2> QED BY <1>10, <2>1 DEF Contract!FailureSets
<1>12. [i \in Items |-> StatusOf(row[i])]' =
         [i \in Items |-> IF i \in L THEN after[i]
                          ELSE IF i \in S THEN "owned" ELSE [j \in Items |-> StatusOf(row[j])][i]]
  BY <1>4, <1>5
<1>13. [i \in Items |-> row[i].attempts]' =
         [i \in Items |-> IF i \in L THEN [j \in Items |-> row[j].attempts][i] + 1
                          ELSE [j \in Items |-> row[j].attempts][i]]
  BY <1>4, <1>5, <1>6
<1>14. [i \in Items |-> Position(row[i])]' = [i \in Items |-> Position(row[i])]
  BY <1>4, <1>5, <1>6
<1>15. /\ [q \in Workers |-> HandsOf(q)][p] = {} /\ L \cap S = {}
       /\ \A i \in L : [j \in Items |-> StatusOf(row[j])][i] = "owned"
       /\ \A i \in S : [j \in Items |-> StatusOf(row[j])][i] = "ready"
  BY <1>3, <1>5, <1>6, <1>7
<1> HIDE DEF after, L
<1> QED BY <1>9, <1>9a, <1>11, <1>12, <1>13, <1>14, <1>15 DEF Contract!Round, L

\* Held claims that change on no locked row leave every hand as it is.
LEMMA SameHands ==
  ASSUME UNCHANGED <<row, epoch>>, NEW q \in Workers, Held(q)' = Held(q)
  PROVE  HandsOf(q)' = HandsOf(q)
BY DEF HandsOf, Valid

\* Taking up a claim, ending an advance and the clock are not seen.
LEMMA QuietSteps ==
  ASSUME MapInv,
         \/ \E p \in Workers : \E c \in pending[p] : BeginAdvance(p, c)
         \/ \E p \in Workers, o \in Outcome : EndAdvance(p, o)
         \/ Tick
         \/ UNCHANGED vars
  PROVE  UNCHANGED Contract!vars
<1>1. UNCHANGED <<row, epoch>>
  BY DEF BeginAdvance, EndAdvance, Tick, vars
<1>2. ASSUME NEW q \in Workers PROVE Held(q)' = Held(q)
  <2>1. CASE \E p \in Workers : \E c \in pending[p] : BeginAdvance(p, c)
    BY <2>1, NoneAssumption DEF BeginAdvance, Held, MapInv, TypeOK
  <2>2. CASE (\E p \in Workers, o \in Outcome : EndAdvance(p, o)) \/ Tick \/ UNCHANGED vars
    BY <2>2 DEF EndAdvance, Tick, vars, Held
  <2> QED BY <2>1, <2>2
<1>3. \A q \in Workers : HandsOf(q)' = HandsOf(q)
  BY <1>1, <1>2, SameHands
<1> QED BY <1>1, <1>3 DEF Contract!vars

\* A tick that ends early drops what its process held.
LEMMA DropMaps ==
  ASSUME MapInv, NEW p \in Workers, ReleaseThrows(p) \/ Crash(p)
  PROVE  Contract!Forget(p) \/ UNCHANGED Contract!vars
<1>1. UNCHANGED <<row, epoch>>
  BY DEF ReleaseThrows, Crash
<1>2. Held(p)' = {} /\ \A q \in Workers \ {p} : Held(q)' = Held(q)
  BY DEF ReleaseThrows, Crash, Held, MapInv, TypeOK
<1>3. HandsOf(p)' = {} /\ \A q \in Workers \ {p} : HandsOf(q)' = HandsOf(q)
  BY <1>1, <1>2, SameHands DEF HandsOf
<1>4. CASE HandsOf(p) = {}
  <2>1. \A q \in Workers : HandsOf(q)' = HandsOf(q)
    BY <1>3, <1>4
  <2> QED BY <1>1, <2>1 DEF Contract!vars
<1>5. CASE HandsOf(p) # {}
  <2>1. [q \in Workers |-> HandsOf(q)]' = [[q \in Workers |-> HandsOf(q)] EXCEPT ![p] = {}]
    BY <1>3
  <2> QED BY <1>1, <1>5, <2>1 DEF Contract!Forget
<1> QED BY <1>4, <1>5

\* A committed release is the owner's report on an item in its hands.
LEMMA ReleaseMaps ==
  ASSUME MapInv, NEW p \in Workers, Release(p)
  PROVE  \E i \in Items : Contract!Fail(p, i) \/ \E n \in 1..5 : Contract!Succeed(p, i, n)
<1>0. current[p].item \in Items
  BY NoneAssumption DEF Release, Claim, MapInv, TypeOK
<1>  PICK i \in Items : i = current[p].item
  BY <1>0
<1> DEFINE c == current[p]
           o == outcome[p]
           r == Released(row[i], c, o)
<1>1. /\ c \in Claim /\ c \in Held(p) /\ o \in Outcome /\ o \in AdvanceOutcomes(c)
      /\ c.item = i /\ c.stage \in Recoverable /\ c.attempts \in Nat
      /\ row[i] \in Row /\ c \notin pending[p]
  BY NoneAssumption DEF Release, Held, Claim, MapInv, TypeOK, FenceInv, TickInv
<1>2. CurrentClaim(p, c)
  BY <1>1, FenceMeansCurrent DEF Release, MapInv, FenceInv
<1>3. /\ row[i].lockedBy = IdOf[p] /\ IdOf[p] # None /\ c.epoch = epoch[i]
      /\ row[i].stage = c.stage /\ row[i].attempts = c.attempts
  BY <1>2, QueueAssumption DEF CurrentClaim
<1>4. row' = [row EXCEPT ![i] = r] /\ r.stage \in RowStages /\ epoch' = epoch /\ now' = now
  BY DEF Release
<1>5. Held(p)' = Held(p) \ {c} /\ \A q \in Workers \ {p} : Held(q)' = Held(q)
  BY <1>1, NoneAssumption DEF Release, Held, MapInv, TypeOK
<1>6. r \in Row /\ r.lockedBy = None
  <2>1. r \in Row
    BY <1>1, <1>4, ReleasedType DEF MapInv, TypeOK
  <2> QED BY <1>1, <2>1, ReleasedFields
<1>7. row'[i] = r /\ \A j \in Items \ {i} : row'[j] = row[j]
  BY <1>1, <1>4 DEF MapInv, TypeOK
<1>8. i \in HandsOf(p)
  BY <1>1, <1>3, HandsMember
<1>9. /\ StatusOf(row[i]) = "owned" /\ Position(row[i]) = Rank(c.stage)
      /\ Rank(c.stage) \in 1..4
  BY <1>1, <1>3, StatusIs, RankOrder
<1> HIDE DEF c, r, o
<1>10. ASSUME NEW q \in Workers, q # p PROVE HandsOf(q)' = HandsOf(q)
  <2>1. Held(q)' = Held(q)
    BY <1>5, <1>10
  <2>2. \A d \in Held(q) : d.item \in Items
    BY HeldType DEF MapInv, Claim
  <2>3. \A d \in Held(q) : d.item = i => d.epoch # epoch[i]
    <3>1. c.item = i
      BY DEF c
    <3> QED BY <1>1, <1>3, <1>10, <3>1 DEF MapInv, FenceInv, ClaimInv
  <2>4. ASSUME NEW j PROVE j \in HandsOf(q)' <=> j \in HandsOf(q)
    BY <1>4, <1>6, <1>7, <2>1, <2>2, <2>3, HandsMember, HandsMemberNext
  <2> QED BY <2>4
<1>11. HandsOf(p)' = HandsOf(p) \ {i}
  <2>1. \A d \in Held(p) : d.item \in Items
    BY HeldType DEF MapInv, Claim
  <2>2. c.item = i
    BY DEF c
  <2>3. ASSUME NEW j PROVE j \in HandsOf(p)' <=> j \in HandsOf(p) /\ j # i
    <3>1. CASE j = i
      BY <1>6, <1>7, <3>1, HandsMemberNext
    <3>2. CASE j # i
      BY <1>4, <1>5, <1>7, <2>1, <2>2, <3>2, HandsMember, HandsMemberNext
    <3> QED BY <3>1, <3>2
  <2> QED BY <2>3
<1>12. [q \in Workers |-> HandsOf(q)]' =
         [[q \in Workers |-> HandsOf(q)] EXCEPT ![p] = @ \ {i}]
  BY <1>10, <1>11
<1> DEFINE Mapped(st, n, f) ==
             /\ [j \in Items |-> StatusOf(row[j])]' = [[j \in Items |-> StatusOf(row[j])] EXCEPT ![i] = st]
             /\ [j \in Items |-> Position(row[j])]' = [[j \in Items |-> Position(row[j])] EXCEPT ![i] = n]
             /\ [j \in Items |-> row[j].attempts]' = [[j \in Items |-> row[j].attempts] EXCEPT ![i] = f]
<1>13. Mapped(StatusOf(r), Position(r), r.attempts)
  BY <1>7
<1>14. ASSUME o.error
       PROVE  Contract!Fail(p, i)
  <2>1. /\ r.attempts = c.attempts + 1 /\ ReleaseMax \in Nat /\ RowMax \in Nat
        /\ c.attempts + 1 >= ReleaseMax => r.stage = "dead_letter" /\ r.failedStage = c.stage
        /\ ~(c.attempts + 1 >= ReleaseMax) => r.stage = c.stage
    BY <1>1, <1>14, ReleasedFields, QueueAssumption DEF r
  <2>2. /\ Position(r) = Position(row[i])
        /\ \/ StatusOf(r) = "dead" /\ c.attempts + 1 >= ReleaseMax
           \/ StatusOf(r) = "ready" /\ c.attempts + 1 < ReleaseMax
    <3>1. CASE c.attempts + 1 >= ReleaseMax
      BY <1>6, <1>9, <2>1, <3>1, StatusIs
    <3>2. CASE ~(c.attempts + 1 >= ReleaseMax)
      BY <1>1, <1>6, <1>9, <2>1, <3>2, StatusIs
    <3> QED BY <3>1, <3>2
  <2>3. /\ StatusOf(r) \in {"ready", "dead"}
        /\ Contract!FailureSets(i, StatusOf(r))
    BY <1>1, <1>3, <2>1, <2>2 DEF Contract!FailureSets
  <2>4. /\ [j \in Items |-> Position(row[j])]' = [j \in Items |-> Position(row[j])]
        /\ [j \in Items |-> row[j].attempts]' = [[j \in Items |-> row[j].attempts] EXCEPT ![i] = @ + 1]
    BY <1>1, <1>3, <1>13, <2>1, <2>2
  <2>5. [j \in Items |-> StatusOf(row[j])]' = [[j \in Items |-> StatusOf(row[j])] EXCEPT ![i] = StatusOf(r)]
    BY <1>13
  <2> HIDE DEF Mapped
  <2> QED BY <1>8, <1>12, <2>3, <2>4, <2>5 DEF Contract!Fail
<1>15. ASSUME ~o.error
       PROVE  \E n \in 1..5 : Contract!Succeed(p, i, n)
  <2>0. Rank(o.stage) \in 0..5
    BY DEF Rank
  <2>  PICK n \in 0..5 : n = Rank(o.stage)
    BY <2>0
  <2>1. r.stage = o.stage /\ r.attempts = 0
    BY <1>1, <1>15, ReleasedFields DEF r
  <2>2. o.stage # "failed"
    BY <1>4, <2>1 DEF RowStages, Recoverable, Terminal
  <2>3. n >= Rank(c.stage) /\ o.stage # "dead_letter"
    BY <1>1, <1>15, <2>2, NextStageNames
  <2>4. \/ o.stage \in Recoverable /\ n \in 1..4
        \/ o.stage = "completed" /\ n = 5
    <3>1. o.stage \in Recoverable \cup {"completed"}
      BY <1>4, <2>1, <2>3 DEF RowStages, Terminal
    <3> QED BY <1>1, <3>1, RankOrder
  <2>5. Position(r) = n /\ StatusOf(r) = IF n = 5 THEN "done" ELSE "ready"
    <3>1. CASE o.stage \in Recoverable /\ n \in 1..4
      BY <1>6, <2>1, <3>1, StatusIs
    <3>2. CASE o.stage = "completed" /\ n = 5
      BY <1>6, <2>1, <3>2, StatusIs
    <3> QED BY <2>4, <3>1, <3>2
  <2>6. n \in 1..5 /\ n \in Position(row[i])..5
    BY <1>9, <2>3, <2>4
  <2>7. Mapped(IF n = 5 THEN "done" ELSE "ready", n, 0)
    BY <1>13, <2>1, <2>5
  <2>8. Contract!Succeed(p, i, n)
    BY <1>1, <1>8, <1>12, <2>6, <2>7 DEF Contract!Succeed
  <2> QED BY <2>6, <2>8
<1> QED BY <1>14, <1>15

-----------------------------------------------------------------------------
LEMMA AbsentStep ==
  ASSUME TypeOK, FenceInv, AbsentInv, [Next]_vars
  PROVE  AbsentInv'
<1> SUFFICES ASSUME NEW i \in Items, row'[i] # row[i] PROVE row'[i].stage # "absent"
  BY DEF AbsentInv
<1>1. /\ row \in [Items -> Row] /\ now \in Nat /\ row[i] \in Row
      /\ "absent" \notin RowStages /\ Recoverable \subseteq RowStages
      /\ "dead_letter" \in RowStages
  BY DEF TypeOK, RowStages, Recoverable, Terminal
<1>2. CASE Submit(i)
  BY <1>1, <1>2, QueuedRowType DEF Submit
<1>3. CASE Requeue(i)
  <2>1. row'[i] = Requeued(row[i]) /\ "queued" \in Recoverable
    BY <1>1, <1>3 DEF Requeue, Recoverable
  <2> QED BY <1>1, <2>1, RequeuedFields
<1>4. ASSUME NEW p \in Workers, NEW S \in SUBSET Items, ClaimBatch(p, S)
      PROVE  row'[i].stage # "absent"
  <2>1. CASE i \in S
    <3>1. row[i].stage \in Recoverable /\ row'[i] = Locked(row[i], p)
      BY <1>1, <1>4, <2>1, ClaimedRow DEF ClaimBatch, ClaimSet
    <3> QED BY <1>1, <3>1, LockedFields
  <2>2. CASE i \notin S
    <3>1. LockExpired(row[i]) /\ row'[i] = Recovered(row[i])
      BY <1>1, <1>4, <2>2 DEF ClaimBatch, AfterRecovery
    <3>2. row[i].stage \in Recoverable
      BY <3>1 DEF LockExpired, FenceInv, RowInv
    <3> QED BY <1>1, <3>1, <3>2, RecoveredFields
  <2> QED BY <2>1, <2>2
<1>5. ASSUME NEW p \in Workers, Release(p)
      PROVE  row'[i].stage # "absent"
  BY <1>1, <1>5 DEF Release
<1>6. ASSUME NEW j \in Items, Submit(j) \/ Requeue(j)
      PROVE  j = i
  BY <1>1, <1>6 DEF Submit, Requeue
<1> QED BY <1>2, <1>3, <1>4, <1>5, <1>6 DEF Next, vars, BeginAdvance, EndAdvance,
            ReleaseThrows, Crash, Tick

LEMMA InitMaps == Init => MapInv /\ Contract!Init
<1> SUFFICES ASSUME Init PROVE MapInv /\ Contract!Init
  OBVIOUS
<1>1. \A i \in Items : row[i].stage = "absent" /\ row[i].attempts = 0 /\ row[i] \in Row
  BY AbsentRowType DEF Init, AbsentRow
<1>2. \A i \in Items : StatusOf(row[i]) = "absent" /\ Position(row[i]) = 0
  BY <1>1, StatusIs
<1>3. \A p \in Workers : HandsOf(p) = {}
  BY DEF Init, Held, HandsOf
<1> QED BY <1>1, <1>2, <1>3, InitFence DEF MapInv, AbsentInv, Contract!Init

LEMMA StepMaps ==
  ASSUME MapInv, MapInv', [Next]_vars
  PROVE  [Contract!Next]_(Contract!vars)
<1>1. ASSUME NEW i \in Items, Submit(i) \/ Requeue(i) PROVE Contract!Next
  BY <1>1, SubmitMaps, RequeueMaps DEF Contract!Next
<1>2. ASSUME NEW p \in Workers, NEW S \in SUBSET Items, ClaimBatch(p, S) PROVE Contract!Next
  <2>1. {i \in Items : LockExpired(row[i])} \in SUBSET Items
    OBVIOUS
  <2> QED BY <1>2, <2>1, ClaimBatchMaps DEF Contract!Next
<1>3. ASSUME NEW p \in Workers, Release(p) PROVE Contract!Next
  BY <1>3, ReleaseMaps DEF Contract!Next
<1>4. ASSUME NEW p \in Workers, ReleaseThrows(p) \/ Crash(p)
      PROVE  Contract!Next \/ UNCHANGED Contract!vars
  BY <1>4, DropMaps DEF Contract!Next
<1>5. CASE \/ \E p \in Workers : \E c \in pending[p] : BeginAdvance(p, c)
           \/ \E p \in Workers, o \in Outcome : EndAdvance(p, o)
           \/ Tick
           \/ UNCHANGED vars
  BY <1>5, QuietSteps
<1> QED BY <1>1, <1>2, <1>3, <1>4, <1>5 DEF Next

\* The queue implements the contract: every behaviour of the rows, the clock,
\* the leases and the processes' memory is, seen as items in workers' hands,
\* one the contract allows.
THEOREM QueueImplementsContract == Spec => ImplementsContract
<1>1. Init => MapInv /\ Contract!Init
  BY InitMaps
<1>2. MapInv /\ [Next]_vars => MapInv'
  BY TypeStep, RowStep, ClaimStep, TickStep, AbsentStep DEF MapInv, FenceInv
<1>3. MapInv /\ MapInv' /\ [Next]_vars => [Contract!Next]_(Contract!vars)
  BY StepMaps
<1> QED BY <1>1, <1>2, <1>3, PTL DEF Spec, ImplementsContract, Contract!Spec

\* What the contract promises of hands holds of the queue itself: the claim
\* that is its row's lock is in one process's memory, and the row in delivery.
THEOREM QueueKeepsOneOwner == Spec => []Contract!OneOwner
<1>1. ASSUME MapInv PROVE Contract!OneOwner
  <2> SUFFICES ASSUME NEW p \in Workers, NEW i \in HandsOf(p)
               PROVE  /\ i \in Items /\ StatusOf(row[i]) = "owned"
                      /\ \A q \in Workers \ {p} : i \notin HandsOf(q)
    BY DEF Contract!OneOwner
  <2>1. PICK c \in Held(p) : c.item = i /\ row[i].lockedBy # None /\ c.epoch = epoch[i]
    BY HandsMember
  <2>2. i \in Items /\ row[i] \in Row
    BY <1>1, <2>1, HeldType DEF MapInv, TypeOK, Claim
  <2>3. row[i].stage \in Recoverable
    BY <1>1, <2>1, <2>2 DEF MapInv, FenceInv, RowInv
  <2>4. ASSUME NEW q \in Workers \ {p} PROVE i \notin HandsOf(q)
    <3>1. SUFFICES ASSUME i \in HandsOf(q) PROVE FALSE
      OBVIOUS
    <3>2. PICK d \in Held(q) : d.item = i /\ d.epoch = epoch[i]
      BY <3>1, HandsMember
    <3> QED BY <1>1, <2>1, <3>2 DEF MapInv, FenceInv, ClaimInv
  <2> QED BY <2>1, <2>2, <2>3, <2>4, StatusIs
<1>2. Init => MapInv
  BY InitMaps
<1>3. MapInv /\ [Next]_vars => MapInv'
  BY TypeStep, RowStep, ClaimStep, TickStep, AbsentStep DEF MapInv, FenceInv
<1> QED BY <1>1, <1>2, <1>3, PTL DEF Spec

=============================================================================
