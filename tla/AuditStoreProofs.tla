-------------------------- MODULE AuditStoreProofs --------------------------
(***************************************************************************)
(* Proofs about AuditStore, for any callers, workers, batch sizes, attempt *)
(* limits and numbers of faults and rebuilds: appends of a task never      *)
(* collide and number its events without a gap, acknowledged rows have     *)
(* their effect and are final, a task whose events are applied one by one  *)
(* is not taken back, and either queue keeps the contract it is given by   *)
(* TransactionalQueue.                                                     *)
(***************************************************************************)
EXTENDS AuditStore, FiniteSetTheorems, SequenceTheorems, WellFoundedInduction, TLAPS

-----------------------------------------------------------------------------
(* The types.                                                              *)

Event == [task : Tasks, key : {r.key : r \in Requests}, seq : Nat \ {0}]

Row == [ status   : {"pending", "processed", "published", "backoff", "dead_letter"},
         attempts : Nat ]

Batches == [ todo : SUBSET Nat, ok : SUBSET Nat, bad : SUBSET Nat, last : [Tasks -> Nat] ]

Shape ==
  /\ log \in Seq(Event)
  /\ append \in [Clients -> Event \cup {<<>>}]
  /\ rows \in [Queues -> [DOMAIN log -> Row]]
  /\ work \in [Workers -> Batches \cup {<<>>}]
  /\ rebuild \in [ done : 0..2, read : 0..Len(log) ]
  /\ current \in [Tasks -> Nat]

LEMMA RecordsAreNotEmpty ==
  /\ \A e \in Event : e # <<>>
  /\ \A x \in Batches : x # <<>>
<1>1. DOMAIN <<>> = {}
  OBVIOUS
<1>2. \A e \in Event : DOMAIN e = {"task", "key", "seq"}
  BY DEF Event
<1>3. \A x \in Batches : DOMAIN x = {"todo", "ok", "bad", "last"}
  BY DEF Batches
<1> QED BY <1>1, <1>2, <1>3

\* The greatest of a bounded set of numbers.
LEMMA NewestIsGreatest ==
  ASSUME NEW n \in Nat, NEW S \in SUBSET (0..n)
  PROVE  /\ Newest(S) \in 0..n
         /\ \A j \in S : j <= Newest(S)
         /\ S # {} => Newest(S) \in S
<1>1. CASE S = {}
  BY <1>1 DEF Newest
<1>2. CASE S # {}
  <2> DEFINE Above(i) == {j \in S : i < j}
             T == {Above(i) : i \in S}
             R == StrictSubsetOrdering(S)
  <2>1. IsFiniteSet(S)
    <3>1. 0 \in Int /\ n \in Int
      OBVIOUS
    <3>2. IsFiniteSet(0..n)
      BY <3>1, FS_Interval
    <3> QED BY <3>2, FS_Subset
  <2>2. IsWellFoundedOn(R, SUBSET S)
    <3> HIDE DEF R
    <3>1. IsWellFoundedOn(StrictSubsetOrdering(S), FiniteSubsetsOf(S))
      BY FS_StrictSubsetOrderingWellFounded
    <3> QED BY <2>1, <3>1, FS_FiniteSubsetsOfFinite DEF R
  <2>3. PICK x \in T : \A y \in T : ~ (<<y, x>> \in R)
    <3>1. T \subseteq SUBSET S /\ T # {}
      BY <1>2
    <3> HIDE DEF T, R
    <3> QED BY <2>2, <3>1, WFMin
  <2>4. PICK i \in S : x = Above(i)
    OBVIOUS
  <2>5. \A j \in S : j <= i
    <3> SUFFICES ASSUME NEW j \in S, i < j PROVE FALSE
      OBVIOUS
    <3>1. Above(j) \subseteq Above(i) /\ j \in Above(i) /\ j \notin Above(j)
      <4>1. i \in Int /\ j \in Int /\ \A k \in S : k \in Int
        OBVIOUS
      <4>2. j \in Above(i) /\ j \notin Above(j)
        BY <4>1
      <4>3. ASSUME NEW k \in S, j < k PROVE i < k
        BY <4>1, <4>3
      <4> QED BY <4>2, <4>3
    <3>2. <<Above(j), Above(i)>> \in R
      BY <3>1 DEF StrictSubsetOrdering
    <3>3. Above(j) \in T
      OBVIOUS
    <3> HIDE DEF T, R, Above
    <3> QED BY <2>3, <2>4, <3>2, <3>3
  <2>6. Newest(S) \in S /\ \A j \in S : j <= Newest(S)
    BY <1>2, <2>5, Zenon DEF Newest
  <2> QED BY <2>6
<1> QED BY <1>1, <1>2

-----------------------------------------------------------------------------
(* The log only grows, and its events stay as they are.                    *)

\* What a commit adds.
LEMMA LogGrows ==
  ASSUME Shape, NEW c \in Clients, CommitAppend(c), log' # log
  PROVE  /\ append[c] \in Event /\ ~Collides(append[c])
         /\ log' \in Seq(Event) /\ Len(log') = Len(log) + 1
         /\ DOMAIN log = 1..Len(log) /\ DOMAIN log' = 1..(Len(log) + 1)
         /\ \A i \in DOMAIN log : log'[i] = log[i]
         /\ log'[Len(log) + 1] = append[c]
         /\ rows' \in [Queues -> [DOMAIN log' -> Row]]
         /\ \A q \in Queues : /\ \A i \in DOMAIN log : rows'[q][i] = rows[q][i]
                              /\ rows'[q][Len(log) + 1] = NewRow
<1>1. /\ append[c] \in Event /\ ~Collides(append[c])
      /\ log' = Append(log, append[c])
      /\ rows' = [q \in Queues |-> Append(rows[q], NewRow)]
  BY DEF CommitAppend, Shape
<1>2. /\ log' \in Seq(Event) /\ Len(log') = Len(log) + 1
      /\ DOMAIN log = 1..Len(log) /\ DOMAIN log' = 1..(Len(log) + 1)
      /\ \A i \in DOMAIN log : log'[i] = log[i]
      /\ log'[Len(log) + 1] = append[c]
  BY <1>1, AppendProperties, LenProperties DEF Shape
<1>3. NewRow \in Row
  BY DEF NewRow, Row
<1>4. ASSUME NEW q \in Queues
      PROVE  /\ rows'[q] \in [DOMAIN log' -> Row]
             /\ \A i \in DOMAIN log : rows'[q][i] = rows[q][i]
             /\ rows'[q][Len(log) + 1] = NewRow
  <2>1. rows[q] \in [1..Len(log) -> Row] /\ Len(log) \in Nat
    BY <1>2, LenProperties DEF Shape
  <2>2. rows[q] \in Seq(Row) /\ Len(rows[q]) = Len(log)
    BY <2>1, IsASeq, LenProperties
  <2>3. rows'[q] = Append(rows[q], NewRow)
    BY <1>1
  <2>4. /\ rows'[q] \in Seq(Row) /\ Len(rows'[q]) = Len(log) + 1
        /\ \A i \in 1..Len(log) : rows'[q][i] = rows[q][i]
        /\ rows'[q][Len(log) + 1] = NewRow
    BY <1>3, <2>2, <2>3, AppendProperties
  <2>5. rows'[q] \in [1..(Len(log) + 1) -> Row]
    BY <2>4, LenProperties
  <2> QED BY <1>2, <2>4, <2>5
<1>5. rows' \in [Queues -> [DOMAIN log' -> Row]]
  <2> HIDE DEF Queues
  <2> QED BY <1>1, <1>4
<1> QED BY <1>1, <1>2, <1>4, <1>5

LEMMA LogDomain ==
  ASSUME Shape
  PROVE  /\ DOMAIN log = 1..Len(log) /\ Len(log) \in Nat
         /\ \A i \in DOMAIN log : log[i] \in Event /\ log[i].task \in Tasks
         /\ \A q \in Queues : DOMAIN rows[q] = DOMAIN log
<1>1. DOMAIN log = 1..Len(log) /\ Len(log) \in Nat /\ log \in [1..Len(log) -> Event]
  BY LenProperties DEF Shape
<1>2. \A i \in DOMAIN log : log[i].task \in Tasks
  BY <1>1 DEF Event
<1> QED BY <1>1, <1>2 DEF Shape

-----------------------------------------------------------------------------
(* What the workers' actions do to the batches.                            *)

LEMMA QueueNames == \A w : QueueOf(w) \in Queues
BY DEF QueueOf, Queues

LEMMA ClaimEffect ==
  ASSUME Shape, NEW w \in Workers, Claim(w)
  PROVE  LET B == Batch(Claimable(QueueOf(w))) IN
         /\ ~Busy(w) /\ B # {} /\ B \subseteq DOMAIN log /\ B \in SUBSET Nat
         /\ work' \in [Workers -> Batches \cup {<<>>}]
         /\ Busy(w)' /\ ClaimOf(w)' = B
         /\ work'[w].todo = B /\ work'[w].ok = {} /\ work'[w].bad = {}
         /\ \A t \in Tasks : work'[w].last[t] = 0
         /\ \A v \in Workers \ {w} : work'[v] = work[v]
<1> DEFINE B == Batch(Claimable(QueueOf(w)))
           x == [todo |-> B, ok |-> {}, bad |-> {}, last |-> [t \in Tasks |-> 0]]
<1>1. B \subseteq DOMAIN log /\ B \in SUBSET Nat
  BY LogDomain, QueueNames DEF Batch, Claimable
<1>2. ~Busy(w) /\ B # {} /\ work' = [work EXCEPT ![w] = x]
  BY DEF Claim
<1> HIDE DEF B
<1>3. x \in Batches
  BY <1>1 DEF Batches
<1>4. /\ work' \in [Workers -> Batches \cup {<<>>}] /\ work'[w] = x
      /\ \A v \in Workers \ {w} : work'[v] = work[v]
  BY <1>2, <1>3 DEF Shape
<1>5. Busy(w)' /\ ClaimOf(w)' = B
  BY <1>3, <1>4, RecordsAreNotEmpty DEF Busy, ClaimOf
<1> QED BY <1>1, <1>2, <1>4, <1>5 DEF B

\* A row goes from todo to ok or bad.
Moved(w, i) ==
  /\ i \in work[w].todo /\ i \in DOMAIN log /\ Busy(w) /\ Busy(w)'
  /\ ClaimOf(w)' = ClaimOf(w) /\ delivered \subseteq delivered'
  /\ work'[w].todo = work[w].todo \ {i}
  /\ w \in Projectors => ~Truncated
  /\ \/ /\ work'[w].ok = work[w].ok \cup {i} /\ work'[w].bad = work[w].bad
        /\ w \in Projectors =>
             /\ work'[w].last[log[i].task] = i
             /\ \A t \in Tasks \ {log[i].task} : work'[w].last[t] = work[w].last[t]
        /\ w \in Publishers => i \in delivered'
     \/ /\ work'[w].ok = work[w].ok /\ work'[w].bad = work[w].bad \cup {i}
        /\ work'[w].last = work[w].last

LEMMA StepEffect ==
  ASSUME Shape, NEW w \in Workers, Step(w)
  PROVE  /\ work' \in [Workers -> Batches \cup {<<>>}]
         /\ \A v \in Workers \ {w} : work'[v] = work[v]
         /\ \E i \in DOMAIN log : Moved(w, i)
<1> USE DEF Shape
<1>1. PICK i \in DOMAIN log : Apply(w, i) \/ Deliver(w, i) \/ FailRow(w, i)
  BY DEF Step
<1>2. /\ Busy(w) /\ i \in work[w].todo /\ work[w] \in Batches
      /\ i \in Nat /\ log[i].task \in Tasks
      /\ ~(w \in Projectors /\ w \in Publishers)
  BY <1>1, LogDomain, StoreAssumption DEF Apply, Deliver, FailRow, Busy
<1> DEFINE x == work[w]
           Same == \A v \in Workers \ {w} : work'[v] = work[v]
           Typed == work' \in [Workers -> Batches \cup {<<>>}]
<1>5. CASE Apply(w, i)
  <2> DEFINE y == [x EXCEPT !.todo = @ \ {i}, !.ok = @ \cup {i}, !.last[log[i].task] = i]
  <2>1. /\ y \in Batches
        /\ y.todo = x.todo \ {i} /\ y.ok = x.ok \cup {i} /\ y.bad = x.bad
        /\ y.last = [x.last EXCEPT ![log[i].task] = i] /\ x.last \in [Tasks -> Nat]
    BY <1>2 DEF Batches
  <2>2. work' = [work EXCEPT ![w] = y]
    BY <1>5 DEF Apply
  <2> HIDE DEF y
  <2>3. Typed /\ Same /\ work'[w] = y
    BY <2>1, <2>2
  <2>4. Busy(w)'
    BY <2>1, <2>3, RecordsAreNotEmpty DEF Busy
  <2>5. Moved(w, i)
    BY <1>2, <1>5, <2>1, <2>3, <2>4 DEF Moved, Apply, ClaimOf
  <2> QED BY <2>3, <2>5
<1>6. CASE Deliver(w, i)
  <2> DEFINE y == [x EXCEPT !.todo = @ \ {i}, !.ok = @ \cup {i}]
  <2>1. /\ y \in Batches
        /\ y.todo = x.todo \ {i} /\ y.ok = x.ok \cup {i} /\ y.bad = x.bad
        /\ y.last = x.last
    BY <1>2 DEF Batches
  <2>2. work' = [work EXCEPT ![w] = y]
    BY <1>6 DEF Deliver
  <2> HIDE DEF y
  <2>3. Typed /\ Same /\ work'[w] = y
    BY <2>1, <2>2
  <2>4. Busy(w)'
    BY <2>1, <2>3, RecordsAreNotEmpty DEF Busy
  <2>5. Moved(w, i)
    BY <1>2, <1>6, <2>1, <2>3, <2>4 DEF Moved, Deliver, ClaimOf
  <2> QED BY <2>3, <2>5
<1>7. CASE FailRow(w, i)
  <2> DEFINE y == [x EXCEPT !.todo = @ \ {i}, !.bad = @ \cup {i}]
  <2>1. /\ y \in Batches
        /\ y.todo = x.todo \ {i} /\ y.ok = x.ok /\ y.bad = x.bad \cup {i}
        /\ y.last = x.last
    BY <1>2 DEF Batches
  <2>2. work' = [work EXCEPT ![w] = y]
    BY <1>7 DEF FailRow
  <2> HIDE DEF y
  <2>3. Typed /\ Same /\ work'[w] = y
    BY <2>1, <2>2
  <2>4. Busy(w)'
    BY <2>1, <2>3, RecordsAreNotEmpty DEF Busy
  <2>5. Moved(w, i)
    BY <1>2, <1>7, <2>1, <2>3, <2>4 DEF Moved, FailRow, ClaimOf
  <2> QED BY <2>3, <2>5
<1> QED BY <1>1, <1>5, <1>6, <1>7

LEMMA EndEffect ==
  ASSUME Shape, NEW w \in Workers, Commit(w) \/ Rollback(w)
  PROVE  /\ Busy(w) /\ work[w] \in Batches /\ ~Busy(w)'
         /\ work' \in [Workers -> Batches \cup {<<>>}]
         /\ \A v \in Workers \ {w} : work'[v] = work[v]
BY DEF Shape, Commit, Rollback, Busy

LEMMA HeldBy ==
  ASSUME NEW q, NEW i
  PROVE  i \in Held(q) <=> \E v \in Workers : Busy(v) /\ QueueOf(v) = q /\ i \in ClaimOf(v)
BY DEF Held, ClaimOf

\* What a commit and a ripening do to the rows.
LEMMA RowEffect ==
  ASSUME Shape, NEW p \in Queues,
         \/ \E w \in Workers : Commit(w) /\ p = QueueOf(w)
         \/ \E i \in 1..MaxEvents : Ripen(p, i)
  PROVE  /\ rows' \in [Queues -> [DOMAIN log -> Row]]
         /\ \A q \in Queues \ {p} : rows'[q] = rows[q]
         /\ \A w \in Workers : Commit(w) /\ p = QueueOf(w) =>
              \A i \in DOMAIN log :
                rows'[p][i] = IF i \in work[w].ok THEN Done(p, rows[p][i])
                              ELSE IF i \in work[w].bad THEN Failed(rows[p][i])
                              ELSE rows[p][i]
         /\ (\E i \in 1..MaxEvents : Ripen(p, i)) =>
              \A i \in DOMAIN log :
                \/ rows'[p][i] = rows[p][i]
                \/ rows[p][i].status = "backoff" /\ rows'[p][i].status = "pending"
<1> USE DEF Shape
<1>1. ASSUME NEW r \in Row
      PROVE  /\ Done(p, r) \in Row /\ Failed(r) \in Row
             /\ [r EXCEPT !.status = "pending"] \in Row
             /\ [r EXCEPT !.status = "pending"].status = "pending"
  <2>1. Done(p, r) \in Row
    BY DEF Row, Done
  <2>2. Failed(r) \in Row
    BY DEF Row, Failed
  <2>3. [r EXCEPT !.status = "pending"] \in Row
    BY DEF Row
  <2>4. [r EXCEPT !.status = "pending"].status = "pending"
    BY SMT DEF Row
  <2> QED BY <2>1, <2>2, <2>3, <2>4
<1>2. rows[p] \in [DOMAIN log -> Row] /\ DOMAIN rows[p] = DOMAIN log
  OBVIOUS
<1>3. ASSUME NEW w \in Workers, Commit(w), p = QueueOf(w)
      PROVE  /\ rows' \in [Queues -> [DOMAIN log -> Row]]
             /\ \A q \in Queues \ {p} : rows'[q] = rows[q]
             /\ \A i \in DOMAIN log :
                  rows'[p][i] = IF i \in work[w].ok THEN Done(p, rows[p][i])
                                ELSE IF i \in work[w].bad THEN Failed(rows[p][i])
                                ELSE rows[p][i]
  <2> DEFINE f == [i \in DOMAIN log |->
                     IF i \in work[w].ok THEN Done(p, rows[p][i])
                     ELSE IF i \in work[w].bad THEN Failed(rows[p][i]) ELSE rows[p][i]]
  <2>1. rows' = [rows EXCEPT ![p] = f]
    BY <1>2, <1>3 DEF Commit
  <2>2. f \in [DOMAIN log -> Row]
    BY <1>1, <1>2
  <2> QED BY <2>1, <2>2
<1>4. ASSUME NEW j \in 1..MaxEvents, Ripen(p, j)
      PROVE  /\ rows' \in [Queues -> [DOMAIN log -> Row]]
             /\ \A q \in Queues \ {p} : rows'[q] = rows[q]
             /\ \A i \in DOMAIN log :
                  \/ rows'[p][i] = rows[p][i]
                  \/ rows[p][i].status = "backoff" /\ rows'[p][i].status = "pending"
  <2> DEFINE r == [rows[p][j] EXCEPT !.status = "pending"]
             f == [rows[p] EXCEPT ![j] = r]
  <2>1. /\ rows' = [rows EXCEPT ![p] = f] /\ j \in DOMAIN log
        /\ rows[p][j].status = "backoff"
    BY <1>2, <1>4 DEF Ripen
  <2>2. r \in Row /\ r.status = "pending"
    <3>1. rows[p][j] \in Row
      BY <1>2, <2>1
    <3> QED BY <1>1, <3>1, Zenon
  <2> HIDE DEF r
  <2>3. f \in [DOMAIN log -> Row] /\ f[j] = r /\ \A i \in DOMAIN log \ {j} : f[i] = rows[p][i]
    BY <1>2, <2>1, <2>2
  <2> HIDE DEF f
  <2>4. rows'[p] = f /\ \A q \in Queues \ {p} : rows'[q] = rows[q]
    BY <2>1
  <2>5. rows' \in [Queues -> [DOMAIN log -> Row]]
    BY <2>1, <2>3
  <2> QED BY <2>1, <2>2, <2>3, <2>4, <2>5
<1> QED BY <1>3, <1>4

\* The rebuild's steps, one after the other.
LEMMA RebuildEffect ==
  ASSUME Shape, Rebuild \/ RollbackRebuild
  PROVE  \/ /\ rebuild.done = 0 /\ Truncate
            /\ rebuild'.done = 1 /\ rebuild'.read = rebuild.read
         \/ /\ rebuild.done = 1 /\ ReadEvents
            /\ rebuild'.done = 2 /\ rebuild'.read = Len(log)
         \/ /\ rebuild.done = 2 /\ CommitRebuild
            /\ rebuild'.done = 0 /\ rebuild'.read = 0
         \/ /\ RollbackRebuild /\ rebuild'.done = 0 /\ rebuild'.read = 0
<1>1. rebuild.done \in 0..2
  BY DEF Shape
<1>2. /\ rebuild.done = 0 => NextStep = "truncate"
      /\ rebuild.done = 1 => NextStep = "read"
      /\ rebuild.done = 2 => NextStep = "commit"
  BY DEF NextStep, RebuildSteps
<1>3. CASE Truncate
  BY <1>1, <1>2, <1>3 DEF Truncate, Shape
<1>4. CASE ReadEvents
  BY <1>1, <1>2, <1>4 DEF ReadEvents
<1>5. CASE CommitRebuild
  BY <1>1, <1>2, <1>5 DEF CommitRebuild
<1>6. CASE RollbackRebuild
  BY <1>6 DEF RollbackRebuild
<1> QED BY <1>3, <1>4, <1>5, <1>6 DEF Rebuild

-----------------------------------------------------------------------------
(* The invariant.                                                          *)

\* An append under way is of a task no other append is at, and its number and
\* key are new to the task.
AppendInv ==
  /\ \A i \in DOMAIN log : log[i].seq <= i
  /\ \A c \in Clients : append[c] # <<>> =>
       /\ append[c].seq <= Len(log) + 1
       /\ \A i \in EventsOf(append[c].task) :
            log[i].seq < append[c].seq /\ log[i].key # append[c].key
  /\ \A c, d \in Clients : append[c] # <<>> /\ append[d] # <<>> /\ c # d =>
       append[c].task # append[d].task

\* A batch holds pending rows that no other worker of the queue holds; it
\* remembers what it has delivered and what it has folded.
BatchInv ==
  \A w \in Workers : Busy(w) =>
    /\ ClaimOf(w) # {} /\ ClaimOf(w) \subseteq DOMAIN log
    /\ \A i \in ClaimOf(w) : rows[QueueOf(w)][i].status = "pending"
    /\ \A v \in Workers : Busy(v) /\ v # w /\ QueueOf(v) = QueueOf(w) =>
         ClaimOf(v) \cap ClaimOf(w) = {}
    /\ w \in Publishers => work[w].ok \subseteq delivered
    /\ w \in Projectors =>
         /\ \A i \in work[w].ok : work[w].last[log[i].task] # 0
         /\ \A t \in Tasks : work[w].last[t] # 0 =>
              work[w].last[t] \in work[w].ok /\ log[work[w].last[t]].task = t

Processed(i) == rows["projection"][i].status = "processed"

\* The events of an undisturbed task are processed in the order of the log.
OrderInv ==
  \A t \in Tasks \ disturbed : \A i \in EventsOf(t) :
    /\ rows["projection"][i].status \in {"pending", "processed"}
    /\ Processed(i) \/ i \in Held("projection") =>
         \A j \in EventsOf(t) : j < i => Processed(j)

\* While the tables are empty no projection is under way, and what the rebuild
\* has read are all the events that are processed.
RebuildInv ==
  /\ Truncated => \A w \in Projectors : ~Touched(w)
  /\ rebuild.done = 2 => \A i \in DOMAIN log : Processed(i) => i <= rebuild.read

LEMMA NextSequence ==
  ASSUME Shape, AppendInv, NEW t \in Tasks
  PROVE  LET m == Newest({log[i].seq : i \in EventsOf(t)}) IN
         m \in 0..Len(log) /\ \A i \in EventsOf(t) : log[i].seq <= m
<1>1. \A i \in EventsOf(t) : log[i].seq \in 0..Len(log)
  BY LogDomain DEF EventsOf, AppendInv, Event
<1>2. {log[i].seq : i \in EventsOf(t)} \in SUBSET (0..Len(log))
  BY <1>1
<1> QED BY <1>2, LogDomain, NewestIsGreatest

LEMMA NewestEvent ==
  ASSUME Shape, NEW t \in Tasks, NEW n \in Nat
  PROVE  LET m == Newest(EventsOf(t) \cap 1 .. n) IN
         m \in Nat /\ \A i \in EventsOf(t) : i <= n => i <= m
<1>1. EventsOf(t) \cap 1 .. n \in SUBSET (0..n)
  OBVIOUS
<1>2. /\ Newest(EventsOf(t) \cap 1 .. n) \in 0..n
      /\ \A j \in EventsOf(t) \cap 1 .. n : j <= Newest(EventsOf(t) \cap 1 .. n)
  BY <1>1, NewestIsGreatest
<1>3. \A i \in EventsOf(t) : i \in Nat /\ 1 <= i
  BY LogDomain DEF EventsOf
<1> QED BY <1>2, <1>3

LEMMA ShapeStep ==
  ASSUME Shape, AppendInv, [Next]_vars
  PROVE  Shape'
<1> DEFINE Logged == /\ log' \in Seq(Event) /\ Len(log') \in Nat /\ Len(log) <= Len(log')
                     /\ rows' \in [Queues -> [DOMAIN log' -> Row]]
<1>0. Len(log) \in Nat /\ rebuild.read \in 0..Len(log)
  BY LogDomain DEF Shape
<1>1. ASSUME NEW c \in Clients, NEW r \in Requests, BeginAppend(c, r)
      PROVE  Shape'
  <2> DEFINE m == Newest({log[i].seq : i \in EventsOf(r.task)})
             e == [task |-> r.task, key |-> r.key, seq |-> 1 + m]
  <2>1. m \in Nat
    BY NextSequence, LogDomain DEF Tasks
  <2> HIDE DEF m
  <2>2. e \in Event
    BY <2>1 DEF Event, Tasks
  <2>3. append' = [append EXCEPT ![c] = e]
    BY <1>1 DEF BeginAppend, m
  <2>4. append' \in [Clients -> Event \cup {<<>>}]
    BY <2>2, <2>3 DEF Shape
  <2> QED BY <1>1, <2>4 DEF BeginAppend, Shape
<1>2. ASSUME NEW c \in Clients, CommitAppend(c)
      PROVE  Shape'
  <2>1. append' \in [Clients -> Event \cup {<<>>}] /\ UNCHANGED <<work, rebuild, current>>
    BY <1>2 DEF CommitAppend, Shape
  <2>2. Logged
    <3>1. CASE log' = log
      <4>1. rows' = rows
        BY <1>2, <3>1, LogDomain, AppendProperties DEF CommitAppend, Shape
      <4> QED BY <1>0, <3>1, <4>1 DEF Shape
    <3>2. CASE log' # log
      BY <1>0, <1>2, <3>2, LogGrows
    <3> QED BY <3>1, <3>2
  <2>3. rebuild' \in [done : 0..2, read : 0..Len(log')]
    BY <1>0, <2>1, <2>2 DEF Shape
  <2> QED BY <2>1, <2>2, <2>3 DEF Shape
<1>3. ASSUME NEW c \in Clients, LoseAppend(c)
      PROVE  Shape'
  BY <1>3 DEF LoseAppend, Shape
<1>4. ASSUME NEW w \in Workers, Claim(w) \/ Step(w) \/ Rollback(w)
      PROVE  Shape'
  <2>1. work' \in [Workers -> Batches \cup {<<>>}]
    BY <1>4, ClaimEffect, StepEffect, EndEffect
  <2>2. UNCHANGED <<log, append, rows, rebuild, current>>
    BY <1>4 DEF Claim, Step, Rollback
  <2> QED BY <2>1, <2>2 DEF Shape
<1>5. ASSUME NEW w \in Workers, Commit(w)
      PROVE  Shape'
  <2>1. work' \in [Workers -> Batches \cup {<<>>}] /\ work[w] \in Batches
    BY <1>5, EndEffect
  <2>2. UNCHANGED <<log, append, rebuild>>
    BY <1>5 DEF Commit
  <2>3. rows' \in [Queues -> [DOMAIN log -> Row]]
    BY <1>5, RowEffect, QueueNames
  <2>4. current' \in [Tasks -> Nat]
    <3>1. work[w].last \in [Tasks -> Nat]
      BY <2>1 DEF Batches
    <3> QED BY <1>5, <3>1 DEF Commit, Shape
  <2> QED BY <2>1, <2>2, <2>3, <2>4 DEF Shape
<1>6. ASSUME NEW q \in Queues, NEW i \in 1..MaxEvents, Ripen(q, i)
      PROVE  Shape'
  <2>1. rows' \in [Queues -> [DOMAIN log -> Row]]
    BY <1>6, RowEffect
  <2> QED BY <1>6, <2>1 DEF Ripen, Shape
<1>7. CASE Rebuild \/ RollbackRebuild
  <2>1. rebuild' \in [done : 0..2, read : 0..Len(log)]
    <3>1. rebuild'.done \in 0..2 /\ rebuild'.read \in 0..Len(log)
      BY <1>0, <1>7, RebuildEffect
    <3>2. rebuild \in [done : 0..2, read : 0..Len(log)]
      BY DEF Shape
    <3>3. CASE Truncate
      <4>1. rebuild' = [rebuild EXCEPT !.done = @ + 1]
        BY <3>3 DEF Truncate
      <4>2. rebuild.done + 1 \in 0..2
        BY <3>1, <3>2, <4>1
      <4> QED BY <3>2, <4>1, <4>2
    <3>4. CASE ReadEvents \/ CommitRebuild \/ RollbackRebuild
      BY <3>1, <3>4 DEF ReadEvents, CommitRebuild, RollbackRebuild
    <3> QED BY <1>7, <3>3, <3>4 DEF Rebuild
  <2>2. UNCHANGED <<log, append, rows, work>>
    BY <1>7 DEF Rebuild, RollbackRebuild
  <2>3. current' \in [Tasks -> Nat]
    <3>1. \A t \in Tasks : Newest(EventsOf(t) \cap 1 .. rebuild.read) \in Nat
      BY <1>0, NewestEvent
    <3> QED BY <1>7, <3>1
            DEF Shape, Rebuild, RollbackRebuild, Truncate, ReadEvents, CommitRebuild
  <2> QED BY <2>1, <2>2, <2>3 DEF Shape
<1>8. CASE UNCHANGED vars
  BY <1>8 DEF vars, Shape
<1> QED BY <1>1, <1>2, <1>3, <1>4, <1>5, <1>6, <1>7, <1>8 DEF Next

LEMMA LogSteps ==
  ASSUME Shape, [Next]_vars
  PROVE  /\ \A i \in DOMAIN log : i \in DOMAIN log' /\ log'[i] = log[i]
         /\ \A t \in Tasks : \A i \in DOMAIN log : i \in EventsOf(t)' <=> i \in EventsOf(t)
         /\ log' # log => \E c \in Clients : CommitAppend(c)
         /\ log' = log => \A c \in Clients : CommitAppend(c) => rows' = rows
<1>1. log' # log => \E c \in Clients : CommitAppend(c)
  BY DEF Next, BeginAppend, LoseAppend, Claim, Step, Commit, Rollback, Ripen, Rebuild,
     RollbackRebuild, vars
<1>2. \A i \in DOMAIN log : i \in DOMAIN log' /\ log'[i] = log[i]
  <2>1. CASE log' = log
    BY <2>1
  <2>2. CASE log' # log
    BY <1>1, <2>2, LogGrows
  <2> QED BY <2>1, <2>2
<1>3. log' = log => \A c \in Clients : CommitAppend(c) => rows' = rows
  BY LogDomain, AppendProperties DEF CommitAppend, Shape
<1> QED BY <1>1, <1>2, <1>3 DEF EventsOf

LEMMA AppendStep ==
  ASSUME Shape, AppendInv, [Next]_vars
  PROVE  AppendInv'
<1>0. Len(log) \in Nat
  BY LogDomain
<1>1. ASSUME NEW c \in Clients, NEW r \in Requests, BeginAppend(c, r)
      PROVE  AppendInv'
  <2> DEFINE m == Newest({log[i].seq : i \in EventsOf(r.task)})
             e == [task |-> r.task, key |-> r.key, seq |-> 1 + m]
  <2>1. m \in 0..Len(log) /\ \A i \in EventsOf(r.task) : log[i].seq <= m
    BY NextSequence DEF Tasks
  <2>2. append' = [append EXCEPT ![c] = e] /\ log' = log
    BY <1>1 DEF BeginAppend
  <2> HIDE DEF m
  <2>3. append'[c] = e /\ \A d \in Clients \ {c} : append'[d] = append[d]
    BY <2>2 DEF Shape
  <2>4. /\ e.seq <= Len(log) + 1
        /\ \A i \in EventsOf(e.task) : log[i].seq < e.seq /\ log[i].key # e.key
    <3>1. \A i \in EventsOf(r.task) : log[i].seq \in Nat
      BY LogDomain DEF EventsOf, Event
    <3> QED BY <1>0, <1>1, <2>1, <3>1 DEF BeginAppend, EventsOf
  <2>5. \A d \in Clients : append[d] # <<>> => append[d].task # e.task
    BY <1>1 DEF BeginAppend, SequenceFree
  <2> HIDE DEF e
  <2> QED BY <2>2, <2>3, <2>4, <2>5 DEF AppendInv, EventsOf
<1>2. ASSUME NEW c \in Clients, CommitAppend(c)
      PROVE  AppendInv'
  <2>1. append'[c] = <<>> /\ \A d \in Clients \ {c} : append'[d] = append[d]
    BY <1>2 DEF CommitAppend, Shape
  <2>2. CASE log' = log
    BY <2>1, <2>2 DEF AppendInv, EventsOf
  <2>3. CASE log' # log
    <3> DEFINE n == Len(log) + 1
    <3>1. /\ append[c] # <<>> /\ DOMAIN log = 1..Len(log) /\ DOMAIN log' = 1..n
          /\ Len(log') = n /\ log'[n] = append[c]
          /\ \A i \in DOMAIN log : log'[i] = log[i]
      BY <1>2, <2>3, LogGrows, RecordsAreNotEmpty
    <3>2. \A i \in DOMAIN log' : i \in DOMAIN log \/ i = n
      BY <1>0, <3>1
    <3>3. \A i \in DOMAIN log' : log'[i].seq <= i
      BY <1>0, <3>1, <3>2 DEF AppendInv
    <3>4. ASSUME NEW d \in Clients, append'[d] # <<>>
          PROVE  /\ append'[d].seq <= n + 1
                 /\ \A i \in EventsOf(append[d].task)' :
                      log'[i].seq < append'[d].seq /\ log'[i].key # append'[d].key
      <4>1. /\ d # c /\ append'[d] = append[d] /\ append[d] \in Event
            /\ append[d].task # append[c].task
        BY <2>1, <3>1, <3>4 DEF AppendInv, Shape
      <4>2. append[d].seq <= n
        BY <4>1, <3>4 DEF AppendInv
      <4>3. append[d].seq \in Nat
        BY <4>1 DEF Event
      <4>4. \A i \in EventsOf(append[d].task)' :
               i \in EventsOf(append[d].task) /\ log'[i] = log[i]
        BY <3>1, <3>2, <4>1 DEF EventsOf
      <4>5. \A i \in EventsOf(append[d].task) :
               log[i].seq < append[d].seq /\ log[i].key # append[d].key
        BY <3>4, <4>1 DEF AppendInv
      <4> QED BY <1>0, <4>1, <4>2, <4>3, <4>4, <4>5
    <3> QED BY <2>1, <3>1, <3>3, <3>4 DEF AppendInv
  <2> QED BY <2>2, <2>3
<1>3. ASSUME NEW c \in Clients, LoseAppend(c)
      PROVE  AppendInv'
  BY <1>3 DEF LoseAppend, Shape, AppendInv, EventsOf
<1>4. CASE UNCHANGED <<log, append>>
  BY <1>4 DEF AppendInv, EventsOf
<1> QED BY <1>1, <1>2, <1>3, <1>4 DEF Next, Claim, Step, Commit, Rollback, Ripen, Rebuild,
        RollbackRebuild, vars

LEMMA BatchStep ==
  ASSUME Shape, Shape', BatchInv, [Next]_vars
  PROVE  BatchInv'
<1> DEFINE Others(w) == \A v \in Workers \ {w} : work'[v] = work[v]
<1>1. CASE UNCHANGED <<work, delivered>> /\ (UNCHANGED rows \/ \E q \in Queues, i \in 1..MaxEvents : Ripen(q, i))
           /\ UNCHANGED log
  <2>1. \A q \in Queues : \A i \in DOMAIN log :
           rows[q][i].status = "pending" => rows'[q][i].status = "pending"
    BY <1>1, RowEffect
  <2> QED BY <1>1, <2>1, QueueNames DEF BatchInv, Busy, ClaimOf
<1>2. ASSUME NEW c \in Clients, CommitAppend(c), log' # log
      PROVE  BatchInv'
  <2>1. work' = work /\ delivered' = delivered
    BY <1>2 DEF CommitAppend
  <2>2. /\ \A i \in DOMAIN log : i \in DOMAIN log' /\ log'[i] = log[i]
        /\ \A q \in Queues : \A i \in DOMAIN log : rows'[q][i] = rows[q][i]
    BY <1>2, LogGrows, LogSteps
  <2>3. \A w \in Workers, t \in Tasks : Busy(w) /\ w \in Projectors /\ work[w].last[t] # 0 =>
           work[w].last[t] \in DOMAIN log
    BY DEF BatchInv, ClaimOf
  <2> QED BY <2>1, <2>2, <2>3, QueueNames DEF BatchInv, Busy, ClaimOf
<1>3. ASSUME NEW w \in Workers, Claim(w)
      PROVE  BatchInv'
  <2> DEFINE B == Batch(Claimable(QueueOf(w)))
  <2>1. /\ B # {} /\ B \subseteq DOMAIN log /\ Busy(w)' /\ ClaimOf(w)' = B
        /\ work'[w].ok = {} /\ \A t \in Tasks : work'[w].last[t] = 0
        /\ Others(w)
    BY <1>3, ClaimEffect
  <2>2. UNCHANGED <<log, rows, delivered>>
    BY <1>3 DEF Claim
  <2>3. \A i \in B : /\ rows[QueueOf(w)][i].status = "pending"
                     /\ i \notin Held(QueueOf(w))
    BY DEF Batch, Claimable
  <2>4. \A v \in Workers \ {w} : Busy(v) /\ QueueOf(v) = QueueOf(w) => ClaimOf(v) \cap B = {}
    BY <2>3, HeldBy
  <2> HIDE DEF B
  <2>5. \A v \in Workers \ {w} : (Busy(v)' <=> Busy(v)) /\ ClaimOf(v)' = ClaimOf(v)
    BY <2>1 DEF Busy, ClaimOf
  <2> QED BY <2>1, <2>2, <2>3, <2>4, <2>5 DEF BatchInv
<1>4. ASSUME NEW w \in Workers, Step(w)
      PROVE  BatchInv'
  <2>1. Others(w)
    BY <1>4, StepEffect
  <2>2. PICK i \in DOMAIN log : Moved(w, i)
    BY <1>4, StepEffect
  <2>3. UNCHANGED <<log, rows>>
    BY <1>4 DEF Step
  <2>4. \A v \in Workers : (Busy(v)' <=> Busy(v)) /\ ClaimOf(v)' = ClaimOf(v)
    BY <2>1, <2>2 DEF Busy, ClaimOf, Moved
  <2>5. delivered \subseteq delivered' /\ Busy(w)
    BY <2>2 DEF Moved
  <2>6. w \in Publishers => work'[w].ok \subseteq delivered'
    BY <2>2, <2>5 DEF Moved, BatchInv
  <2>7. ASSUME w \in Projectors
        PROVE  /\ \A j \in work'[w].ok : work'[w].last[log[j].task] # 0
               /\ \A t \in Tasks : work'[w].last[t] # 0 =>
                    work'[w].last[t] \in work'[w].ok /\ log[work'[w].last[t]].task = t
    <3>1. /\ \A j \in work[w].ok : work[w].last[log[j].task] # 0 /\ log[j].task \in Tasks
          /\ \A t \in Tasks : work[w].last[t] # 0 =>
               work[w].last[t] \in work[w].ok /\ log[work[w].last[t]].task = t
      BY <2>5, <2>7, LogDomain DEF BatchInv, ClaimOf
    <3>2. i # 0 /\ log[i].task \in Tasks
      BY LogDomain
    <3> QED BY <2>2, <2>7, <3>1, <3>2 DEF Moved
  <2> QED BY <2>1, <2>3, <2>4, <2>5, <2>6, <2>7 DEF BatchInv
<1>5. ASSUME NEW w \in Workers, Commit(w) \/ Rollback(w)
      PROVE  BatchInv'
  <2>1. Busy(w) /\ ~Busy(w)' /\ Others(w) /\ UNCHANGED <<log, delivered>>
    BY <1>5, EndEffect DEF Commit, Rollback
  <2>2. \A v \in Workers \ {w} : (Busy(v)' <=> Busy(v)) /\ ClaimOf(v)' = ClaimOf(v)
    BY <2>1 DEF Busy, ClaimOf
  <2>3. ASSUME NEW v \in Workers \ {w}, Busy(v), NEW i \in ClaimOf(v)
        PROVE  rows'[QueueOf(v)][i] = rows[QueueOf(v)][i]
    <3>1. i \in DOMAIN log /\ (QueueOf(v) = QueueOf(w) => i \notin ClaimOf(w))
      BY <2>1, <2>3 DEF BatchInv
    <3>2. CASE Rollback(w)
      BY <3>2 DEF Rollback
    <3>3. CASE Commit(w)
      <4>1. /\ \A q \in Queues \ {QueueOf(w)} : rows'[q] = rows[q]
            /\ \A j \in DOMAIN log : j \notin ClaimOf(w) =>
                 rows'[QueueOf(w)][j] = rows[QueueOf(w)][j]
        <5>1. QueueOf(w) \in Queues
          BY QueueNames
        <5>2. /\ \A q \in Queues \ {QueueOf(w)} : rows'[q] = rows[q]
              /\ \A j \in DOMAIN log :
                   rows'[QueueOf(w)][j] =
                     IF j \in work[w].ok THEN Done(QueueOf(w), rows[QueueOf(w)][j])
                     ELSE IF j \in work[w].bad THEN Failed(rows[QueueOf(w)][j])
                     ELSE rows[QueueOf(w)][j]
          BY <3>3, <5>1, RowEffect
        <5> QED BY <5>2 DEF ClaimOf
      <4>2. CASE QueueOf(v) = QueueOf(w)
        BY <3>1, <4>1, <4>2
      <4>3. CASE QueueOf(v) # QueueOf(w)
        <5>1. QueueOf(v) \in Queues
          BY QueueNames
        <5> QED BY <4>1, <4>3, <5>1
      <4> QED BY <4>2, <4>3
    <3> QED BY <1>5, <3>2, <3>3
  <2> QED BY <2>1, <2>2, <2>3 DEF BatchInv
<1>6. CASE \E c \in Clients : CommitAppend(c) /\ log' = log
  <2>1. UNCHANGED <<log, rows, work, delivered>>
    BY <1>6, LogSteps DEF CommitAppend
  <2> QED BY <1>1, <2>1
<1> QED BY <1>1, <1>2, <1>3, <1>4, <1>5, <1>6 DEF Next, BeginAppend, LoseAppend, Ripen,
        Rebuild, RollbackRebuild, vars

\* A claim takes the rows available in the order of the queue.
LEMMA BatchIsDense ==
  ASSUME Shape, NEW S \in SUBSET DOMAIN log, NEW i \in Batch(S), NEW j \in S, j < i
  PROVE  j \in Batch(S)
<1> DEFINE Before(k) == {m \in S : m < k}
<1>1. S \subseteq 0..Len(log) /\ Len(log) \in Nat /\ i \in Nat /\ j \in Nat /\ S \subseteq Nat
  BY LogDomain DEF Batch
<1>2. IsFiniteSet(0..Len(log))
  BY <1>1, FS_Interval
<1>3. \A k \in S : IsFiniteSet(Before(k))
  <2> SUFFICES ASSUME NEW k \in S PROVE IsFiniteSet(Before(k))
    OBVIOUS
  <2>1. Before(k) \in SUBSET (0..Len(log))
    BY <1>1
  <2> HIDE DEF Before
  <2> QED BY <1>2, <2>1, FS_Subset
<1>4. i \in S /\ Before(j) \in SUBSET Before(i)
  <2>1. i \in S
    BY DEF Batch
  <2>2. ASSUME NEW m \in S, m < j PROVE m < i
    BY <1>1, <2>2
  <2> QED BY <2>1, <2>2
<1>5. Cardinality(Before(j)) <= Cardinality(Before(i))
  <2> HIDE DEF Before
  <2> QED BY <1>3, <1>4, FS_Subset
<1>6. Cardinality(Before(i)) < BatchSize
  BY DEF Batch
<1>7. /\ Cardinality(Before(i)) \in Nat /\ Cardinality(Before(j)) \in Nat
      /\ BatchSize \in Nat
  <2> HIDE DEF Before
  <2> QED BY <1>3, <1>4, FS_CardinalityType, StoreAssumption
<1>8. Cardinality(Before(j)) < BatchSize
  <2> HIDE DEF Before
  <2> QED BY <1>5, <1>6, <1>7
<1> QED BY <1>8 DEF Batch

\* What leaves the order as it is.
LEMMA OrderKept ==
  ASSUME OrderInv, UNCHANGED log, disturbed \subseteq disturbed',
         \A t \in Tasks \ disturbed' : \A i \in EventsOf(t) :
           /\ rows'["projection"][i].status = rows["projection"][i].status
           /\ i \in Held("projection")' => i \in Held("projection")
  PROVE  OrderInv'
BY DEF OrderInv, Processed, EventsOf

LEMMA HeldKept ==
  ASSUME NEW q, NEW w \in Workers,
         \A v \in Workers \ {w} : work'[v] = work[v],
         \/ ~Busy(w)'
         \/ QueueOf(w) # q
         \/ Busy(w) /\ ClaimOf(w)' = ClaimOf(w)
  PROVE  Held(q)' \subseteq Held(q)
<1> SUFFICES ASSUME NEW i \in Held(q)' PROVE i \in Held(q)
  OBVIOUS
<1>1. PICK v \in Workers : Busy(v)' /\ QueueOf(v) = q /\ i \in ClaimOf(v)'
  BY DEF Held, ClaimOf
<1>2. Busy(v) /\ i \in ClaimOf(v)
  BY <1>1 DEF Busy, ClaimOf
<1> QED BY <1>1, <1>2, HeldBy

LEMMA OrderStep ==
  ASSUME Shape, Shape', BatchInv, OrderInv, [Next]_vars
  PROVE  OrderInv'
<1> DEFINE P == "projection"
<1>0. P \in Queues
  BY DEF Queues
<1>1. ASSUME NEW c \in Clients, CommitAppend(c), log' # log
      PROVE  OrderInv'
  <2> DEFINE n == Len(log) + 1
  <2>1. /\ DOMAIN log = 1..Len(log) /\ DOMAIN log' = 1..n /\ Len(log) \in Nat
        /\ \A i \in DOMAIN log : log'[i] = log[i] /\ rows'[P][i] = rows[P][i]
        /\ rows'[P][n].status = "pending"
    BY <1>0, <1>1, LogGrows, LogDomain DEF NewRow
  <2>2. work' = work /\ disturbed' = disturbed
    BY <1>1 DEF CommitAppend
  <2>3. Held(P)' = Held(P) /\ Held(P) \subseteq DOMAIN log
    BY <2>2, HeldBy DEF Held, Busy, ClaimOf, BatchInv
  <2> SUFFICES ASSUME NEW t \in Tasks \ disturbed, NEW i \in EventsOf(t)'
               PROVE  /\ rows'[P][i].status \in {"pending", "processed"}
                      /\ Processed(i)' \/ i \in Held(P)' =>
                           \A j \in EventsOf(t)' : j < i => Processed(j)'
    BY <2>2 DEF OrderInv
  <2>4. CASE i = n
    BY <2>1, <2>3, <2>4 DEF Processed
  <2>5. CASE i # n
    <3>1. i \in DOMAIN log /\ i \in EventsOf(t)
      BY <2>1, <2>5 DEF EventsOf
    <3>2. \A j \in EventsOf(t)' : j < i => j \in DOMAIN log /\ j \in EventsOf(t)
      BY <2>1, <3>1 DEF EventsOf
    <3> QED BY <2>1, <2>2, <2>3, <3>1, <3>2 DEF OrderInv, Processed
  <2> QED BY <2>4, <2>5
<1>2. ASSUME NEW q \in Queues, NEW k \in 1..MaxEvents, Ripen(q, k)
      PROVE  OrderInv'
  <2>1. UNCHANGED <<log, work, disturbed>> /\ Held(P)' = Held(P)
    BY <1>2 DEF Ripen, Held, Busy, ClaimOf
  <2>2. \A i \in DOMAIN log : \/ rows'[P][i] = rows[P][i]
                              \/ rows[P][i].status = "backoff"
    BY <1>0, <1>2, RowEffect
  <2>3. \A t \in Tasks \ disturbed : \A i \in EventsOf(t) :
          i \in DOMAIN log /\ rows[P][i].status # "backoff"
    BY DEF OrderInv, EventsOf
  <2> QED BY <2>1, <2>2, <2>3, OrderKept
<1>3. ASSUME NEW w \in Workers, Claim(w)
      PROVE  OrderInv'
  <2> DEFINE B == Batch(Claimable(QueueOf(w)))
  <2>1. /\ B \subseteq DOMAIN log /\ Busy(w)' /\ ClaimOf(w)' = B
        /\ \A v \in Workers \ {w} : work'[v] = work[v]
    BY <1>3, ClaimEffect
  <2>2. /\ UNCHANGED <<log, rows>>
        /\ disturbed' = disturbed \cup IF QueueOf(w) = P THEN Overlapped(B) ELSE {}
    BY <1>3 DEF Claim
  <2>3. CASE QueueOf(w) # P
    <3>1. Held(P)' \subseteq Held(P)
      BY <2>1, <2>3, HeldKept
    <3> HIDE DEF B
    <3> QED BY <2>2, <3>1, OrderKept
  <2>4. CASE QueueOf(w) = P
    <3> SUFFICES ASSUME NEW t \in Tasks \ disturbed', NEW i \in EventsOf(t)
                 PROVE  /\ rows[P][i].status \in {"pending", "processed"}
                        /\ Processed(i) \/ i \in Held(P)' =>
                             \A j \in EventsOf(t) : j < i => Processed(j)
      BY <2>2 DEF OrderInv, EventsOf, Processed
    <3>1. t \in Tasks \ disturbed /\ t \notin Overlapped(B)
      BY <2>2, <2>4
    <3>2. \A j \in EventsOf(t) : j \in DOMAIN log /\ log[j].task = t
                                 /\ rows[P][j].status \in {"pending", "processed"}
      BY <3>1 DEF OrderInv, EventsOf
    <3>3. i \in Held(P)' => i \in Held(P) \/ i \in B
      <4> SUFFICES ASSUME i \in Held(P)' PROVE i \in Held(P) \/ i \in B
        OBVIOUS
      <4>1. PICK v \in Workers : Busy(v)' /\ QueueOf(v) = P /\ i \in ClaimOf(v)'
        BY DEF Held, ClaimOf
      <4>2. v # w => Busy(v) /\ i \in ClaimOf(v)
        BY <2>1, <4>1 DEF Busy, ClaimOf
      <4> HIDE DEF B
      <4> QED BY <2>1, <4>1, <4>2, HeldBy
    <3>4. ASSUME i \in B, NEW j \in EventsOf(t), j < i
          PROVE  Processed(j)
      <4>1. i \in Nat /\ j \in Nat /\ i # j
        BY <3>2, <3>4, LogDomain
      <4>2. j \notin B /\ j \notin Held(P)
        BY <3>1, <3>2, <3>4, <4>1 DEF Overlapped
      <4>3. Claimable(P) \in SUBSET DOMAIN log
        BY <1>0, LogDomain DEF Claimable
      <4>4. j \notin Claimable(P)
        BY <2>4, <3>4, <4>2, <4>3, BatchIsDense
      <4> QED BY <1>0, <3>2, <4>2, <4>4, LogDomain DEF Claimable, Processed
    <3> HIDE DEF B
    <3> QED BY <3>1, <3>2, <3>3, <3>4 DEF OrderInv
  <2> QED BY <2>3, <2>4
<1>4. ASSUME NEW w \in Workers, Step(w)
      PROVE  OrderInv'
  <2>1. UNCHANGED <<log, rows, disturbed>>
    BY <1>4 DEF Step
  <2>2. /\ \A v \in Workers \ {w} : work'[v] = work[v]
        /\ Busy(w) /\ ClaimOf(w)' = ClaimOf(w)
    BY <1>4, StepEffect DEF Moved
  <2>3. Held(P)' \subseteq Held(P)
    BY <2>2, HeldKept
  <2> QED BY <2>1, <2>3, OrderKept
<1>5. ASSUME NEW w \in Workers, Commit(w) \/ Rollback(w)
      PROVE  OrderInv'
  <2>1. /\ Busy(w) /\ ~Busy(w)' /\ \A v \in Workers \ {w} : work'[v] = work[v]
    BY <1>5, EndEffect
  <2>2. Held(P)' \subseteq Held(P)
    BY <2>1, HeldKept
  <2>3. CASE Rollback(w)
    BY <2>2, <2>3, OrderKept DEF Rollback
  <2>4. CASE Commit(w) /\ QueueOf(w) # P
    <3>1. rows'[P] = rows[P] /\ UNCHANGED <<log, disturbed>>
      BY <1>0, <2>4, RowEffect, QueueNames DEF Commit
    <3> QED BY <2>2, <3>1, OrderKept
  <2>5. CASE Commit(w) /\ QueueOf(w) = P
    <3>1. \A i \in DOMAIN log :
            rows'[P][i] = IF i \in work[w].ok THEN Done(P, rows[P][i])
                          ELSE IF i \in work[w].bad THEN Failed(rows[P][i])
                          ELSE rows[P][i]
      BY <1>0, <2>5, RowEffect
    <3>2. UNCHANGED log /\ disturbed' = disturbed \cup {log[i].task : i \in work[w].bad}
      BY <2>5 DEF Commit
    <3>3. ClaimOf(w) \subseteq Held(P)
      BY <2>1, <2>5, HeldBy
    <3> SUFFICES ASSUME NEW t \in Tasks \ disturbed', NEW i \in EventsOf(t)
                 PROVE  /\ rows'[P][i].status \in {"pending", "processed"}
                        /\ Processed(i)' \/ i \in Held(P)' =>
                             \A j \in EventsOf(t) : j < i => Processed(j)'
      BY <3>2 DEF OrderInv, EventsOf
    <3>4. /\ i \notin work[w].bad /\ t \in Tasks \ disturbed /\ i \in DOMAIN log
      BY <3>2 DEF EventsOf
    <3>5. i \in work[w].ok => rows'[P][i].status = "processed" /\ i \in Held(P)
      <4>1. rows[P][i] \in Row
        BY <1>0, <3>4 DEF Shape
      <4> QED BY <3>1, <3>3, <3>4, <4>1 DEF Done, Row, ClaimOf
    <3>6. i \notin work[w].ok => rows'[P][i] = rows[P][i]
      BY <3>1, <3>4
    <3>7. \A j \in EventsOf(t) : Processed(j) => Processed(j)'
      <4> SUFFICES ASSUME NEW j \in EventsOf(t), Processed(j) PROVE Processed(j)'
        OBVIOUS
      <4>1. j \notin ClaimOf(w) /\ j \in DOMAIN log
        BY <2>1, <2>5 DEF BatchInv, Processed, EventsOf
      <4> QED BY <3>1, <4>1 DEF Processed, ClaimOf
    <3> QED BY <2>2, <3>4, <3>5, <3>6, <3>7 DEF OrderInv, Processed
  <2> QED BY <1>5, <2>3, <2>4, <2>5
<1>6. CASE UNCHANGED <<log, rows, work, disturbed>>
  BY <1>6 DEF OrderInv, Processed, EventsOf, Held, Busy, ClaimOf
<1>7. ASSUME NEW c \in Clients, CommitAppend(c), log' = log
      PROVE  OrderInv'
  <2>1. rows' = rows
    BY <1>7, LogSteps
  <2> QED BY <1>6, <1>7, <2>1 DEF CommitAppend
<1> QED BY <1>1, <1>2, <1>3, <1>4, <1>5, <1>6, <1>7 DEF Next, BeginAppend, LoseAppend,
        Rebuild, RollbackRebuild, vars

-----------------------------------------------------------------------------
(* The rebuild excludes the workers of the projection.                     *)

\* A row is acknowledged by the commit of a worker that has done it, and by
\* nothing else.
LEMMA Acknowledged ==
  ASSUME Shape, [Next]_vars, NEW q \in Queues, NEW s \in {"processed", "published"},
         NEW i \in DOMAIN log', rows'[q][i].status = s
  PROVE  /\ i \in DOMAIN log
         /\ \/ rows[q][i].status = s
            \/ \E w \in Workers : Commit(w) /\ QueueOf(w) = q /\ i \in work[w].ok
<1>1. ASSUME NEW c \in Clients, CommitAppend(c), log' # log
      PROVE  i \in DOMAIN log /\ rows[q][i].status = s
  <2>1. i = Len(log) + 1 => rows'[q][i].status = "pending"
    BY <1>1, LogGrows DEF NewRow
  <2>2. i \in DOMAIN log
    BY <1>1, <2>1, LogGrows, LogDomain
  <2> QED BY <1>1, <2>2, LogGrows
<1>2. ASSUME NEW w \in Workers, Commit(w)
      PROVE  /\ i \in DOMAIN log
             /\ rows[q][i].status = s \/ (QueueOf(w) = q /\ i \in work[w].ok)
  <2>1. i \in DOMAIN log
    BY <1>2 DEF Commit
  <2>2. QueueOf(w) \in Queues
    BY QueueNames
  <2>3. QueueOf(w) # q => rows'[q] = rows[q]
    BY <1>2, <2>2, RowEffect
  <2>4. QueueOf(w) = q /\ i \notin work[w].ok =>
          rows'[q][i] = rows[q][i] \/ rows'[q][i] = Failed(rows[q][i])
    BY <1>2, <2>1, <2>2, RowEffect
  <2>5. Failed(rows[q][i]).status \in {"dead_letter", "backoff"}
    BY DEF Failed
  <2> QED BY <2>1, <2>3, <2>4, <2>5
<1>3. ASSUME NEW p \in Queues, NEW j \in 1..MaxEvents, Ripen(p, j)
      PROVE  i \in DOMAIN log /\ rows[q][i].status = s
  <2>1. i \in DOMAIN log
    BY <1>3 DEF Ripen
  <2>2. p # q => rows'[q] = rows[q]
    BY <1>3, RowEffect
  <2>3. p = q => rows'[q][i] = rows[q][i] \/ rows'[q][i].status = "pending"
    BY <1>3, <2>1, RowEffect
  <2> QED BY <2>1, <2>2, <2>3
<1>4. CASE UNCHANGED <<log, rows>>
  BY <1>4
<1>5. ASSUME NEW c \in Clients, CommitAppend(c), log' = log
      PROVE  i \in DOMAIN log /\ rows[q][i].status = s
  BY <1>5, LogSteps
<1> QED BY <1>1, <1>2, <1>3, <1>4, <1>5 DEF Next, BeginAppend, LoseAppend, Claim, Step,
        Rollback, Rebuild, RollbackRebuild, vars

LEMMA TruncateFirst ==
  ASSUME NEW n \in 0..2
  PROVE  (\E k \in 1 .. n : RebuildSteps[k] = "truncate") <=> n >= 1
<1>1. RebuildSteps[1] = "truncate" /\ RebuildSteps[2] # "truncate"
  BY DEF RebuildSteps
<1>2. n >= 1 => 1 \in 1 .. n
  OBVIOUS
<1> QED BY <1>1, <1>2

\* Only what a projector has worked on at its commit makes it a hindrance.
LEMMA CommitsTouched ==
  ASSUME Shape, BatchInv, NEW w \in Projectors, Commit(w)
  PROVE  Touched(w)
<1>1. w \in Workers /\ Busy(w) /\ work[w].todo = {}
  BY DEF Commit, Workers
<1>2. ClaimOf(w) # {}
  BY <1>1 DEF BatchInv
<1> QED BY <1>1, <1>2 DEF Touched, ClaimOf

LEMMA ProjectionWorkers ==
  /\ \A w : QueueOf(w) = "projection" <=> w \in Projectors
  /\ \A w \in Workers : QueueOf(w) = "outbox" <=> w \in Publishers
BY StoreAssumption DEF QueueOf, Workers

LEMMA RebuildStep ==
  ASSUME Shape, Shape', BatchInv, RebuildInv, [Next]_vars
  PROVE  RebuildInv'
<1> DEFINE Quiet == \A w \in Projectors : Touched(w)' => Touched(w)
           Same  == \A i \in DOMAIN log' : Processed(i)' => i \in DOMAIN log /\ Processed(i)
<1>0. /\ rebuild.done \in 0..2 /\ rebuild'.done \in 0..2
      /\ Truncated <=> rebuild.done >= 1
      /\ Truncated' <=> rebuild'.done >= 1
  <2>1. rebuild.done \in 0..2 /\ rebuild'.done \in 0..2
    BY DEF Shape
  <2> QED BY <2>1, TruncateFirst DEF Truncated
<1>1. CASE rebuild' = rebuild /\ Quiet /\ Same
  <2>1. Truncated' => \A w \in Projectors : ~Touched(w)'
    BY <1>0, <1>1 DEF RebuildInv
  <2>2. rebuild'.done = 2 => \A i \in DOMAIN log' : Processed(i)' => i <= rebuild'.read
    BY <1>1 DEF RebuildInv
  <2> QED BY <2>1, <2>2 DEF RebuildInv
<1>2. ASSUME NEW w \in Projectors, Commit(w)
      PROVE  rebuild' = rebuild /\ rebuild.done = 0
  <2>1. Touched(w)
    BY <1>2, CommitsTouched
  <2>2. ~Truncated
    BY <2>1 DEF RebuildInv
  <2>3. rebuild' = rebuild
    BY <1>2 DEF Commit
  <2> QED BY <1>0, <2>2, <2>3
<1>3. (\A w \in Projectors : ~Commit(w)) => Same
  <2>1. "projection" \in Queues
    BY DEF Queues
  <2> QED BY <2>1, Acknowledged, ProjectionWorkers DEF Processed
<1>4. ASSUME NEW w \in Workers, Step(w)
      PROVE  RebuildInv'
  <2>1. PICK i \in DOMAIN log : Moved(w, i)
    BY <1>4, StepEffect
  <2>2. \A v \in Workers \ {w} : work'[v] = work[v]
    BY <1>4, StepEffect
  <2>3. UNCHANGED <<log, rows, rebuild>>
    BY <1>4 DEF Step
  <2>4. CASE w \in Projectors
    <3>1. rebuild.done = 0
      BY <1>0, <2>1, <2>4 DEF Moved
    <3> QED BY <1>0, <2>3, <3>1 DEF RebuildInv
  <2>5. CASE w \notin Projectors
    BY <1>1, <2>2, <2>3, <2>5 DEF Touched, Busy, Workers, Processed
  <2> QED BY <2>4, <2>5
<1>5. ASSUME NEW w \in Workers, Claim(w)
      PROVE  RebuildInv'
  <2>1. /\ work'[w].ok = {} /\ work'[w].bad = {}
        /\ \A v \in Workers \ {w} : work'[v] = work[v]
    BY <1>5, ClaimEffect
  <2>2. UNCHANGED <<log, rows, rebuild>>
    BY <1>5 DEF Claim
  <2> QED BY <1>1, <2>1, <2>2 DEF Touched, Busy, Workers, Processed
<1>6. ASSUME NEW w \in Workers, Commit(w) \/ Rollback(w)
      PROVE  RebuildInv'
  <2>1. ~Busy(w)' /\ \A v \in Workers \ {w} : work'[v] = work[v]
    BY <1>6, EndEffect
  <2>2. Quiet /\ rebuild' = rebuild
    BY <1>6, <2>1 DEF Touched, Busy, Workers, Commit, Rollback
  <2>3. CASE w \in Projectors /\ Commit(w)
    BY <1>0, <1>2, <2>2, <2>3 DEF RebuildInv
  <2>4. CASE w \notin Projectors /\ Commit(w)
    <3>1. QueueOf(w) \in Queues /\ "projection" \in Queues /\ QueueOf(w) # "projection"
      BY <2>4, ProjectionWorkers, QueueNames DEF Queues
    <3>2. rows'["projection"] = rows["projection"] /\ log' = log
      BY <2>4, <3>1, RowEffect DEF Commit
    <3> QED BY <1>1, <2>2, <3>2 DEF Processed
  <2>5. CASE Rollback(w)
    BY <1>1, <2>2, <2>5 DEF Processed, Rollback
  <2> QED BY <1>6, <2>3, <2>4, <2>5
<1>7. CASE UNCHANGED <<work, rebuild>>
  <2>1. \A w \in Projectors : ~Commit(w)
    <3> SUFFICES ASSUME NEW w \in Projectors, Commit(w) PROVE FALSE
      OBVIOUS
    <3>1. w \in Workers
      BY DEF Workers
    <3> QED BY <1>7, <3>1, EndEffect DEF Busy
  <2> QED BY <1>1, <1>3, <1>7, <2>1 DEF Touched, Busy
<1>8. CASE Rebuild \/ RollbackRebuild
  <2>1. UNCHANGED <<log, rows, work>>
    BY <1>8 DEF Rebuild, RollbackRebuild
  <2>2. \A w \in Projectors : Touched(w)' <=> Touched(w)
    BY <2>1 DEF Touched, Busy
  <2>3. CASE rebuild'.done = 0
    BY <1>0, <2>3 DEF RebuildInv
  <2>4. CASE rebuild.done = 0 /\ Truncate /\ rebuild'.done = 1
    <3>1. \A w \in Projectors : ~Touched(w)
      BY <2>4 DEF Truncate
    <3> QED BY <1>0, <2>2, <2>4, <3>1 DEF RebuildInv
  <2>5. CASE rebuild.done = 1 /\ rebuild'.done = 2 /\ rebuild'.read = Len(log)
    <3>1. \A w \in Projectors : ~Touched(w)
      BY <1>0, <2>5 DEF RebuildInv
    <3>2. \A i \in DOMAIN log : i <= Len(log)
      BY LogDomain
    <3> QED BY <1>0, <2>1, <2>2, <2>5, <3>1, <3>2 DEF RebuildInv
  <2> QED BY <1>8, <2>3, <2>4, <2>5, RebuildEffect
<1> QED BY <1>4, <1>5, <1>6, <1>7, <1>8 DEF Next, BeginAppend, CommitAppend, LoseAppend,
        Ripen, vars

-----------------------------------------------------------------------------
(* Every step keeps the three properties.                                  *)

LEMMA RefusedStep ==
  ASSUME Shape, AppendInv, RefusedForForeignKey, [Next]_vars
  PROVE  RefusedForForeignKey'
<1>1. \A i \in DOMAIN log : i \in DOMAIN log' /\ log'[i] = log[i]
  BY LogSteps
<1>2. CASE refused' = refused
  BY <1>1, <1>2 DEF RefusedForForeignKey
<1>3. ASSUME NEW c \in Clients, CommitAppend(c), Collides(append[c]),
             refused' = refused \cup {[task |-> append[c].task, key |-> append[c].key]}
      PROVE  RefusedForForeignKey'
  <2>1. append[c] # <<>> /\ append[c] \in Event
    BY <1>3 DEF CommitAppend, Shape
  <2>2. PICK i \in DOMAIN log : \/ log[i].key = append[c].key
                                \/ log[i].task = append[c].task /\ log[i].seq = append[c].seq
    BY <1>3 DEF Collides
  <2>3. i \in EventsOf(append[c].task) =>
          log[i].seq < append[c].seq /\ log[i].key # append[c].key
    BY <2>1 DEF AppendInv
  <2>4. log[i].seq \in Int /\ append[c].seq \in Int
    BY <2>1, LogDomain DEF Event
  <2>5. log[i].key = append[c].key /\ log[i].task # append[c].task
    BY <2>2, <2>3, <2>4 DEF EventsOf
  <2> QED BY <1>1, <1>3, <2>5 DEF RefusedForForeignKey
<1>4. (\E c \in Clients : CommitAppend(c)) \/ refused' = refused
  BY DEF Next, BeginAppend, LoseAppend, Claim, Step, Commit, Rollback, Ripen, Rebuild,
     RollbackRebuild, vars
<1> QED BY <1>2, <1>3, <1>4 DEF CommitAppend

\* What is delivered stays delivered; the history is written by projectors
\* and by the rebuild.
LEMMA EffectsGrow ==
  ASSUME Shape, [Next]_vars
  PROVE  /\ delivered \subseteq delivered'
         /\ history \subseteq history' \/ CommitRebuild
<1>1. ASSUME NEW w \in Workers, Step(w)
      PROVE  delivered \subseteq delivered' /\ history' = history
  BY <1>1, StepEffect DEF Moved, Step
<1>2. ASSUME NEW w \in Workers, Commit(w)
      PROVE  delivered' = delivered /\ history \subseteq history'
  BY <1>2 DEF Commit
<1> QED BY <1>1, <1>2 DEF Next, BeginAppend, CommitAppend, LoseAppend, Claim, Rollback, Ripen,
        Rebuild, Truncate, ReadEvents, RollbackRebuild, vars

LEMMA AckedStep ==
  ASSUME Shape, BatchInv, RebuildInv, AckedHasEffect, [Next]_vars
  PROVE  AckedHasEffect'
<1>0. "projection" \in Queues /\ "outbox" \in Queues
  BY DEF Queues
<1>1. ASSUME NEW i \in DOMAIN log', rows'["projection"][i].status = "processed"
      PROVE  i \in history'
  <2>1. i \in DOMAIN log
    BY <1>0, <1>1, Acknowledged
  <2>2. CASE Processed(i)
    <3>1. i \in history
      BY <2>1, <2>2 DEF AckedHasEffect, Processed
    <3>2. CASE CommitRebuild
      <4>1. rebuild.done = 2
        BY <3>2 DEF CommitRebuild, NextStep, RebuildSteps, Shape
      <4>2. i \in 1 .. rebuild.read
        BY <2>1, <2>2, <4>1, LogDomain DEF RebuildInv, Shape
      <4> QED BY <3>2, <4>2 DEF CommitRebuild
    <3> QED BY <3>1, <3>2, EffectsGrow
  <2>3. ASSUME NEW w \in Workers, Commit(w), QueueOf(w) = "projection", i \in work[w].ok
        PROVE  i \in history'
    BY <2>3 DEF Commit
  <2> QED BY <1>0, <1>1, <2>2, <2>3, Acknowledged DEF Processed
<1>2. ASSUME NEW i \in DOMAIN log', rows'["outbox"][i].status = "published"
      PROVE  i \in delivered'
  <2>1. i \in DOMAIN log
    BY <1>0, <1>2, Acknowledged
  <2>2. CASE rows["outbox"][i].status = "published"
    BY <2>1, <2>2, EffectsGrow DEF AckedHasEffect
  <2>3. ASSUME NEW w \in Workers, Commit(w), QueueOf(w) = "outbox", i \in work[w].ok
        PROVE  i \in delivered'
    <3>1. w \in Publishers /\ Busy(w)
      BY <2>3, ProjectionWorkers DEF Commit
    <3> QED BY <2>3, <3>1, EffectsGrow DEF BatchInv
  <2> QED BY <1>0, <1>2, <2>2, <2>3, Acknowledged
<1> QED BY <1>1, <1>2 DEF AckedHasEffect

LEMMA TakenBackStep ==
  ASSUME Shape, BatchInv, OrderInv, RebuildInv, NeverTakenBack, [Next]_vars
  PROVE  NeverTakenBack'
<1>0. "projection" \in Queues
  BY DEF Queues
<1> SUFFICES ASSUME NEW t \in Tasks \ disturbed', NEW i \in EventsOf(t)', Processed(i)'
             PROVE  current'[t] >= i
  BY DEF NeverTakenBack, Processed
<1>1. /\ i \in DOMAIN log /\ i \in EventsOf(t) /\ i \in Nat
      /\ \/ Processed(i)
         \/ \E w \in Workers : Commit(w) /\ QueueOf(w) = "projection" /\ i \in work[w].ok
  <2>1. i \in DOMAIN log'
    BY DEF EventsOf
  <2>2. i \in DOMAIN log
    BY <1>0, <2>1, Acknowledged DEF Processed
  <2> QED BY <1>0, <2>1, <2>2, Acknowledged, LogSteps, LogDomain DEF Processed
<1>2. t \in Tasks \ disturbed
  BY DEF Next, BeginAppend, CommitAppend, LoseAppend, Claim, Step, Commit, Rollback, Ripen,
     Rebuild, RollbackRebuild, vars
<1>3. Processed(i) => current[t] >= i
  BY <1>1, <1>2 DEF NeverTakenBack, Processed
<1>4. ASSUME NEW w \in Workers, Commit(w), QueueOf(w) = "projection"
      PROVE  current'[t] >= i
  <2>1. /\ Busy(w) /\ w \in Projectors /\ work[w] \in Batches
        /\ current'[t] = IF work[w].last[t] = 0 THEN current[t] ELSE work[w].last[t]
    BY <1>4, ProjectionWorkers, EndEffect DEF Commit
  <2>2. ASSUME NEW v \in Workers, Commit(v)
        PROVE  v = w
    <3>1. Busy(v) /\ ~Busy(v)'
      BY <2>2, EndEffect
    <3>2. \A u \in Workers \ {w} : work'[u] = work[u]
      BY <1>4, EndEffect
    <3> QED BY <3>1, <3>2 DEF Busy
  <2>3. Processed(i) \/ i \in work[w].ok
    BY <1>1, <2>2
  <2>4. CASE work[w].last[t] = 0
    <3>1. i \notin work[w].ok
      BY <1>1, <2>1, <2>4 DEF BatchInv, EventsOf
    <3> QED BY <1>3, <2>1, <2>3, <2>4, <3>1
  <2>5. CASE work[w].last[t] # 0
    <3> DEFINE k == work[w].last[t]
    <3>1. k \in work[w].ok /\ k \in EventsOf(t) /\ k \in Nat
      BY <2>1, <2>5, <1>1, LogDomain DEF BatchInv, EventsOf, ClaimOf
    <3>2. ~Processed(k)
      BY <1>4, <2>1, <3>1 DEF BatchInv, ClaimOf, Processed
    <3>3. i \in work[w].ok => i \in Held("projection")
      BY <1>4, <2>1, HeldBy DEF ClaimOf
    <3>4. ~(k < i)
      BY <1>1, <1>2, <2>3, <3>1, <3>2, <3>3 DEF OrderInv
    <3> QED BY <1>1, <2>1, <2>5, <3>1, <3>4
  <2> QED BY <2>4, <2>5
<1>5. CASE CommitRebuild /\ Processed(i)
  <2>1. rebuild.done = 2 /\ rebuild.read \in Nat
    BY <1>5, LogDomain DEF CommitRebuild, NextStep, RebuildSteps, Shape
  <2>2. i <= rebuild.read
    BY <1>1, <1>5, <2>1 DEF RebuildInv
  <2>3. current'[t] = Newest(EventsOf(t) \cap 1 .. rebuild.read)
    BY <1>5 DEF CommitRebuild
  <2>4. i <= Newest(EventsOf(t) \cap 1 .. rebuild.read)
    BY <1>1, <2>1, <2>2, NewestEvent
  <2>5. Newest(EventsOf(t) \cap 1 .. rebuild.read) \in Nat
    BY <2>1, NewestEvent
  <2> QED BY <1>1, <2>3, <2>4, <2>5
<1>6. ASSUME NEW w \in Workers, Commit(w), QueueOf(w) # "projection"
      PROVE  current' = current
  BY <1>6 DEF Commit
<1>7. \/ current' = current \/ CommitRebuild
      \/ \E w \in Workers : Commit(w) /\ QueueOf(w) = "projection"
  BY <1>6 DEF Next, BeginAppend, CommitAppend, LoseAppend, Claim, Step, Rollback, Ripen,
     Rebuild, Truncate, ReadEvents, RollbackRebuild, vars
<1> QED BY <1>1, <1>3, <1>4, <1>5, <1>7

-----------------------------------------------------------------------------
(* The theorems.                                                           *)

StoreInv == /\ Shape /\ AppendInv /\ BatchInv /\ OrderInv /\ RebuildInv
            /\ RefusedForForeignKey /\ AckedHasEffect /\ NeverTakenBack

LEMMA StoreInit == Init => StoreInv
<1> SUFFICES ASSUME Init PROVE StoreInv
  OBVIOUS
<1>1. log = <<>> /\ DOMAIN log = {} /\ Len(log) = 0 /\ log \in Seq(Event)
  BY EmptySeq DEF Init
<1>2. Shape
  BY <1>1 DEF Init, Shape
<1>3. AppendInv
  BY <1>1 DEF Init, AppendInv
<1>4. BatchInv
  BY DEF Init, BatchInv, Busy
<1>5. OrderInv /\ NeverTakenBack
  BY <1>1 DEF OrderInv, NeverTakenBack, EventsOf
<1>6. RebuildInv
  <2>1. ~Truncated /\ rebuild.done = 0
    BY DEF Init, Truncated
  <2> QED BY <2>1 DEF RebuildInv
<1>7. RefusedForForeignKey /\ AckedHasEffect
  BY <1>1 DEF Init, RefusedForForeignKey, AckedHasEffect
<1> QED BY <1>2, <1>3, <1>4, <1>5, <1>6, <1>7 DEF StoreInv

LEMMA StoreStep == StoreInv /\ [Next]_vars => StoreInv'
<1> SUFFICES ASSUME StoreInv, [Next]_vars PROVE StoreInv'
  OBVIOUS
<1>1. /\ Shape /\ AppendInv /\ BatchInv /\ OrderInv /\ RebuildInv
      /\ RefusedForForeignKey /\ AckedHasEffect /\ NeverTakenBack
  BY DEF StoreInv
<1>2. Shape'
  BY <1>1, ShapeStep
<1>3. AppendInv' /\ BatchInv' /\ OrderInv' /\ RebuildInv'
  BY <1>1, <1>2, AppendStep, BatchStep, OrderStep, RebuildStep
<1>4. RefusedForForeignKey' /\ AckedHasEffect' /\ NeverTakenBack'
  BY <1>1, RefusedStep, AckedStep, TakenBackStep
<1> QED BY <1>2, <1>3, <1>4 DEF StoreInv

\* The store's variables keep their types and the transactions their order:
\* the advisory lock gives a task one append at a time, SKIP LOCKED a row one
\* worker, and the batches taken in the order of the queue process a task's
\* events one after the other (postgres.js, postgres-base.js).
THEOREM StoreInvariant == Spec => []StoreInv
BY StoreInit, StoreStep, PTL DEF Spec

\* An append is refused only when another task has taken its key meanwhile:
\* the task's own events can give it neither a used number nor a used key.
THEOREM RefusedOnlyForForeignKey == Spec => []RefusedForForeignKey
<1>1. StoreInv => RefusedForForeignKey
  BY DEF StoreInv
<1> QED BY <1>1, StoreInvariant, PTL

\* What is acknowledged was done and stays done: a processed event is in the
\* history through every rebuild and rollback, a published one was delivered.
THEOREM AcknowledgedStays == Spec => []AckedHasEffect
<1>1. StoreInv => AckedHasEffect
  BY DEF StoreInv
<1> QED BY <1>1, StoreInvariant, PTL

\* The projected row of a task whose events were applied one by one is never
\* older than its newest processed event, whatever the workers and the rebuild do.
THEOREM ProjectionNotTakenBack == Spec => []NeverTakenBack
<1>1. StoreInv => NeverTakenBack
  BY DEF StoreInv
<1> QED BY <1>1, StoreInvariant, PTL

-----------------------------------------------------------------------------
(* What the store promises its readers beside the three properties.        *)

\* The events of a task are numbered 1, 2, ... in the order of the log, with
\* no number left out or used twice, and no key names two events: a rollback
\* of an append and a refused one leave no gap (postgres.js, the numbers are
\* taken under the advisory lock).
NumberedInOrder ==
  \A j \in DOMAIN log :
    /\ \A i \in 1 .. j - 1 : /\ log[i].key # log[j].key
                             /\ log[i].task = log[j].task => log[i].seq < log[j].seq
    /\ \/ log[j].seq = 1
       \/ \E i \in 1 .. j - 1 : log[i].task = log[j].task /\ log[i].seq = log[j].seq - 1

\* The number an append is about to use follows one that is in the log.
NumberInv ==
  /\ NumberedInOrder
  /\ \A c \in Clients : append[c] # <<>> =>
       \/ append[c].seq = 1
       \/ \E i \in EventsOf(append[c].task) : log[i].seq = append[c].seq - 1

LEMMA NumberStep ==
  ASSUME Shape, AppendInv, NumberInv, [Next]_vars
  PROVE  NumberInv'
<1>0. DOMAIN log = 1 .. Len(log) /\ Len(log) \in Nat
  BY LogDomain
<1>1. ASSUME NEW c \in Clients, NEW r \in Requests, BeginAppend(c, r)
      PROVE  NumberInv'
  <2> DEFINE S == {log[i].seq : i \in EventsOf(r.task)}
             e == [task |-> r.task, key |-> r.key, seq |-> 1 + Newest(S)]
  <2>1. UNCHANGED log /\ append' = [append EXCEPT ![c] = e]
    BY <1>1 DEF BeginAppend
  <2>2. S \in SUBSET (0 .. Len(log))
    BY <1>0, LogDomain DEF EventsOf, AppendInv, Event
  <2>3. Newest(S) \in 0 .. Len(log) /\ (S # {} => Newest(S) \in S)
    <3> HIDE DEF S
    <3> QED BY <1>0, <2>2, NewestIsGreatest
  <2>4. S = {} => Newest(S) = 0
    BY DEF Newest
  <2> DEFINE m == Newest(S)
  <2> HIDE DEF m
  <2>5. e.task = r.task /\ e.seq = 1 + m
    BY DEF m
  <2>6. e.seq = 1 \/ \E i \in EventsOf(e.task) : log[i].seq = e.seq - 1
    <3>1. CASE S = {}
      BY <2>4, <2>5, <3>1 DEF m
    <3>2. CASE S # {}
      <4>1. m \in S /\ m \in Nat
        <5> HIDE DEF S
        <5> QED BY <1>0, <2>3, <3>2 DEF m
      <4>2. PICK i \in EventsOf(r.task) : log[i].seq = m
        BY <4>1
      <4> HIDE DEF e
      <4> QED BY <2>5, <4>1, <4>2
    <3> QED BY <3>1, <3>2
  <2> HIDE DEF e
  <2>7. append'[c] = e /\ \A d \in Clients \ {c} : append'[d] = append[d]
    BY <2>1 DEF Shape
  <2> QED BY <2>1, <2>6, <2>7 DEF NumberInv, NumberedInOrder, EventsOf
<1>2. ASSUME NEW c \in Clients, CommitAppend(c), log' # log
      PROVE  NumberInv'
  <2> DEFINE n == Len(log) + 1
             e == append[c]
  <2>1. /\ DOMAIN log' = 1 .. n /\ log'[n] = e /\ e \in Event
        /\ \A i \in DOMAIN log : log'[i] = log[i]
        /\ ~Collides(e)
    BY <1>2, LogGrows
  <2>2. e # <<>> /\ append' = [append EXCEPT ![c] = <<>>]
    BY <1>2 DEF CommitAppend
  <2>3. \A i \in DOMAIN log : /\ log[i].key # e.key
                              /\ log[i].task = e.task => log[i].seq < e.seq
    BY <2>1, <2>2 DEF AppendInv, Collides, EventsOf
  <2>4. e.seq = 1 \/ \E i \in DOMAIN log : log[i].task = e.task /\ log[i].seq = e.seq - 1
    BY <2>2 DEF NumberInv, EventsOf
  <2>5. ASSUME NEW j \in DOMAIN log'
        PROVE  /\ \A i \in 1 .. j - 1 : /\ log'[i].key # log'[j].key
                                        /\ log'[i].task = log'[j].task => log'[i].seq < log'[j].seq
               /\ \/ log'[j].seq = 1
                  \/ \E i \in 1 .. j - 1 : log'[i].task = log'[j].task /\ log'[i].seq = log'[j].seq - 1
    <3>1. CASE j = n
      <4>1. 1 .. j - 1 = DOMAIN log
        BY <1>0, <3>1
      <4> QED BY <2>1, <2>3, <2>4, <3>1, <4>1
    <3>2. CASE j # n
      <4>1. j \in DOMAIN log /\ 1 .. j - 1 \subseteq DOMAIN log
        BY <1>0, <2>1, <3>2
      <4>2. log'[j] = log[j] /\ \A i \in 1 .. j - 1 : log'[i] = log[i]
        BY <2>1, <4>1
      <4>3. /\ \A i \in 1 .. j - 1 : /\ log[i].key # log[j].key
                                     /\ log[i].task = log[j].task => log[i].seq < log[j].seq
            /\ \/ log[j].seq = 1
               \/ \E i \in 1 .. j - 1 : log[i].task = log[j].task /\ log[i].seq = log[j].seq - 1
        BY <4>1 DEF NumberInv, NumberedInOrder
      <4> QED BY <4>2, <4>3
    <3> QED BY <3>1, <3>2
  <2>6. ASSUME NEW d \in Clients, append'[d] # <<>>
        PROVE  \/ append'[d].seq = 1
               \/ \E i \in EventsOf(append[d].task)' : log'[i].seq = append'[d].seq - 1
    <3>1. append'[d] = append[d] /\ append[d] # <<>>
      BY <2>2, <2>6 DEF Shape
    <3>2. append[d].seq = 1 \/ \E i \in EventsOf(append[d].task) : log[i].seq = append[d].seq - 1
      BY <3>1 DEF NumberInv
    <3>3. ASSUME NEW i \in EventsOf(append[d].task)
          PROVE  log'[i] = log[i] /\ i \in DOMAIN log' /\ log'[i].task = append'[d].task
      BY <1>0, <2>1, <3>1 DEF EventsOf
    <3> QED BY <3>1, <3>2, <3>3 DEF EventsOf
  <2> QED BY <2>5, <2>6 DEF NumberInv, NumberedInOrder
<1>3. CASE UNCHANGED log /\ \A c \in Clients : append'[c] \in {append[c], <<>>}
  BY <1>3 DEF NumberInv, NumberedInOrder, EventsOf
<1>4. ASSUME NEW c \in Clients, LoseAppend(c) \/ CommitAppend(c)
      PROVE  \A d \in Clients : append'[d] \in {append[d], <<>>}
  BY <1>4 DEF LoseAppend, CommitAppend, Shape
<1> QED BY <1>1, <1>2, <1>3, <1>4 DEF Next, LoseAppend, Claim, Step, Commit, Rollback, Ripen,
        Rebuild, RollbackRebuild, vars

\* The numbers of a task's events are dense and in order, and keys are unique.
THEOREM EventsAreNumbered == Spec => []NumberedInOrder
<1>1. Init => NumberInv
  <2> SUFFICES ASSUME Init PROVE NumberInv
    OBVIOUS
  <2>1. DOMAIN log = {} /\ \A c \in Clients : append[c] = <<>>
    BY DEF Init
  <2> QED BY <2>1 DEF NumberInv, NumberedInOrder
<1>2. StoreInv /\ NumberInv /\ [Next]_vars => NumberInv'
  BY NumberStep DEF StoreInv
<1>3. NumberInv => NumberedInOrder
  BY DEF NumberInv
<1> QED BY <1>1, <1>2, <1>3, StoreInvariant, PTL DEF Spec

\* A row is given up exactly when its attempts are used up.
AttemptsCounted ==
  \A q \in Queues : \A i \in DOMAIN log :
    IF rows[q][i].status = "dead_letter" THEN rows[q][i].attempts = MaxAttempts
                                         ELSE rows[q][i].attempts < MaxAttempts

\* A row that was acknowledged or given up is never touched again: no worker
\* that still holds it commits over it (postgres-base.js, the claim looks at
\* pending rows only, and SKIP LOCKED leaves a row to one worker).
SettledRowsStay ==
  [][\A q \in Queues : \A i \in DOMAIN log :
       rows[q][i].status \in {"processed", "published", "dead_letter"} =>
         rows'[q][i] = rows[q][i]]_vars

\* What a step may make of a row: only a worker that holds it acknowledges it
\* or counts a failure.
LEMMA RowMoves ==
  ASSUME Shape, BatchInv, [Next]_vars, NEW q \in Queues, NEW i \in DOMAIN log
  PROVE  \/ rows'[q][i] = rows[q][i]
         \/ /\ rows[q][i].status = "pending"
            /\ rows'[q][i] \in {Done(q, rows[q][i]), Failed(rows[q][i])}
         \/ /\ rows[q][i].status = "backoff" /\ rows'[q][i].status = "pending"
            /\ rows'[q][i].attempts = rows[q][i].attempts
<1>1. CASE rows' = rows
  BY <1>1
<1>2. ASSUME NEW c \in Clients, CommitAppend(c)
      PROVE  rows'[q][i] = rows[q][i]
  BY <1>2, LogGrows, LogSteps
<1>3. ASSUME NEW w \in Workers, Commit(w)
      PROVE  \/ rows'[q][i] = rows[q][i]
             \/ /\ rows[q][i].status = "pending"
                /\ rows'[q][i] \in {Done(q, rows[q][i]), Failed(rows[q][i])}
  <2>1. QueueOf(w) \in Queues /\ Busy(w)
    BY <1>3, QueueNames DEF Commit
  <2>2. CASE QueueOf(w) # q
    BY <1>3, <2>1, <2>2, RowEffect
  <2>3. CASE QueueOf(w) = q
    <3>1. rows'[q][i] = IF i \in work[w].ok THEN Done(q, rows[q][i])
                        ELSE IF i \in work[w].bad THEN Failed(rows[q][i]) ELSE rows[q][i]
      BY <1>3, <2>1, <2>3, RowEffect
    <3>2. i \in work[w].ok \cup work[w].bad => rows[q][i].status = "pending"
      BY <2>1, <2>3 DEF BatchInv, ClaimOf
    <3> QED BY <3>1, <3>2
  <2> QED BY <2>2, <2>3
<1>4. ASSUME NEW p \in Queues, NEW j \in 1..MaxEvents, Ripen(p, j)
      PROVE  \/ rows'[q][i] = rows[q][i]
             \/ /\ rows[q][i].status = "backoff" /\ rows'[q][i].status = "pending"
                /\ rows'[q][i].attempts = rows[q][i].attempts
  <2>1. rows' = [rows EXCEPT ![p][j].status = "pending"] /\ rows[p][j].status = "backoff"
        /\ j \in DOMAIN rows[p]
    BY <1>4 DEF Ripen
  <2>2. rows[q] \in [DOMAIN log -> Row] /\ rows[q][i] \in Row
    BY DEF Shape
  <2>3. CASE p = q /\ j = i
    <3> DEFINE r == rows[q][i]
               s == [r EXCEPT !.status = "pending"]
    <3>1. s.status = "pending" /\ s.attempts = r.attempts
      BY <2>2 DEF Row
    <3>2. rows'[q][i] = s
      BY <2>1, <2>2, <2>3 DEF Shape
    <3> QED BY <2>1, <2>3, <3>1, <3>2
  <2>4. CASE ~(p = q /\ j = i)
    BY <2>1, <2>2, <2>4 DEF Shape
  <2> QED BY <2>3, <2>4
<1> QED BY <1>1, <1>2, <1>3, <1>4 DEF Next, BeginAppend, LoseAppend, Claim, Step, Rollback,
        Rebuild, RollbackRebuild, vars

\* Failures are counted one by one: no row is given up early or tried again
\* after its last attempt, rollbacks and overlapping workers notwithstanding.
THEOREM AttemptsAreCounted == Spec => []AttemptsCounted
<1>1. Init => AttemptsCounted
  BY DEF Init, AttemptsCounted
<1>2. ASSUME StoreInv, AttemptsCounted, [Next]_vars PROVE AttemptsCounted'
  <2>1. Shape /\ Shape' /\ BatchInv /\ MaxAttempts \in Nat \ {0}
    BY <1>2, StoreStep, StoreAssumption DEF StoreInv
  <2> SUFFICES ASSUME NEW q \in Queues, NEW i \in DOMAIN log'
               PROVE  IF rows'[q][i].status = "dead_letter"
                      THEN rows'[q][i].attempts = MaxAttempts
                      ELSE rows'[q][i].attempts < MaxAttempts
    BY DEF AttemptsCounted
  <2>2. CASE i \notin DOMAIN log
    <3>1. PICK c \in Clients : CommitAppend(c) /\ log' # log
      BY <1>2, <2>1, <2>2, LogSteps
    <3>2. rows'[q][i] = NewRow
      BY <2>1, <2>2, <3>1, LogGrows
    <3> QED BY <2>1, <3>2 DEF NewRow
  <2>3. CASE i \in DOMAIN log
    <3> DEFINE r == rows[q][i]
    <3>1. r \in Row /\ r.attempts \in Nat
      BY <2>1, <2>3 DEF Shape, Row
    <3>2. r.status # "dead_letter" => r.attempts < MaxAttempts
      BY <1>2, <2>3 DEF AttemptsCounted
    <3>3. Done(q, r).status # "dead_letter" /\ Done(q, r).attempts = r.attempts
      BY <3>1 DEF Done, Row
    <3>4. r.status = "pending" =>
            IF Failed(r).status = "dead_letter" THEN Failed(r).attempts = MaxAttempts
                                                ELSE Failed(r).attempts < MaxAttempts
      BY <2>1, <3>1, <3>2 DEF Failed
    <3>5. IF r.status = "dead_letter" THEN r.attempts = MaxAttempts
                                      ELSE r.attempts < MaxAttempts
      BY <1>2, <2>3 DEF AttemptsCounted
    <3> QED BY <1>2, <2>1, <2>3, <3>2, <3>3, <3>4, <3>5, RowMoves
  <2> QED BY <2>2, <2>3
<1> QED BY <1>1, <1>2, StoreInvariant, PTL DEF Spec

\* No row that is settled is written again.
THEOREM SettledRowsAreFinal == Spec => SettledRowsStay
<1>1. StoreInv /\ [Next]_vars =>
        [\A q \in Queues : \A i \in DOMAIN log :
           rows[q][i].status \in {"processed", "published", "dead_letter"} =>
             rows'[q][i] = rows[q][i]]_vars
  BY RowMoves DEF StoreInv
<1> QED BY <1>1, StoreInvariant, PTL DEF Spec, SettledRowsStay

-----------------------------------------------------------------------------
(* Either queue keeps the contract of TransactionalQueue.                  *)

\* The history holds events of the log, and what a rebuild has read covers it.
HistoryInv ==
  /\ history \subseteq DOMAIN log /\ Len(log) <= MaxEvents
  /\ rebuild.done = 2 => history \subseteq 1 .. rebuild.read

LEMMA HistoryStep ==
  ASSUME Shape, BatchInv, RebuildInv, HistoryInv, [Next]_vars
  PROVE  HistoryInv'
<1>0. DOMAIN log = 1 .. Len(log) /\ Len(log) \in Nat /\ rebuild.done \in 0 .. 2
      /\ rebuild.read \in 0 .. Len(log)
  BY LogDomain DEF Shape
<1>1. ASSUME NEW c \in Clients, CommitAppend(c), log' # log
      PROVE  HistoryInv'
  <2>1. Len(log') = Len(log) + 1 /\ DOMAIN log \subseteq DOMAIN log'
    BY <1>0, <1>1, LogGrows
  <2>2. Len(log) < MaxEvents /\ UNCHANGED <<history, rebuild>>
    BY <1>1 DEF CommitAppend
  <2> QED BY <1>0, <2>1, <2>2, StoreAssumption DEF HistoryInv
<1>2. ASSUME NEW w \in Workers, Commit(w), QueueOf(w) = "projection"
      PROVE  HistoryInv'
  <2>1. w \in Projectors /\ Busy(w)
    BY <1>2, ProjectionWorkers DEF Commit
  <2>2. ~Truncated
    BY <1>2, <2>1, CommitsTouched DEF RebuildInv
  <2>3. rebuild.done # 2
    BY <1>0, <2>2, TruncateFirst DEF Truncated
  <2>4. UNCHANGED <<log, rebuild>> /\ history' = history \cup work[w].ok
    BY <1>2 DEF Commit
  <2>5. work[w].ok \subseteq DOMAIN log
    BY <2>1 DEF BatchInv, ClaimOf, Workers
  <2> QED BY <2>3, <2>4, <2>5 DEF HistoryInv
<1>3. CASE Rebuild \/ RollbackRebuild
  <2>1. log' = log
    BY <1>3 DEF Rebuild, RollbackRebuild
  <2>2. CASE CommitRebuild
    BY <1>0, <1>3, <2>1, <2>2, RebuildEffect DEF HistoryInv, CommitRebuild
  <2>3. CASE ~CommitRebuild
    <3>1. history' = history
      BY <1>3, <2>3 DEF Rebuild, Truncate, ReadEvents, RollbackRebuild
    <3>2. rebuild'.done = 2 => rebuild'.read = Len(log)
      BY <1>3, <2>3, RebuildEffect
    <3> QED BY <1>0, <2>1, <3>1, <3>2 DEF HistoryInv
  <2> QED BY <2>2, <2>3
<1>4. CASE UNCHANGED <<log, rebuild, history>>
  BY <1>4 DEF HistoryInv
<1>5. ASSUME NEW w \in Workers, Commit(w), QueueOf(w) # "projection"
      PROVE  UNCHANGED <<log, rebuild, history>>
  BY <1>5 DEF Commit
<1> QED BY <1>1, <1>2, <1>3, <1>4, <1>5 DEF Next, BeginAppend, CommitAppend, LoseAppend, Claim,
        Step, Rollback, Ripen, vars

\* The hands of the other workers stay as they are.
LEMMA OthersHands ==
  ASSUME NEW w \in Workers, \A v \in Workers \ {w} : work'[v] = work[v]
  PROVE  \A v \in Workers \ {w} : HandOf(v)' = HandOf(v)
BY DEF HandOf, Busy, ClaimOf

\* What changes of a function at one place, or nowhere.
LEMMA Statuses1 ==
  ASSUME NEW q, NEW n \in 1 .. MaxEvents,
         \A i \in 1 .. MaxEvents : i # n => StatusOf(q, i)' = StatusOf(q, i)
  PROVE  Statuses(q)' = [Statuses(q) EXCEPT ![n] = StatusOf(q, n)']
BY DEF Statuses

LEMMA StatusesSame ==
  ASSUME NEW q, \A i \in 1 .. MaxEvents : StatusOf(q, i)' = StatusOf(q, i)
  PROVE  Statuses(q)' = Statuses(q)
BY DEF Statuses

LEMMA FailuresSame ==
  ASSUME NEW q, \A i \in 1 .. MaxEvents : FailuresOf(q, i)' = FailuresOf(q, i)
  PROVE  Failures(q)' = Failures(q)
BY DEF Failures

LEMMA Hands1 ==
  ASSUME NEW q, NEW w \in WorkersOf(q),
         \A v \in Workers \ {w} : work'[v] = work[v]
  PROVE  /\ Hands(q)' = [Hands(q) EXCEPT ![w] = HandOf(w)']
         /\ Hands(q)[w] = HandOf(w)
<1>1. w \in Workers
  BY DEF WorkersOf
<1>2. \A v \in WorkersOf(q) : v # w => HandOf(v)' = HandOf(v)
  BY <1>1, OthersHands DEF WorkersOf
<1>3. WorkersOf(q)' = WorkersOf(q)
  BY DEF WorkersOf, QueueOf
<1> QED BY <1>2, <1>3 DEF Hands

LEMMA HandsSame ==
  ASSUME NEW q, \A w \in WorkersOf(q) : work'[w] = work[w]
  PROVE  Hands(q)' = Hands(q)
<1>1. WorkersOf(q)' = WorkersOf(q)
  BY DEF WorkersOf, QueueOf
<1>2. \A w \in WorkersOf(q) : HandOf(w)' = HandOf(w)
  BY DEF HandOf, Busy, ClaimOf
<1> QED BY <1>1, <1>2 DEF Hands

\* An event of the log has its row in either queue.
LEMMA RowSeen ==
  ASSUME Shape, NEW q \in Queues, NEW i
  PROVE  /\ i \in DOMAIN rows[q] <=> i \in DOMAIN log
         /\ i \in DOMAIN log => /\ rows[q][i] \in Row /\ FailuresOf(q, i) = rows[q][i].attempts
                                /\ StatusOf(q, i) = Seen(rows[q][i])
         /\ i \notin DOMAIN log => StatusOf(q, i) = "absent" /\ FailuresOf(q, i) = 0
<1>1. rows[q] \in [DOMAIN log -> Row]
  BY DEF Shape
<1> QED BY <1>1 DEF StatusOf, FailuresOf

LEMMA SeenAs ==
  ASSUME NEW r \in Row
  PROVE  /\ r.status \in {"pending", "backoff"} => Seen(r) = "waiting"
         /\ r.status \in {"processed", "published"} => Seen(r) = "acked"
         /\ r.status = "dead_letter" => Seen(r) = "dead"
BY DEF Seen

LEMMA QueueEnters ==
  ASSUME Shape, Shape', HistoryInv', NEW q \in Queues,
         NEW c \in Clients, CommitAppend(c), log' # log
  PROVE  \E i \in 1 .. MaxEvents : Queue(q)!Enter(i)
<1>0. PICK n \in Nat : n = Len(log) + 1
  BY LogDomain
<1>1. /\ DOMAIN log = 1 .. Len(log) /\ DOMAIN log' = 1 .. n /\ Len(log) \in Nat
      /\ Len(log') = n
      /\ \A i \in DOMAIN log : rows'[q][i] = rows[q][i]
      /\ rows'[q][n] = NewRow
      /\ DOMAIN rows'[q] = 1 .. n /\ DOMAIN rows[q] = 1 .. Len(log)
  BY <1>0, LogGrows, LogDomain DEF Shape
<1>2. n \in 1 .. MaxEvents /\ n \notin DOMAIN log
  BY <1>0, <1>1, StoreAssumption DEF HistoryInv
<1>3. StatusOf(q, n) = "absent" /\ StatusOf(q, n)' = "waiting"
      /\ FailuresOf(q, n)' = FailuresOf(q, n)
  <2>1. NewRow \in Row /\ NewRow.attempts = 0
    BY DEF NewRow, Row
  <2>2. Seen(NewRow) = "waiting"
    BY <2>1, SeenAs DEF NewRow
  <2>3. n \in DOMAIN rows'[q] /\ n \notin DOMAIN rows[q]
    BY <1>0, <1>1
  <2> QED BY <1>1, <2>1, <2>2, <2>3 DEF StatusOf, FailuresOf
<1>4. \A i \in 1 .. MaxEvents : i # n =>
        StatusOf(q, i)' = StatusOf(q, i) /\ FailuresOf(q, i)' = FailuresOf(q, i)
  <2> SUFFICES ASSUME NEW i \in 1 .. MaxEvents, i # n
               PROVE  StatusOf(q, i)' = StatusOf(q, i) /\ FailuresOf(q, i)' = FailuresOf(q, i)
    OBVIOUS
  <2>1. i \in DOMAIN rows'[q] <=> i \in DOMAIN rows[q]
    BY <1>0, <1>1
  <2>2. i \in DOMAIN rows[q] => rows'[q][i] = rows[q][i]
    BY <1>1
  <2> QED BY <2>1, <2>2 DEF StatusOf, FailuresOf
<1>5. Statuses(q)' = [Statuses(q) EXCEPT ![n] = "waiting"] /\ Statuses(q)[n] = "absent"
  <2>1. Statuses(q)[n] = StatusOf(q, n)
    BY <1>2 DEF Statuses
  <2> QED BY <1>2, <1>3, <1>4, <2>1, Statuses1
<1>6. Failures(q)' = Failures(q)
  BY <1>3, <1>4, FailuresSame
<1>7. Hands(q)' = Hands(q) /\ EffectsOf(q)' = EffectsOf(q)
  BY HandsSame DEF CommitAppend, EffectsOf
<1>8. Queue(q)!Enter(n)
  BY <1>5, <1>6, <1>7 DEF Queue!Enter
<1> QED BY <1>2, <1>8

LEMMA QueueTakes ==
  ASSUME Shape, HistoryInv, NEW q \in Queues, NEW w \in WorkersOf(q), Claim(w)
  PROVE  \E S \in SUBSET (1 .. MaxEvents) : Queue(q)!Take(w, S)
<1> DEFINE B == Batch(Claimable(q))
<1>1. w \in Workers /\ QueueOf(w) = q
  BY DEF WorkersOf
<1>2. /\ ~Busy(w) /\ B # {} /\ B \subseteq DOMAIN log /\ Busy(w)' /\ ClaimOf(w)' = B
      /\ \A v \in Workers \ {w} : work'[v] = work[v]
  BY <1>1, ClaimEffect
<1>3. \A i \in B : rows[q][i].status = "pending" /\ i \notin Held(q)
  BY DEF Batch, Claimable
<1>4. B \in SUBSET (1 .. MaxEvents)
  <2>1. DOMAIN log \subseteq 1 .. MaxEvents
    BY LogDomain, StoreAssumption DEF HistoryInv
  <2> QED BY <1>2, <2>1
<1> HIDE DEF B
<1>5. ASSUME NEW i \in B
      PROVE  Statuses(q)[i] = "waiting" /\ \A v \in WorkersOf(q) : i \notin Hands(q)[v]
  <2>1. Statuses(q)[i] = "waiting"
    BY <1>2, <1>3, <1>4, RowSeen, SeenAs DEF Statuses
  <2>2. \A v \in WorkersOf(q) : i \notin HandOf(v)
    BY <1>3, HeldBy DEF HandOf, WorkersOf
  <2> QED BY <2>1, <2>2 DEF Hands
<1>6. HandOf(w) = {} /\ HandOf(w)' = B
  BY <1>2 DEF HandOf
<1>7. Hands(q)' = [Hands(q) EXCEPT ![w] = B] /\ Hands(q)[w] = {}
  BY <1>2, <1>6, Hands1
<1>8. Statuses(q)' = Statuses(q) /\ Failures(q)' = Failures(q) /\ EffectsOf(q)' = EffectsOf(q)
  BY DEF Claim, Statuses, Failures, StatusOf, FailuresOf, EffectsOf
<1>9. Queue(q)!Take(w, B)
  BY <1>2, <1>5, <1>7, <1>8 DEF Queue!Take
<1> QED BY <1>4, <1>9

\* What the commit of a batch makes of a row, seen as an item.
LEMMA RowCloses ==
  ASSUME Shape, Shape', BatchInv, NEW q \in Queues, NEW w \in WorkersOf(q), Commit(w),
         NEW ok, ok = work[w].ok, NEW bad, bad = ClaimOf(w) \ ok, NEW i
  PROVE  /\ FailuresOf(q, i)' = IF i \in bad THEN FailuresOf(q, i) + 1 ELSE FailuresOf(q, i)
         /\ StatusOf(q, i)' = IF i \in ok THEN "acked"
                              ELSE IF i \in bad /\ FailuresOf(q, i)' >= MaxAttempts THEN "dead"
                              ELSE StatusOf(q, i)
<1>1. /\ w \in Workers /\ QueueOf(w) = q /\ Busy(w) /\ work[w].todo = {} /\ log' = log
      /\ ClaimOf(w) \subseteq DOMAIN log /\ \A j \in ClaimOf(w) : rows[q][j].status = "pending"
  BY DEF WorkersOf, Commit, BatchInv
<1>2. ok \subseteq ClaimOf(w) /\ bad \subseteq ClaimOf(w) /\ ok \cap bad = {}
      /\ \A j \in bad : j \notin work[w].ok /\ j \in work[w].bad
  BY <1>1 DEF ClaimOf
<1>3. CASE i \notin DOMAIN log
  <2>1. i \notin ok /\ i \notin bad
    BY <1>1, <1>2, <1>3
  <2>2. i \notin DOMAIN rows[q] /\ i \notin DOMAIN rows'[q]
    BY <1>1, <1>3 DEF Shape
  <2> QED BY <2>1, <2>2 DEF StatusOf, FailuresOf
<1>4. CASE i \in DOMAIN log
  <2> DEFINE r == rows[q][i]
  <2>1. /\ i \in DOMAIN rows[q] /\ i \in DOMAIN rows'[q] /\ r \in Row
        /\ r.attempts \in Nat /\ MaxAttempts \in Nat
        /\ rows'[q][i] = IF i \in ok THEN Done(q, r)
                         ELSE IF i \in work[w].bad THEN Failed(r) ELSE r
    <3>1. rows[q] \in [DOMAIN log -> Row] /\ rows'[q] \in [DOMAIN log -> Row]
      BY <1>1 DEF Shape
    <3>2. r \in Row /\ i \in DOMAIN rows[q] /\ i \in DOMAIN rows'[q]
      BY <1>4, <3>1
    <3>3. r.attempts \in Nat /\ MaxAttempts \in Nat
      BY <3>2, StoreAssumption DEF Row
    <3>4. rows'[q][i] = IF i \in work[w].ok THEN Done(q, r)
                        ELSE IF i \in work[w].bad THEN Failed(r) ELSE r
      BY <1>1, <1>4, RowEffect
    <3> QED BY <3>2, <3>3, <3>4
  <2>2. CASE i \in ok
    <3>1. Done(q, r) \in Row /\ Done(q, r).attempts = r.attempts
          /\ Done(q, r).status \in {"processed", "published"}
      BY <2>1 DEF Done, Row
    <3>2. Seen(Done(q, r)) = "acked"
      BY <3>1, SeenAs
    <3> QED BY <1>2, <2>1, <2>2, <3>1, <3>2 DEF StatusOf, FailuresOf
  <2>3. CASE i \in bad
    <3>1. Failed(r) \in Row /\ Failed(r).attempts = r.attempts + 1
          /\ Failed(r).status = IF r.attempts + 1 >= MaxAttempts THEN "dead_letter" ELSE "backoff"
      BY <2>1 DEF Failed, Row
    <3>2. Seen(Failed(r)) = IF r.attempts + 1 >= MaxAttempts THEN "dead" ELSE "waiting"
      BY <3>1, SeenAs
    <3>3. Seen(r) = "waiting"
      BY <1>1, <1>2, <2>1, <2>3, SeenAs
    <3>4. rows'[q][i] = Failed(r) /\ i \notin ok
      BY <1>2, <2>1, <2>3
    <3> QED BY <2>1, <2>3, <3>1, <3>2, <3>3, <3>4 DEF StatusOf, FailuresOf
  <2>4. CASE i \notin ok /\ i \notin bad
    <3>1. i \notin work[w].bad
      BY <2>4 DEF ClaimOf
    <3>2. rows'[q][i] = r
      BY <2>1, <2>4, <3>1
    <3> QED BY <2>1, <2>4, <3>2 DEF StatusOf, FailuresOf
  <2> QED BY <2>2, <2>3, <2>4
<1> QED BY <1>3, <1>4

LEMMA QueueCloses ==
  ASSUME Shape, Shape', BatchInv, HistoryInv, NEW q \in Queues, NEW w \in WorkersOf(q), Commit(w)
  PROVE  \E S \in SUBSET (1 .. MaxEvents) : Queue(q)!Close(w, S)
<1>1. w \in Workers /\ QueueOf(w) = q /\ Busy(w)
  BY DEF WorkersOf, Commit
<1>2. ClaimOf(w) # {} /\ ClaimOf(w) \subseteq DOMAIN log
  BY <1>1 DEF BatchInv
<1>3. DOMAIN log \subseteq 1 .. MaxEvents
  BY LogDomain, StoreAssumption DEF HistoryInv
<1>4. PICK ok \in SUBSET (1 .. MaxEvents) : ok = work[w].ok
  BY <1>2, <1>3 DEF ClaimOf
<1>5. PICK bad \in SUBSET (1 .. MaxEvents) : bad = ClaimOf(w) \ ok
  BY <1>2, <1>3
<1>6. Hands(q)[w] = ClaimOf(w) /\ Hands(q)' = [Hands(q) EXCEPT ![w] = {}]
  <2>1. ~Busy(w)' /\ \A v \in Workers \ {w} : work'[v] = work[v]
    BY <1>1, EndEffect
  <2> QED BY <1>1, <2>1, Hands1 DEF HandOf
<1>7. ok \subseteq ClaimOf(w) /\ Hands(q)[w] \ ok = bad
  BY <1>4, <1>5, <1>6 DEF ClaimOf
<1>8. EffectsOf(q)' = EffectsOf(q) \cup ok
  <2>1. CASE q = "projection"
    BY <1>1, <1>4, <2>1 DEF Commit, EffectsOf
  <2>2. CASE q # "projection"
    <3>1. w \in Publishers /\ delivered' = delivered
      BY <1>1, <2>2, ProjectionWorkers DEF Commit, QueueOf, Workers
    <3>2. ok \subseteq delivered
      BY <1>1, <1>4, <3>1 DEF BatchInv
    <3> QED BY <2>2, <3>1, <3>2 DEF EffectsOf
  <2> QED BY <2>1, <2>2
<1>9. Failures(q)' = [i \in 1 .. MaxEvents |->
                        IF i \in bad THEN Failures(q)[i] + 1 ELSE Failures(q)[i]]
  <2>1. \A i \in 1 .. MaxEvents :
          FailuresOf(q, i)' = IF i \in bad THEN FailuresOf(q, i) + 1 ELSE FailuresOf(q, i)
    BY <1>4, <1>5, RowCloses
  <2> QED BY <2>1 DEF Failures
<1>10. Statuses(q)' = [i \in 1 .. MaxEvents |->
                         IF i \in ok THEN "acked"
                         ELSE IF i \in bad /\ Failures(q)'[i] >= MaxAttempts THEN "dead"
                         ELSE Statuses(q)[i]]
  <2>1. \A i \in 1 .. MaxEvents :
          StatusOf(q, i)' = IF i \in ok THEN "acked"
                            ELSE IF i \in bad /\ FailuresOf(q, i)' >= MaxAttempts THEN "dead"
                            ELSE StatusOf(q, i)
    BY <1>4, <1>5, RowCloses
  <2> QED BY <2>1 DEF Statuses, Failures
<1>11. Queue(q)!Close(w, ok)
  BY <1>2, <1>6, <1>7, <1>8, <1>9, <1>10 DEF Queue!Close
<1> QED BY <1>11

LEMMA QueueActs ==
  ASSUME Shape, HistoryInv, NEW q \in Queues, NEW w \in WorkersOf(q), Step(w)
  PROVE  \/ \E i \in 1 .. MaxEvents : Queue(q)!Act(w, i)
         \/ UNCHANGED Queue(q)!vars
<1>1. w \in Workers /\ QueueOf(w) = q
  BY DEF WorkersOf
<1>2. PICK i \in DOMAIN log : Moved(w, i)
  BY <1>1, StepEffect
<1>3. Hands(q)' = Hands(q) /\ Hands(q)[w] = ClaimOf(w)
  <2>1. \A v \in Workers \ {w} : work'[v] = work[v]
    BY <1>1, StepEffect
  <2>2. HandOf(w)' = HandOf(w) /\ HandOf(w) = ClaimOf(w)
    BY <1>2 DEF Moved, HandOf
  <2>3. Hands(q)' = [Hands(q) EXCEPT ![w] = HandOf(w)] /\ Hands(q)[w] = HandOf(w)
    BY <2>1, <2>2, Hands1
  <2> QED BY <2>2, <2>3 DEF Hands
<1>4. Statuses(q)' = Statuses(q) /\ Failures(q)' = Failures(q)
  BY DEF Step, Statuses, Failures, StatusOf, FailuresOf
<1>5. CASE EffectsOf(q)' = EffectsOf(q)
  BY <1>3, <1>4, <1>5 DEF Queue!vars
<1>6. CASE EffectsOf(q)' # EffectsOf(q)
  <2>1. PICK j \in DOMAIN log : j \in work[w].todo /\ delivered' \in {delivered, delivered \cup {j}}
    BY DEF Step, Apply, Deliver, FailRow
  <2>2. history' = history
    BY DEF Step
  <2>3. EffectsOf(q)' = EffectsOf(q) \cup {j}
    BY <1>6, <2>1, <2>2 DEF EffectsOf
  <2>4. j \in 1 .. MaxEvents
    BY LogDomain, StoreAssumption DEF HistoryInv
  <2>5. j \in ClaimOf(w)
    BY <2>1 DEF ClaimOf
  <2>6. Queue(q)!Act(w, j)
    BY <1>3, <1>4, <2>3, <2>5 DEF Queue!Act
  <2> QED BY <2>4, <2>6
<1> QED BY <1>5, <1>6

LEMMA QueueAbandons ==
  ASSUME Shape, BatchInv, NEW q \in Queues, NEW w \in WorkersOf(q), Rollback(w)
  PROVE  Queue(q)!Abandon(w)
<1>1. w \in Workers
  BY DEF WorkersOf
<1>2. Busy(w) /\ ~Busy(w)' /\ \A v \in Workers \ {w} : work'[v] = work[v]
  BY <1>1, EndEffect
<1>3. Hands(q)' = [Hands(q) EXCEPT ![w] = {}] /\ Hands(q)[w] # {}
  BY <1>1, <1>2, Hands1 DEF HandOf, BatchInv
<1>4. Statuses(q)' = Statuses(q) /\ Failures(q)' = Failures(q) /\ EffectsOf(q)' = EffectsOf(q)
  BY DEF Rollback, Statuses, Failures, StatusOf, FailuresOf, EffectsOf
<1> QED BY <1>3, <1>4 DEF Queue!Abandon

\* A row that becomes available again is the same item, still waiting.
LEMMA RowsUnseen ==
  ASSUME Shape, Shape', log' = log, NEW q \in Queues,
         \A i \in DOMAIN log :
           \/ rows'[q][i] = rows[q][i]
           \/ /\ rows[q][i].status = "backoff" /\ rows'[q][i].status = "pending"
              /\ rows'[q][i].attempts = rows[q][i].attempts
  PROVE  Statuses(q)' = Statuses(q) /\ Failures(q)' = Failures(q)
<1>1. rows[q] \in [DOMAIN log -> Row] /\ rows'[q] \in [DOMAIN log -> Row]
  BY DEF Shape
<1>2. ASSUME NEW i \in 1 .. MaxEvents
      PROVE  StatusOf(q, i)' = StatusOf(q, i) /\ FailuresOf(q, i)' = FailuresOf(q, i)
  <2>1. CASE i \notin DOMAIN log
    BY <1>1, <2>1 DEF StatusOf, FailuresOf
  <2>2. CASE i \in DOMAIN log
    <3>1. rows[q][i] \in Row /\ rows'[q][i] \in Row
      BY <1>1, <2>2
    <3>2. Seen(rows'[q][i]) = Seen(rows[q][i]) /\ rows'[q][i].attempts = rows[q][i].attempts
      BY <2>2, <3>1, SeenAs
    <3> QED BY <1>1, <2>2, <3>2 DEF StatusOf, FailuresOf
  <2> QED BY <2>1, <2>2
<1> QED BY <1>2, StatusesSame, FailuresSame

LEMMA QueueRipens ==
  ASSUME Shape, Shape', BatchInv, [Next]_vars, NEW q \in Queues,
         NEW p \in Queues, NEW j \in 1 .. MaxEvents, Ripen(p, j)
  PROVE  UNCHANGED Queue(q)!vars
<1>1. log' = log /\ work' = work /\ EffectsOf(q)' = EffectsOf(q)
  BY DEF Ripen, EffectsOf
<1>2. rows[p][j].status = "backoff" /\ j \in DOMAIN log
  BY RowSeen DEF Ripen
<1>3. \A i \in DOMAIN log :
        \/ rows'[q][i] = rows[q][i]
        \/ /\ rows[q][i].status = "backoff" /\ rows'[q][i].status = "pending"
           /\ rows'[q][i].attempts = rows[q][i].attempts
  <2>1. ASSUME NEW i \in DOMAIN log, rows[q][i].status = "pending"
        PROVE  rows'[q][i] = rows[q][i]
    <3>1. CASE p = q
      BY <2>1, <3>1, RowEffect
    <3>2. CASE p # q
      BY <3>2, RowEffect
    <3> QED BY <3>1, <3>2
  <2> QED BY <2>1, RowMoves
<1>4. Statuses(q)' = Statuses(q) /\ Failures(q)' = Failures(q)
  BY <1>1, <1>3, RowsUnseen
<1>5. Hands(q)' = Hands(q)
  BY <1>1, HandsSame
<1> QED BY <1>1, <1>4, <1>5 DEF Queue!vars

\* The workers of the other queue are not seen.
LEMMA QueueOfOthers ==
  ASSUME Shape, Shape', NEW q \in Queues, NEW w \in Workers, QueueOf(w) # q,
         Claim(w) \/ Step(w) \/ Commit(w) \/ Rollback(w)
  PROVE  UNCHANGED Queue(q)!vars
<1>1. \A v \in Workers \ {w} : work'[v] = work[v]
  BY ClaimEffect, StepEffect, EndEffect
<1>2. Hands(q)' = Hands(q)
  BY <1>1, HandsSame DEF WorkersOf
<1>3. log' = log
  BY DEF Claim, Step, Commit, Rollback
<1>4. rows'[q] = rows[q]
  <2>1. CASE Commit(w)
    BY <2>1, QueueNames, RowEffect
  <2>2. CASE ~Commit(w)
    BY <2>2 DEF Claim, Step, Rollback
  <2> QED BY <2>1, <2>2
<1>5. Statuses(q)' = Statuses(q) /\ Failures(q)' = Failures(q)
  BY <1>3, <1>4, RowsUnseen
<1>6. EffectsOf(q)' = EffectsOf(q)
  <2>1. CASE q = "projection"
    <3>1. history' = history
      BY <2>1 DEF Claim, Step, Commit, Rollback
    <3> QED BY <2>1, <3>1 DEF EffectsOf
  <2>2. CASE q # "projection"
    <3>1. w \in Projectors /\ w \notin Publishers
      BY <2>2, StoreAssumption DEF QueueOf, Queues
    <3>2. delivered' = delivered
      BY <3>1 DEF Claim, Step, Commit, Rollback, Apply, Deliver, FailRow
    <3> QED BY <2>2, <3>2 DEF EffectsOf
  <2> QED BY <2>1, <2>2
<1> QED BY <1>2, <1>5, <1>6 DEF Queue!vars

\* A rebuild that commits has the effects of the events it read made anew.
LEMMA QueueRedone ==
  ASSUME Shape, Shape', HistoryInv, NEW q \in Queues, Rebuild \/ RollbackRebuild
  PROVE  \/ \E S \in SUBSET (1 .. MaxEvents) : Queue(q)!Redo(S)
         \/ UNCHANGED Queue(q)!vars
<1>1. log' = log /\ rows' = rows /\ work' = work /\ delivered' = delivered
  BY DEF Rebuild, RollbackRebuild
<1>2. Statuses(q)' = Statuses(q) /\ Failures(q)' = Failures(q)
  BY <1>1, RowsUnseen
<1>3. Hands(q)' = Hands(q)
  BY <1>1, HandsSame
<1>4. CASE EffectsOf(q)' = EffectsOf(q)
  BY <1>2, <1>3, <1>4 DEF Queue!vars
<1>5. CASE EffectsOf(q)' # EffectsOf(q)
  <2>1. q = "projection" /\ history' # history
    BY <1>1, <1>5 DEF EffectsOf
  <2>2. CommitRebuild /\ rebuild.done = 2
    BY <2>1, RebuildEffect DEF Truncate, ReadEvents, RollbackRebuild
  <2>3. PICK S : S = 1 .. rebuild.read
    OBVIOUS
  <2>4. S \subseteq DOMAIN log /\ S \in SUBSET (1 .. MaxEvents)
    <3>1. rebuild.read \in 0 .. Len(log) /\ Len(log) <= MaxEvents
          /\ DOMAIN log = 1 .. Len(log) /\ Len(log) \in Nat
      BY LogDomain DEF Shape, HistoryInv
    <3> QED BY <2>3, <3>1, StoreAssumption
  <2>5. history' = history \cup S
    BY <2>2, <2>3 DEF CommitRebuild, HistoryInv
  <2>6. EffectsOf(q)' = EffectsOf(q) \cup S
    BY <2>1, <2>5 DEF EffectsOf
  <2>7. \A i \in S : Statuses(q)[i] # "absent"
    <3>1. \A r \in Row : Seen(r) # "absent"
      BY SeenAs DEF Row
    <3> QED BY <2>4, <3>1, RowSeen DEF Statuses
  <2>8. Queue(q)!Redo(S)
    BY <1>2, <1>3, <2>6, <2>7 DEF Queue!Redo
  <2> QED BY <2>4, <2>8
<1> QED BY <1>4, <1>5

\* An append is seen when it commits its event.
LEMMA QueueUnentered ==
  ASSUME Shape, Shape', NEW q \in Queues, NEW c \in Clients,
         \/ \E r \in Requests : BeginAppend(c, r)
         \/ CommitAppend(c) /\ log' = log
         \/ LoseAppend(c)
  PROVE  UNCHANGED Queue(q)!vars
<1>1. log' = log /\ work' = work /\ EffectsOf(q)' = EffectsOf(q)
  BY DEF BeginAppend, CommitAppend, LoseAppend, EffectsOf
<1>2. \A i \in DOMAIN log : rows'[q][i] = rows[q][i]
  <2>1. CASE CommitAppend(c)
    <3>1. rows' = rows \/ log' = Append(log, append[c])
      BY <2>1 DEF CommitAppend
    <3>2. log' # Append(log, append[c])
      <4>1. append[c] \in Event
        BY <2>1 DEF CommitAppend, Shape
      <4> QED BY <1>1, <4>1, AppendProperties, LenProperties DEF Shape
    <3> QED BY <3>1, <3>2
  <2>2. CASE ~CommitAppend(c)
    BY <2>2 DEF BeginAppend, LoseAppend
  <2> QED BY <2>1, <2>2
<1>3. Statuses(q)' = Statuses(q) /\ Failures(q)' = Failures(q)
  BY <1>1, <1>2, RowsUnseen
<1>4. Hands(q)' = Hands(q)
  BY <1>1, HandsSame
<1> QED BY <1>1, <1>3, <1>4 DEF Queue!vars

LEMMA QueueInit ==
  ASSUME Init, NEW q \in Queues
  PROVE  Queue(q)!Init
<1>1. rows[q] = <<>> /\ DOMAIN rows[q] = {}
  BY DEF Init
<1>2. Statuses(q) = [i \in 1 .. MaxEvents |-> "absent"]
  BY <1>1 DEF Statuses, StatusOf
<1>3. Failures(q) = [i \in 1 .. MaxEvents |-> 0]
  BY <1>1 DEF Failures, FailuresOf
<1>4. Hands(q) = [w \in WorkersOf(q) |-> {}]
  BY DEF Init, Hands, HandOf, Busy, WorkersOf
<1>5. EffectsOf(q) = {}
  BY DEF Init, EffectsOf
<1> QED BY <1>2, <1>3, <1>4, <1>5 DEF Queue!Init

\* Every step of the store is a step of the queue or unseen by it.
LEMMA QueueStep ==
  ASSUME StoreInv, StoreInv', HistoryInv, HistoryInv', [Next]_vars, NEW q \in Queues
  PROVE  [Queue(q)!Next]_(Queue(q)!vars)
<1>0. Shape /\ Shape' /\ BatchInv
  BY DEF StoreInv
<1>1. ASSUME NEW c \in Clients, \/ \E r \in Requests : BeginAppend(c, r)
                                \/ CommitAppend(c)
                                \/ LoseAppend(c)
      PROVE  [Queue(q)!Next]_(Queue(q)!vars)
  <2>1. CASE CommitAppend(c) /\ log' # log
    BY <1>0, <2>1, QueueEnters DEF Queue!Next
  <2>2. CASE ~(CommitAppend(c) /\ log' # log)
    BY <1>0, <1>1, <2>2, QueueUnentered
  <2> QED BY <2>1, <2>2
<1>2. ASSUME NEW w \in Workers, Claim(w) \/ Step(w) \/ Commit(w) \/ Rollback(w)
      PROVE  [Queue(q)!Next]_(Queue(q)!vars)
  <2>1. CASE QueueOf(w) # q
    BY <1>0, <1>2, <2>1, QueueOfOthers
  <2>2. CASE w \in WorkersOf(q)
    <3>1. CASE Claim(w)
      BY <1>0, <2>2, <3>1, QueueTakes DEF Queue!Next
    <3>2. CASE Step(w)
      <4>1. \/ \E i \in 1 .. MaxEvents : Queue(q)!Act(w, i)
            \/ UNCHANGED Queue(q)!vars
        BY <1>0, <2>2, <3>2, QueueActs
      <4> QED BY <2>2, <4>1 DEF Queue!Next
    <3>3. CASE Commit(w)
      BY <1>0, <2>2, <3>3, QueueCloses DEF Queue!Next
    <3>4. CASE Rollback(w)
      BY <1>0, <2>2, <3>4, QueueAbandons DEF Queue!Next
    <3> QED BY <1>2, <3>1, <3>2, <3>3, <3>4
  <2> QED BY <2>1, <2>2 DEF WorkersOf
<1>3. CASE Rebuild \/ RollbackRebuild
  <2>1. \/ \E S \in SUBSET (1 .. MaxEvents) : Queue(q)!Redo(S)
        \/ UNCHANGED Queue(q)!vars
    BY <1>0, <1>3, QueueRedone
  <2> QED BY <2>1 DEF Queue!Next
<1>4. ASSUME NEW p \in Queues, NEW j \in 1 .. MaxEvents, Ripen(p, j)
      PROVE  [Queue(q)!Next]_(Queue(q)!vars)
  BY <1>0, <1>4, QueueRipens
<1>5. CASE UNCHANGED vars
  <2>1. log' = log /\ rows' = rows /\ work' = work /\ history' = history
        /\ delivered' = delivered
    BY <1>5 DEF vars
  <2>2. Statuses(q)' = Statuses(q) /\ Failures(q)' = Failures(q)
    BY <1>0, <2>1, RowsUnseen
  <2>3. Hands(q)' = Hands(q) /\ EffectsOf(q)' = EffectsOf(q)
    BY <2>1, HandsSame DEF EffectsOf
  <2> QED BY <2>2, <2>3 DEF Queue!vars
<1> QED BY <1>1, <1>2, <1>3, <1>4, <1>5 DEF Next

LEMMA HistoryHolds == Spec => []HistoryInv
<1>1. Init => HistoryInv
  <2>1. Init => history = {} /\ Len(log) = 0 /\ rebuild.done = 0
    BY EmptySeq DEF Init
  <2> QED BY <2>1, StoreAssumption DEF HistoryInv
<1>2. StoreInv /\ HistoryInv /\ [Next]_vars => HistoryInv'
  BY HistoryStep DEF StoreInv
<1> QED BY <1>1, <1>2, StoreInvariant, PTL DEF Spec

\* Claims under SKIP LOCKED, batches that commit or roll back as one, and the
\* rebuild beside them make either queue one that hands an item to one worker
\* at a time, acknowledges it only with its effect, and counts its failures.
THEOREM QueuesAreTransactional == Spec => QueuesKeepContract
<1>1. Init => Queue("projection")!Init /\ Queue("outbox")!Init
  BY QueueInit DEF Queues
<1>2. StoreInv /\ StoreInv' /\ HistoryInv /\ HistoryInv' /\ [Next]_vars =>
        [Queue("projection")!Next]_(Queue("projection")!vars)
  BY QueueStep DEF Queues
<1>3. StoreInv /\ StoreInv' /\ HistoryInv /\ HistoryInv' /\ [Next]_vars =>
        [Queue("outbox")!Next]_(Queue("outbox")!vars)
  BY QueueStep DEF Queues
<1> QED BY <1>1, <1>2, <1>3, HistoryHolds, StoreInvariant, PTL DEF Spec, QueuesKeepContract

\* The contract keeps its promise, whatever step of it a queue takes.
LEMMA PromiseKept ==
  ASSUME StoreInv, StoreInv', HistoryInv, HistoryInv', NEW q \in Queues,
         Queue(q)!Promise, [Queue(q)!Next]_(Queue(q)!vars)
  PROVE  Queue(q)!Promise'
<1> DEFINE I == 1 .. MaxEvents
           W == WorkersOf(q)
           Goal == /\ \A w \in W : \A i \in Hands(q)'[w] :
                        Statuses(q)'[i] = "waiting" /\ \A v \in W \ {w} : i \notin Hands(q)'[v]
                   /\ \A i \in I : Statuses(q)'[i] = "acked" => i \in EffectsOf(q)'
                   /\ \A i \in I : Statuses(q)'[i] = "dead" <=> Failures(q)'[i] >= MaxAttempts
<1>1. /\ DOMAIN Statuses(q) = I /\ DOMAIN Statuses(q)' = I
      /\ Failures(q) \in [I -> Nat] /\ MaxAttempts \in Nat \ {0}
      /\ DOMAIN Hands(q) = W /\ \A w \in W : Hands(q)[w] \subseteq I
  <2>1. Shape /\ BatchInv
    BY DEF StoreInv
  <2>2. \A i \in I : FailuresOf(q, i) \in Nat
    <3>1. \A r \in Row : r.attempts \in Nat
      BY DEF Row
    <3> QED BY <2>1, <3>1, RowSeen
  <2>3. \A w \in W : HandOf(w) \subseteq I
    <3>1. DOMAIN log \subseteq I
      BY <2>1, LogDomain, StoreAssumption DEF HistoryInv
    <3> QED BY <2>1, <3>1 DEF BatchInv, HandOf, WorkersOf
  <2> QED BY <2>2, <2>3, StoreAssumption DEF Statuses, Failures, Hands
<1>2. /\ \A w \in W : \A i \in Hands(q)[w] :
           Statuses(q)[i] = "waiting" /\ \A v \in W \ {w} : i \notin Hands(q)[v]
      /\ \A i \in I : Statuses(q)[i] = "acked" => i \in EffectsOf(q)
      /\ \A i \in I : Statuses(q)[i] = "dead" <=> Failures(q)[i] >= MaxAttempts
  BY DEF Queue!Promise
<1>3. SUFFICES Goal
  <2>1. WorkersOf(q)' = W
    BY DEF WorkersOf, QueueOf
  <2> QED BY <2>1 DEF Queue!Promise
<1> HIDE DEF I, W
<1>4. ASSUME NEW i \in I, Queue(q)!Enter(i) PROVE Goal
  <2>1. /\ Statuses(q)[i] = "absent" /\ Statuses(q)' = [Statuses(q) EXCEPT ![i] = "waiting"]
        /\ Failures(q)' = Failures(q) /\ Hands(q)' = Hands(q) /\ EffectsOf(q)' = EffectsOf(q)
    BY <1>4 DEF Queue!Enter
  <2> QED BY <1>1, <1>2, <2>1
<1>5. ASSUME NEW w \in W, NEW S \in SUBSET I, Queue(q)!Take(w, S) PROVE Goal
  <2>1. /\ Statuses(q)' = Statuses(q) /\ Failures(q)' = Failures(q) /\ EffectsOf(q)' = EffectsOf(q)
        /\ Hands(q)' = [Hands(q) EXCEPT ![w] = S]
        /\ \A i \in S : Statuses(q)[i] = "waiting" /\ \A v \in W : i \notin Hands(q)[v]
    BY <1>5 DEF Queue!Take, W
  <2> QED BY <1>1, <1>2, <2>1
<1>6. ASSUME NEW w \in W, NEW S \in SUBSET I, Queue(q)!Close(w, S) PROVE Goal
  <2> DEFINE bad == Hands(q)[w] \ S
  <2>1. /\ S \subseteq Hands(q)[w] /\ EffectsOf(q)' = EffectsOf(q) \cup S
        /\ Hands(q)' = [Hands(q) EXCEPT ![w] = {}]
        /\ Failures(q)' = [i \in I |-> IF i \in bad THEN Failures(q)[i] + 1 ELSE Failures(q)[i]]
        /\ Statuses(q)' = [i \in I |->
             IF i \in S THEN "acked"
             ELSE IF i \in bad /\ Failures(q)'[i] >= MaxAttempts THEN "dead"
             ELSE Statuses(q)[i]]
    BY <1>6 DEF Queue!Close, I
  <2>2. \A i \in I : i \in S \/ i \in bad => Statuses(q)[i] = "waiting"
    BY <1>2, <2>1
  <2>3. \A v \in W : \A i \in Hands(q)'[v] :
          Statuses(q)'[i] = "waiting" /\ \A u \in W \ {v} : i \notin Hands(q)'[u]
    <3> SUFFICES ASSUME NEW v \in W, NEW i \in Hands(q)'[v]
                 PROVE  Statuses(q)'[i] = "waiting" /\ \A u \in W \ {v} : i \notin Hands(q)'[u]
      OBVIOUS
    <3>1. v # w /\ i \in Hands(q)[v] /\ i \in I /\ i \notin S /\ i \notin bad
      BY <1>1, <1>2, <2>1
    <3>2. Statuses(q)'[i] = Statuses(q)[i]
      BY <2>1, <3>1
    <3> QED BY <1>1, <1>2, <2>1, <3>1, <3>2
  <2>4. \A i \in I : Statuses(q)'[i] = "acked" => i \in EffectsOf(q)'
    BY <1>2, <2>1
  <2>5. ASSUME NEW i \in I PROVE Statuses(q)'[i] = "dead" <=> Failures(q)'[i] >= MaxAttempts
    <3>1. Failures(q)[i] \in Nat /\ MaxAttempts \in Nat
      BY <1>1
    <3>2. Statuses(q)[i] = "waiting" => ~(Failures(q)[i] >= MaxAttempts)
      BY <1>2
    <3>3. Failures(q)'[i] = IF i \in bad THEN Failures(q)[i] + 1 ELSE Failures(q)[i]
      BY <2>1
    <3>4. Statuses(q)'[i] = IF i \in S THEN "acked"
                            ELSE IF i \in bad /\ Failures(q)'[i] >= MaxAttempts THEN "dead"
                            ELSE Statuses(q)[i]
      BY <2>1
    <3>5. CASE i \in S
      BY <2>2, <3>2, <3>3, <3>4, <3>5
    <3>6. CASE i \in bad
      BY <2>2, <3>3, <3>4, <3>6
    <3>7. CASE i \notin S /\ i \notin bad
      BY <1>2, <3>3, <3>4, <3>7
    <3> QED BY <3>5, <3>6, <3>7
  <2> QED BY <2>3, <2>4, <2>5
<1>7. ASSUME NEW w \in W, Queue(q)!Abandon(w) PROVE Goal
  <2>1. /\ Statuses(q)' = Statuses(q) /\ Failures(q)' = Failures(q) /\ EffectsOf(q)' = EffectsOf(q)
        /\ Hands(q)' = [Hands(q) EXCEPT ![w] = {}]
    BY <1>7 DEF Queue!Abandon
  <2> QED BY <1>1, <1>2, <2>1
<1>8. CASE \/ \E w \in W, i \in I : Queue(q)!Act(w, i)
           \/ \E S \in SUBSET I : Queue(q)!Redo(S)
           \/ UNCHANGED Queue(q)!vars
  <2>1. /\ Statuses(q)' = Statuses(q) /\ Failures(q)' = Failures(q) /\ Hands(q)' = Hands(q)
        /\ EffectsOf(q) \subseteq EffectsOf(q)'
    BY <1>8 DEF Queue!Act, Queue!Redo, Queue!vars
  <2> QED BY <1>2, <2>1
<1> QED BY <1>4, <1>5, <1>6, <1>7, <1>8 DEF Queue!Next, I, W

\* What users of a queue rely on, of either queue of the store: one worker at a
\* row, no acknowledgement without its effect, and dead letters exactly for rows
\* that have used up their attempts.
THEOREM QueuesKeepPromise ==
  Spec => [](Queue("projection")!Promise /\ Queue("outbox")!Promise)
<1>1. ASSUME Init, NEW q \in Queues PROVE Queue(q)!Promise
  <2>1. Queue(q)!Init
    BY <1>1, QueueInit
  <2>2. \A i \in 1 .. MaxEvents : Statuses(q)[i] = "absent" /\ Failures(q)[i] = 0
    BY <2>1 DEF Queue!Init
  <2>3. \A w \in WorkersOf(q) : Hands(q)[w] = {}
    BY <2>1 DEF Queue!Init
  <2> QED BY <2>2, <2>3, StoreAssumption DEF Queue!Promise
<1>2. ASSUME StoreInv, StoreInv', HistoryInv, HistoryInv', [Next]_vars, NEW q \in Queues,
             Queue(q)!Promise
      PROVE  Queue(q)!Promise'
  BY <1>2, QueueStep, PromiseKept
<1>3. Init => Queue("projection")!Promise /\ Queue("outbox")!Promise
  BY <1>1 DEF Queues
<1>4. /\ StoreInv /\ StoreInv' /\ HistoryInv /\ HistoryInv' /\ [Next]_vars
      /\ Queue("projection")!Promise /\ Queue("outbox")!Promise
      => Queue("projection")!Promise' /\ Queue("outbox")!Promise'
  BY <1>2 DEF Queues
<1> QED BY <1>3, <1>4, HistoryHolds, StoreInvariant, PTL DEF Spec
=============================================================================
