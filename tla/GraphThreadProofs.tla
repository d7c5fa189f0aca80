-------------------------- MODULE GraphThreadProofs --------------------------
(***************************************************************************)
(* That the accepted checkpoints of a thread tell one run of the           *)
(* lifecycle, for any number of calls, any gates and attempt limits, and   *)
(* any faults.  The invariant is about the call that holds the lease:      *)
(* only its steps touch the accepted checkpoint, and what it has in memory *)
(* was built on the checkpoint that is still the accepted one.             *)
(***************************************************************************)
EXTENDS GraphThread, TLAPS, FiniteSetTheorems

-----------------------------------------------------------------------------
(* The lifecycle: what executing and routing do to the state of a run.     *)
(* States keep their type, and no step leads past QA without a standing    *)
(* pass.                                                                   *)

\* The steps of GraphRun as a relation on states of the run.
LegalStep(old, new) ==
  \/ old = None /\ new = StartState
  \/ /\ old # None
     /\ \/ /\ Route(old) # "end"
           /\ \/ new \in Executed(Route(old), old)
              \/ Route(old) \in Gates /\ new = Rejected(Route(old), old)
        \/ RetryEligible(old) /\ new = Retried(old)
        \/ old.node # None /\ new = Cancelled(old)

\* What past-QA states rest on: a run that goes on from QA has a verdict.
QaInv(st) ==
  /\ st.node \in AfterQa => st.qa = "pass"
  /\ st.node = "qa" /\ st.status = "running" => st.qa \in {"pass", "fail"}

-----------------------------------------------------------------------------
(* Names.                                                                  *)

LEMMA NamesList ==
  Names = { "intake", "pm_refinement", "execution_contract", "architect_handoff",
            "child_execution", "implementation", "qa", "fix", "review",
            "merge_readiness", "deployment", "sre", "closeout", "terminal" }
  <1> DEFINE L == LIFECYCLE_NODE_NAMES
  <1>1. /\ L[1] = "intake" /\ L[2] = "pm_refinement" /\ L[3] = "execution_contract"
        /\ L[4] = "architect_handoff" /\ L[5] = "child_execution"
        /\ L[6] = "implementation" /\ L[7] = "qa" /\ L[8] = "fix" /\ L[9] = "review"
        /\ L[10] = "merge_readiness" /\ L[11] = "deployment" /\ L[12] = "sre"
        /\ L[13] = "closeout" /\ L[14] = "terminal"
    BY DEF LIFECYCLE_NODE_NAMES
  <1>2. 1..14 = {1, 2, 3, 4, 5, 6, 7, 8, 9, 10, 11, 12, 13, 14}
    OBVIOUS
  <1> HIDE DEF L
  <1>3. {L[i] : i \in 1..14} =
          {L[1], L[2], L[3], L[4], L[5], L[6], L[7], L[8], L[9], L[10], L[11],
           L[12], L[13], L[14]}
    BY <1>2
  <1> QED
    BY <1>1, <1>3 DEF Names, L

\* Each node but the last has a successor in the list, and only QA and the
\* nodes behind it have one behind QA, the fix apart.
LEMMA SuccessorNamed ==
  ASSUME NEW n \in Names \ {"terminal"}
  PROVE  /\ Successor(n) \in Names
         /\ Successor(n) \in AfterQa => n \in AfterQa \cup {"qa", "fix"}
         /\ Successor(n) # "qa" \/ n = "implementation"
  <1> DEFINE L == LIFECYCLE_NODE_NAMES
             j == CHOOSE k \in 1..14 : L[k] = n
  <1>1. /\ L[1] = "intake" /\ L[2] = "pm_refinement" /\ L[3] = "execution_contract"
        /\ L[4] = "architect_handoff" /\ L[5] = "child_execution"
        /\ L[6] = "implementation" /\ L[7] = "qa" /\ L[8] = "fix" /\ L[9] = "review"
        /\ L[10] = "merge_readiness" /\ L[11] = "deployment" /\ L[12] = "sre"
        /\ L[13] = "closeout" /\ L[14] = "terminal"
    BY DEF LIFECYCLE_NODE_NAMES
  <1>2. \E k \in 1..14 : L[k] = n
    BY DEF Names
  <1>3. Successor(n) = L[j + 1]
    BY DEF Successor
  <1> HIDE DEF L
  <1>4. j \in 1..14 /\ L[j] = n
    BY <1>2
  <1> HIDE DEF j
  <1>5. j \in 1..13
    BY <1>1, <1>4
  <1>6. \/ j = 1 \/ j = 2 \/ j = 3 \/ j = 4 \/ j = 5 \/ j = 6 \/ j = 7
        \/ j = 8 \/ j = 9 \/ j = 10 \/ j = 11 \/ j = 12 \/ j = 13
    BY <1>5
  <1> QED
    BY <1>1, <1>3, <1>4, <1>6, NamesList DEF AfterQa

LEMMA RouteNamed ==
  ASSUME NEW st \in LifecycleState
  PROVE  Route(st) \in Names \cup {"end"}
  <1>1. st.node \in Names \cup {None}
    BY DEF LifecycleState
  <1>2. {"intake", "terminal", "fix", "review", "qa"} \subseteq Names
    BY NamesList
  <1>3. CASE st.node \in {None, "terminal", "closeout"}
    BY <1>3, <1>2, LifecycleAssumption, NamesList DEF Route
  <1>4. CASE st.node \in {"qa", "fix"}
    BY <1>4, <1>2, LifecycleAssumption DEF Route, standardRoute, AfterFix
  <1>5. CASE st.node \in Names \ {"terminal", "closeout", "qa", "fix"}
    <2>1. Route(st) = standardRoute(st, Successor(st.node))
      BY <1>5, LifecycleAssumption DEF Route
    <2> QED
      BY <2>1, <1>5, <1>2, SuccessorNamed DEF standardRoute
  <1> QED
    BY <1>1, <1>3, <1>4, <1>5

-----------------------------------------------------------------------------
(* Types.                                                                  *)

LEMMA StartTyped == StartState \in LifecycleState
  BY DEF StartState, LifecycleState, TERMINAL_STATUSES

LEMMA ExecutedTyped ==
  ASSUME NEW st \in LifecycleState, NEW n \in Names, NEW new \in Executed(n, st)
  PROVE  new \in LifecycleState
  <1> DEFINE a == st.attempts[n] + 1
  <1>0. PICK o \in Outcomes(n, a) :
               \E v \in Verdicts(n, o) : new = lifecycleUpdate(n, st, o, v)
    BY DEF Executed
  <1>1. PICK v \in Verdicts(n, o) : new = lifecycleUpdate(n, st, o, v)
    BY <1>0
  <1>2. o \in {"success", "cancelled", "retry", "dead_letter", "failed"}
    BY DEF Outcomes, classifyFailure
  <1>3. v \in {"pass", "fail", None}
    BY DEF Verdicts
  <1> DEFINE p == IF Exhausted(n, st, v) THEN "dead_letter" ELSE o
  <1>4. p \in {"success", "cancelled", "retry", "dead_letter", "failed"}
    BY <1>2
  <1> HIDE DEF p
  <1>5. StatusAfter(n, st, p) \in TERMINAL_STATUSES \cup {"running", "retrying"}
    BY <1>4 DEF StatusAfter, TERMINAL_STATUSES, LifecycleState
  <1>6. QaAfter(n, st, p, v) \in {"pass", "fail", None}
    BY <1>3 DEF QaAfter, LifecycleState
  <1>7. [st.attempts EXCEPT ![n] = @ + 1] \in [Names -> Nat]
    BY DEF LifecycleState
  <1>8. new = [ node       |-> n,
                status     |-> StatusAfter(n, st, p),
                qa         |-> QaAfter(n, st, p, v),
                qaAttempts |-> IF n = "qa" THEN st.qaAttempts + 1 ELSE st.qaAttempts,
                attempts   |-> [st.attempts EXCEPT ![n] = @ + 1] ]
    BY <1>1 DEF lifecycleUpdate, p
  <1>9. (IF n = "qa" THEN st.qaAttempts + 1 ELSE st.qaAttempts) \in Nat
    BY DEF LifecycleState
  <1> QED
    BY <1>5, <1>6, <1>7, <1>8, <1>9 DEF LifecycleState

LEMMA LegalStepTyped ==
  ASSUME NEW old \in LifecycleState \cup {None}, NEW new, LegalStep(old, new)
  PROVE  new \in LifecycleState
  <1>1. CASE old = None
    BY <1>1, StartTyped DEF LegalStep
  <1>2. CASE old # None
    <2>1. old \in LifecycleState
      BY <1>2
    <2>2. CASE Route(old) # "end" /\ new \in Executed(Route(old), old)
      BY <2>1, <2>2, RouteNamed, ExecutedTyped
    <2>3. CASE Route(old) # "end" /\ new = Rejected(Route(old), old)
      <3>1. Route(old) \in Names
        BY <2>1, <2>3, RouteNamed
      <3> DEFINE n == Route(old)
      <3> HIDE DEF n
      <3>2. [old.attempts EXCEPT ![n] = @ + 1] \in [Names -> Nat]
        BY <2>1, <3>1 DEF LifecycleState, n
      <3>3. new = [old EXCEPT !.node = n, !.status = "failed", 
                              !.attempts = [old.attempts EXCEPT ![n] = @ + 1]]
        BY <2>3 DEF Rejected, n
      <3> QED
        BY <2>1, <3>1, <3>2, <3>3 DEF LifecycleState, TERMINAL_STATUSES, n
    <2>4. CASE new = Retried(old) \/ new = Cancelled(old)
      BY <2>1, <2>4 DEF Retried, Cancelled, LifecycleState, TERMINAL_STATUSES
    <2> QED
      BY <1>2, <2>2, <2>3, <2>4 DEF LegalStep
  <1> QED
    BY <1>1, <1>2

-----------------------------------------------------------------------------
(* QA.                                                                     *)

\* The router leads behind QA from behind QA, or from a QA that passed.
LEMMA RoutePastQa ==
  ASSUME NEW st \in LifecycleState, QaInv(st), Route(st) \in AfterQa
  PROVE  st.qa = "pass"
  <1>1. st.node \in Names \cup {None}
    BY DEF LifecycleState
  <1>2. st.node \notin {None, "terminal", "closeout", "fix"} \/ st.node \in AfterQa
    BY LifecycleAssumption, NamesList
       DEF Route, AfterQa, standardRoute, AfterFix
  <1>3. CASE st.node \in AfterQa
    BY <1>3 DEF QaInv
  <1>4. CASE st.node = "qa"
    <2>1. Route(st) = standardRoute(st, IF st.qa = "fail" THEN "fix" ELSE "review")
      BY <1>4, LifecycleAssumption, NamesList DEF Route
    <2>2. st.status \notin TERMINAL_STATUSES \cup {"retrying"}
      BY <2>1, <1>4 DEF standardRoute, AfterQa
    <2>3. st.status = "running"
      BY <2>2 DEF LifecycleState
    <2>4. st.qa # "fail"
      BY <2>1, <2>2 DEF standardRoute, AfterQa
    <2> QED
      BY <1>4, <2>3, <2>4 DEF QaInv
  <1>5. CASE st.node \in Names \ (AfterQa \cup {"terminal", "closeout", "qa", "fix"})
    <2>1. Route(st) = standardRoute(st, Successor(st.node))
      BY <1>5, LifecycleAssumption DEF Route
    <2>2. Successor(st.node) \notin AfterQa
      BY <1>5, SuccessorNamed
    <2> QED
      BY <2>1, <2>2, <1>5 DEF standardRoute, AfterQa
  <1> QED
    BY <1>1, <1>2, <1>3, <1>4, <1>5 DEF AfterQa

LEMMA QaStep ==
  ASSUME NEW old \in LifecycleState \cup {None}, NEW new, LegalStep(old, new),
         old # None => QaInv(old)
  PROVE  QaInv(new)
  <1>1. CASE old = None
    BY <1>1, LifecycleAssumption, NamesList DEF LegalStep, StartState, QaInv, AfterQa
  <1>2. CASE old # None
    <2>1. old \in LifecycleState /\ QaInv(old)
      BY <1>2
    <2>2. CASE Route(old) # "end" /\ new \in Executed(Route(old), old)
      <3> DEFINE n == Route(old)
      <3>1. n \in Names
        BY <2>1, <2>2, RouteNamed
      <3>2. n \in AfterQa => old.qa = "pass"
        BY <2>1, RoutePastQa
      <3> HIDE DEF n
      <3>0. PICK o \in Outcomes(n, old.attempts[n] + 1) :
                   \E v \in Verdicts(n, o) : new = lifecycleUpdate(n, old, o, v)
        BY <2>2 DEF Executed, n
      <3>3. PICK v \in Verdicts(n, o) : new = lifecycleUpdate(n, old, o, v)
        BY <3>0
      <3> DEFINE p == IF Exhausted(n, old, v) THEN "dead_letter" ELSE o
      <3>4. new.node = n /\ new.qa = QaAfter(n, old, p, v)
        BY <3>3 DEF lifecycleUpdate
      <3>5. n \in AfterQa => new.qa = old.qa
        BY <3>4 DEF QaAfter, AfterQa
      <3>6. n = "qa" => new.qa = v /\ v \in {"pass", "fail"}
        BY <3>4 DEF QaAfter, Verdicts
      <3> QED
        BY <3>2, <3>4, <3>5, <3>6 DEF QaInv
    <2>3. CASE Route(old) # "end" /\ new = Rejected(Route(old), old)
      <3>1. new.node = Route(old) /\ new.status = "failed" /\ new.qa = old.qa
        BY <2>1, <2>3 DEF Rejected, LifecycleState
      <3> QED
        BY <2>1, <3>1, RoutePastQa DEF QaInv
    <2>4. CASE new = Retried(old) \/ new = Cancelled(old)
      <3>1. new.node = old.node /\ new.qa = old.qa /\ new.status # "running"
        BY <2>1, <2>4 DEF Retried, Cancelled, LifecycleState
      <3> QED
        BY <2>1, <3>1 DEF QaInv
    <2> QED
      BY <1>2, <2>2, <2>3, <2>4 DEF LegalStep
  <1> QED
    BY <1>1, <1>2

-----------------------------------------------------------------------------
(* The thread.                                                             *)

Steps == {"idle", "bind", "acquire", "done", "dead"} \cup Running

Shape ==
  /\ thread \in [ status : Open \cup Closed \cup {"absent"},
                  owner : Calls \cup {None}, lapsed : BOOLEAN ]
  /\ head \in Checkpoint \cup {None}
  /\ stored \in Answers \cup {None}
  /\ call \in [Calls -> Call]
  /\ interrupts \subseteq Interrupt
  /\ faults \in 0..MaxFaults

OneActive == \A i, j \in interrupts : Active(i) /\ Active(j) => i = j

\* What a call has in memory at each of its steps; the call that holds the
\* lease builds on the accepted checkpoint, and leaves a closed thread alone.
LocalInv(c) ==
  /\ call[c].pc \in {"bind", "acquire"} \cup Running => call[c].kind \in Kinds
  /\ call[c].pc = "bind" => call[c].about \in Checkpoint
  /\ call[c].pc \in {"run", "settle", "note"} => call[c].at \in Checkpoint
  /\ call[c].pc = "saved" => call[c].put \in Checkpoint
  /\ call[c].pc \in {"acquire", "load"} /\ call[c].kind = "decide" => head # None
  /\ thread.owner = c =>
       /\ call[c].pc = "saved" => LegalStep(Run, call[c].put.st)
       /\ call[c].pc \in {"run", "settle"} => call[c].at = head
       /\ thread.status \in Closed => call[c].pc \in {"release", "dead"}

HeadQaInv == head # None => QaInv(head.st)

ThreadInv ==
  Shape /\ OneActive /\ (\A c \in Calls : LocalInv(c)) /\ ClosedAgrees /\ HeadQaInv

-----------------------------------------------------------------------------
(* Records of calls: what each field's update keeps.                       *)

Same(s, r) == /\ s \in Call
              /\ s.kind = r.kind /\ s.pc = r.pc /\ s.at = r.at
              /\ s.put = r.put /\ s.about = r.about

LEMMA SetPc ==
  ASSUME NEW r \in Call, NEW x \in Steps
  PROVE  LET s == [r EXCEPT !.pc = x]
         IN  /\ s \in Call /\ s.pc = x
             /\ s.kind = r.kind /\ s.at = r.at /\ s.put = r.put /\ s.about = r.about
  BY DEF Call, Steps

LEMMA SetPut ==
  ASSUME NEW r \in Call, NEW x \in Checkpoint \cup {None}
  PROVE  LET s == [r EXCEPT !.put = x]
         IN  /\ s \in Call /\ s.put = x
             /\ s.kind = r.kind /\ s.pc = r.pc /\ s.at = r.at /\ s.about = r.about
  BY DEF Call

LEMMA SetAt ==
  ASSUME NEW r \in Call, NEW x \in Checkpoint \cup {None}
  PROVE  LET s == [r EXCEPT !.at = x]
         IN  /\ s \in Call /\ s.at = x
             /\ s.kind = r.kind /\ s.pc = r.pc /\ s.put = r.put /\ s.about = r.about
  BY DEF Call

LEMMA SetAbout ==
  ASSUME NEW r \in Call, NEW x \in Checkpoint \cup {None}
  PROVE  LET s == [r EXCEPT !.about = x]
         IN  /\ s \in Call /\ s.about = x
             /\ s.kind = r.kind /\ s.pc = r.pc /\ s.at = r.at /\ s.put = r.put
  BY DEF Call

LEMMA SetKind ==
  ASSUME NEW r \in Call, NEW x \in Kinds \cup {None}
  PROVE  LET s == [r EXCEPT !.kind = x]
         IN  /\ s \in Call /\ s.kind = x
             /\ s.pc = r.pc /\ s.at = r.at /\ s.put = r.put /\ s.about = r.about
  BY DEF Call

LEMMA SetSay ==
  ASSUME NEW r \in Call, NEW x \in Answers \cup {None}
  PROVE  Same([r EXCEPT !.say = x], r)
  BY DEF Call, Same

LEMMA SetResult ==
  ASSUME NEW r \in Call, NEW x \in {"ok", "error"}
  PROVE  Same([r EXCEPT !.result = x], r)
  BY DEF Call, Same

LEMMA SetLive ==
  ASSUME NEW r \in Call, NEW x \in BOOLEAN
  PROVE  Same([r EXCEPT !.live = x], r)
  BY DEF Call, Same

LEMMA SetReply ==
  ASSUME NEW r \in Call, NEW x \in {"waiting", "ok", "error", "closed", "lost"}
  PROVE  Same([r EXCEPT !.reply = x], r)
  BY DEF Call, Same

\* The call of c becomes r, the others stay.
Becomes(c, r) ==
  /\ call' \in [Calls -> Call]
  /\ call'[c] = r
  /\ \A d \in Calls \ {c} : call'[d] = call[d]

LEMMA CallSet ==
  ASSUME Shape, NEW c \in Calls, NEW r \in Call, call' = [call EXCEPT ![c] = r]
  PROVE  Becomes(c, r)
  BY DEF Shape, Becomes

LEMMA IdleTyped == Idle \in Call
  BY DEF Idle, Call, Running

LEMMA GoStep ==
  ASSUME Shape, NEW c \in Calls, NEW pc \in Steps, call' = Go(c, pc)
  PROVE  /\ Becomes(c, call'[c])
         /\ call'[c].pc = pc
         /\ call'[c].kind = call[c].kind /\ call'[c].at = call[c].at
         /\ call'[c].put = call[c].put /\ call'[c].about = call[c].about
  <1> DEFINE s == [call[c] EXCEPT !.pc = pc]
  <1>1. call[c] \in Call
    BY DEF Shape
  <1>2. call' = [call EXCEPT ![c] = s]
    BY DEF Go, Shape
  <1>3. /\ s \in Call /\ s.pc = pc /\ s.kind = call[c].kind /\ s.at = call[c].at
        /\ s.put = call[c].put /\ s.about = call[c].about
    BY <1>1, SetPc
  <1> HIDE DEF s
  <1>4. Becomes(c, s)
    BY <1>2, <1>3, CallSet
  <1> QED
    BY <1>3, <1>4 DEF Becomes

LEMMA FailsStep ==
  ASSUME Shape, NEW c \in Calls, call' = Fails(c)
  PROVE  /\ Becomes(c, call'[c])
         /\ call'[c].pc = "failing" /\ call'[c].kind = call[c].kind
  <1> DEFINE r1 == [call[c] EXCEPT !.pc = "failing"]
             r2 == [r1 EXCEPT !.result = "error"]
             r3 == [r2 EXCEPT !.put = None]
  <1>1. call[c] \in Call
    BY DEF Shape
  <1>2. call' = [call EXCEPT ![c] = r3]
    BY DEF Fails, Shape
  <1>3. r1 \in Call /\ r1.pc = "failing" /\ r1.kind = call[c].kind
    BY <1>1, SetPc DEF Steps, Running
  <1> HIDE DEF r1
  <1>4. r2 \in Call /\ r2.pc = "failing" /\ r2.kind = call[c].kind
    BY <1>3, SetResult DEF Same
  <1> HIDE DEF r2
  <1>5. r3 \in Call /\ r3.pc = "failing" /\ r3.kind = call[c].kind
    BY <1>4, SetPut
  <1> HIDE DEF r3
  <1>6. Becomes(c, r3)
    BY <1>2, <1>5, CallSet
  <1> QED
    BY <1>5, <1>6 DEF Becomes

LEMMA OverStep ==
  ASSUME Shape, NEW c \in Calls, NEW pc \in Steps,
         NEW reply \in {"waiting", "ok", "error", "closed", "lost"},
         call' = Over(c, pc, reply)
  PROVE  /\ Becomes(c, call'[c])
         /\ call'[c].pc = pc /\ call'[c].kind = call[c].kind
  <1> DEFINE k  == call[c].kind
             r1 == [Idle EXCEPT !.kind = k]
             r2 == [r1 EXCEPT !.pc = pc]
             r3 == [r2 EXCEPT !.reply = reply]
  <1>1. k \in Kinds \cup {None}
    BY DEF Shape, Call
  <1>2. call' = [call EXCEPT ![c] = r3]
    BY DEF Over
  <1> HIDE DEF k
  <1>3. r1 \in Call /\ r1.kind = k
    BY <1>1, IdleTyped, SetKind
  <1> HIDE DEF r1
  <1>4. r2 \in Call /\ r2.kind = k /\ r2.pc = pc
    BY <1>3, SetPc
  <1> HIDE DEF r2
  <1>5. r3 \in Call /\ r3.kind = k /\ r3.pc = pc
    BY <1>4, SetReply DEF Same
  <1> HIDE DEF r3
  <1>6. Becomes(c, r3)
    BY <1>2, <1>5, CallSet
  <1> QED
    BY <1>5, <1>6 DEF Becomes, k

LEMMA SavesStep ==
  ASSUME Shape, NEW c \in Calls, NEW st \in LifecycleState, Saves(c, st)
  PROVE  /\ Becomes(c, call'[c])
         /\ call'[c].pc = "saved" /\ call'[c].kind = call[c].kind
         /\ call'[c].put \in Checkpoint /\ call'[c].put.st = st
  <1> DEFINE k  == Following(c, st)
  <1>1. (IF head = None THEN 1 ELSE head.nth + 1) \in Nat
    BY DEF Shape, Checkpoint
  <1>2. k \in Checkpoint /\ k.st = st
    BY <1>1 DEF Following, Checkpoint
  <1>3. call' = [call EXCEPT ![c].pc = "saved", ![c].put = k, ![c].say = None]
    BY DEF Saves
  <1> HIDE DEF k
  <1> DEFINE r1 == [call[c] EXCEPT !.pc = "saved"]
             r2 == [r1 EXCEPT !.put = k]
             r3 == [r2 EXCEPT !.say = None]
  <1>4. call' = [call EXCEPT ![c] = r3]
    BY <1>3 DEF Shape
  <1>5. call[c] \in Call
    BY DEF Shape
  <1>6. r1 \in Call /\ r1.pc = "saved" /\ r1.kind = call[c].kind
    BY <1>5, SetPc DEF Steps, Running
  <1> HIDE DEF r1
  <1>7. r2 \in Call /\ r2.pc = "saved" /\ r2.kind = call[c].kind /\ r2.put = k
    BY <1>2, <1>6, SetPut
  <1> HIDE DEF r2
  <1>8. r3 \in Call /\ r3.pc = "saved" /\ r3.kind = call[c].kind /\ r3.put = k
    BY <1>7, SetSay DEF Same
  <1> HIDE DEF r3
  <1>9. Becomes(c, r3)
    BY <1>4, <1>8, CallSet
  <1> QED
    BY <1>2, <1>8, <1>9 DEF Becomes

-----------------------------------------------------------------------------
LEMMA RunTyped ==
  ASSUME Shape
  PROVE  /\ Run \in LifecycleState \cup {None}
         /\ head = None <=> Run = None
         /\ head # None => Run = head.st
  BY ThreadAssumption, LifecycleAssumption DEF Shape, Run, Checkpoint

\* A step of c keeps the invariant of another call, if the lease is not that
\* call's or nothing it relies on has changed.
LEMMA OthersKeep ==
  ASSUME NEW d \in Calls, LocalInv(d), call'[d] = call[d],
         head # None => head' # None,
         thread'.owner = d => /\ thread.owner = d /\ head' = head
                              /\ thread'.status \in Closed => thread.status \in Closed
  PROVE  LocalInv(d)'
  BY DEF LocalInv, Run

\* A step of c that leaves the accepted checkpoint and the status alone.
LEMMA CalmStep ==
  ASSUME ThreadInv, NEW c \in Calls, Shape', OneActive', Becomes(c, call'[c]),
         LocalInv(c)', head' = head,
         thread'.owner \in {thread.owner, c, None},
         thread'.status = thread.status \/ thread'.status \notin Closed
  PROVE  ThreadInv'
  <1>1. \A d \in Calls \ {c} : LocalInv(d)'
    BY ThreadAssumption, OthersKeep DEF ThreadInv, Becomes
  <1>2. ClosedAgrees'
    BY DEF ThreadInv, ClosedAgrees
  <1>3. HeadQaInv'
    BY DEF ThreadInv, HeadQaInv
  <1> QED
    BY <1>1, <1>2, <1>3 DEF ThreadInv

-----------------------------------------------------------------------------
(* The actions that leave the accepted checkpoint alone.                   *)

LEMMA InvokeKeeps ==
  ASSUME ThreadInv, NEW c \in Calls, Invoke(c)
  PROVE  ThreadInv'
  <1> USE DEF ThreadInv
  <1> DEFINE r1 == [call[c] EXCEPT !.kind = "invoke"]
             r2 == [r1 EXCEPT !.pc = "acquire"]
  <1>1. call' = [call EXCEPT ![c] = r2]
    BY DEF Invoke, Shape
  <1>2. call[c] \in Call
    BY DEF Shape
  <1>3. r1 \in Call /\ r1.kind = "invoke"
    BY <1>2, SetKind DEF Invoke
  <1> HIDE DEF r1
  <1>4. r2 \in Call /\ r2.pc = "acquire" /\ r2.kind = "invoke"
    BY <1>3, SetPc DEF Steps
  <1> HIDE DEF r2
  <1>5. Becomes(c, r2)
    BY <1>1, <1>4, CallSet
  <1>6. /\ thread' \in [ status : Open \cup Closed \cup {"absent"},
                         owner : Calls \cup {None}, lapsed : BOOLEAN ]
        /\ thread'.owner = thread.owner
        /\ thread'.status = thread.status \/ thread'.status = "active"
    BY DEF Invoke, Shape, Open
  <1>7. Shape' /\ OneActive'
    BY <1>5, <1>6 DEF Invoke, Shape, OneActive, Becomes, Active
  <1>8. LocalInv(c)
    OBVIOUS
  <1>9. thread'.status = thread.status \/ thread'.status \notin Closed
    BY <1>6 DEF Closed
  <1>10. thread.owner = c => thread'.status \notin Closed
    BY <1>8, <1>9 DEF Invoke, LocalInv
  <1>11. LocalInv(c)'
    BY <1>4, <1>5, <1>6, <1>10 DEF LocalInv, Becomes, Invoke
  <1> QED
    BY <1>4, <1>5, <1>6, <1>7, <1>9, <1>11, CalmStep DEF Invoke, Becomes

LEMMA AskKeeps ==
  ASSUME ThreadInv, NEW c \in Calls, NEW kind \in Kinds, Ask(c, kind)
  PROVE  ThreadInv'
  <1> USE DEF ThreadInv
  <1>1. call[c] \in Call /\ LocalInv(c)
    BY DEF Shape
  <1>2. PICK r \in Call :
          /\ call' = [call EXCEPT ![c] = r] /\ r.kind = kind
          /\ r.pc \in {"acquire", "done"}
    <2>1. CASE kind = "cancel" /\ thread.status \in Closed
      <3> DEFINE r1 == [Idle EXCEPT !.kind = kind]
                 r2 == [r1 EXCEPT !.pc = "done"]
                 r3 == [r2 EXCEPT !.reply = "error"]
      <3>1. call' = [call EXCEPT ![c] = r3]
        BY <2>1 DEF Ask
      <3>2. r1 \in Call /\ r1.kind = kind
        BY IdleTyped, SetKind
      <3> HIDE DEF r1
      <3>3. r2 \in Call /\ r2.pc = "done" /\ r2.kind = kind
        BY <3>2, SetPc DEF Steps
      <3> HIDE DEF r2
      <3>4. r3 \in Call /\ r3.pc = "done" /\ r3.kind = kind
        BY <3>3, SetReply DEF Same
      <3> HIDE DEF r3
      <3> QED
        BY <3>1, <3>4
    <2>2. CASE ~(kind = "cancel" /\ thread.status \in Closed)
      <3> DEFINE r1 == [call[c] EXCEPT !.kind = kind]
                 r2 == [r1 EXCEPT !.pc = "acquire"]
      <3>1. call' = [call EXCEPT ![c] = r2]
        BY <2>2 DEF Ask, Shape
      <3>2. r1 \in Call /\ r1.kind = kind
        BY <1>1, SetKind
      <3> HIDE DEF r1
      <3>3. r2 \in Call /\ r2.pc = "acquire" /\ r2.kind = kind
        BY <3>2, SetPc DEF Steps
      <3> HIDE DEF r2
      <3> QED
        BY <3>1, <3>3
    <2> QED
      BY <2>1, <2>2
  <1>3. Becomes(c, r)
    BY <1>2, CallSet
  <1>4. Shape' /\ OneActive'
    BY <1>3 DEF Ask, Shape, OneActive, Becomes, Active
  <1>5. kind # "decide" /\ call[c].pc = "idle"
    BY DEF Ask
  <1>6. LocalInv(c)'
    BY <1>1, <1>2, <1>3, <1>5 DEF LocalInv, Becomes, Ask
  <1> QED
    BY <1>3, <1>4, <1>6, CalmStep DEF Ask, Becomes

LEMMA DecideKeeps ==
  ASSUME ThreadInv, NEW c \in Calls, NEW i \in interrupts, NEW answer \in Answers,
         Decide(c, i, answer)
  PROVE  ThreadInv'
  <1> USE DEF ThreadInv
  <1>1. call[c] \in Call /\ LocalInv(c) /\ i \in Interrupt /\ i.at \in Checkpoint
    BY DEF Shape, Interrupt
  <1> DEFINE a  == i.at
             r1 == [call[c] EXCEPT !.kind = "decide"]
             r2 == [r1 EXCEPT !.pc = "bind"]
             r3 == [r2 EXCEPT !.say = answer]
             r4 == [r3 EXCEPT !.about = a]
  <1>2. call' = [call EXCEPT ![c] = r4]
    BY DEF Decide, Shape
  <1>3. r1 \in Call /\ r1.kind = "decide"
    BY <1>1, SetKind DEF Decide
  <1>4. a \in Checkpoint
    BY <1>1
  <1> HIDE DEF r1, a
  <1>5. r2 \in Call /\ r2.pc = "bind" /\ r2.kind = "decide"
    BY <1>3, SetPc DEF Steps
  <1> HIDE DEF r2
  <1>6. r3 \in Call /\ r3.pc = "bind" /\ r3.kind = "decide"
    BY <1>5, SetSay DEF Same
  <1> HIDE DEF r3
  <1>7. r4 \in Call /\ r4.pc = "bind" /\ r4.kind = "decide" /\ r4.about = a
    BY <1>4, <1>6, SetAbout
  <1> HIDE DEF r4
  <1>8. Becomes(c, r4)
    BY <1>2, <1>7, CallSet
  <1> DEFINE j == [i EXCEPT !.state = "resolving", !.by = c, !.said = @ \cup {answer}]
  <1>9. j \in Interrupt
    BY <1>1 DEF Interrupt
  <1>10. interrupts' = (interrupts \ {i}) \cup {j}
    BY DEF Decide
  <1> HIDE DEF j
  <1>11. OneActive'
    BY <1>10 DEF Decide, OneActive, Active
  <1>12. Shape'
    BY <1>8, <1>9, <1>10 DEF Decide, Shape, Becomes
  <1>13. LocalInv(c)'
    BY <1>1, <1>4, <1>7, <1>8 DEF LocalInv, Becomes, Decide
  <1> QED
    BY <1>7, <1>8, <1>11, <1>12, <1>13, CalmStep DEF Decide, Becomes

LEMMA BindKeeps ==
  ASSUME ThreadInv, NEW c \in Calls, Bind(c)
  PROVE  ThreadInv'
  <1> USE DEF ThreadInv
  <1>1. LocalInv(c)
    OBVIOUS
  <1>2. CASE head = call[c].about
    <2>1. /\ Becomes(c, call'[c]) /\ call'[c].pc = "acquire"
          /\ call'[c].kind = call[c].kind
      BY <1>2, GoStep DEF Bind, Steps
    <2>2. Shape' /\ OneActive'
      BY <2>1 DEF Bind, Shape, OneActive, Becomes, Active
    <2>3. head # None
      BY <1>1, <1>2, ThreadAssumption DEF LocalInv, Bind, Checkpoint
    <2>4. LocalInv(c)'
      BY <1>1, <2>1, <2>3 DEF LocalInv, Bind
    <2> QED
      BY <2>1, <2>2, <2>4, CalmStep DEF Bind
  <1>3. CASE head # call[c].about
    <2>1. Becomes(c, call'[c]) /\ call'[c].pc = "done"
      BY <1>3, OverStep DEF Bind, Steps
    <2>2. Shape' /\ OneActive'
      BY <2>1 DEF Bind, Shape, OneActive, Becomes, Active
    <2>3. LocalInv(c)'
      BY <1>1, <2>1 DEF LocalInv, Bind, Running
    <2> QED
      BY <2>1, <2>2, <2>3, CalmStep DEF Bind
  <1> QED
    BY <1>2, <1>3

LEMMA AcquireKeeps ==
  ASSUME ThreadInv, NEW c \in Calls, Acquire(c)
  PROVE  ThreadInv'
  <1> USE DEF ThreadInv
  <1>1. LocalInv(c)
    OBVIOUS
  <1>2. CASE MayAcquire
    <2>1. /\ Becomes(c, call'[c]) /\ call'[c].pc = "load"
          /\ call'[c].kind = call[c].kind
      BY <1>2, GoStep DEF Acquire, Steps, Running
    <2>2. /\ thread' \in [ status : Open \cup Closed \cup {"absent"},
                           owner : Calls \cup {None}, lapsed : BOOLEAN ]
          /\ thread'.owner = c /\ thread'.status = thread.status
          /\ thread.status \notin Closed
      BY <1>2 DEF Acquire, Shape, MayAcquire, Open, Closed
    <2>3. Shape' /\ OneActive'
      BY <2>1, <2>2 DEF Acquire, Shape, OneActive, Becomes, Active
    <2>4. LocalInv(c)'
      BY <1>1, <2>1, <2>2 DEF LocalInv, Acquire
    <2> QED
      BY <2>1, <2>2, <2>3, <2>4, CalmStep DEF Acquire
  <1>3. CASE ~MayAcquire
    <2>1. Becomes(c, call'[c]) /\ call'[c].pc = "done"
      BY <1>3, OverStep DEF Acquire, Steps
    <2>2. Shape' /\ OneActive'
      BY <1>3, <2>1 DEF Acquire, Shape, OneActive, Becomes, Active
    <2>3. LocalInv(c)'
      BY <1>1, <1>3, <2>1 DEF LocalInv, Acquire, Running
    <2> QED
      BY <1>3, <2>1, <2>2, <2>3, CalmStep DEF Acquire
  <1> QED
    BY <1>2, <1>3

\* The lease's clock: no call moves.
LEMMA LeaseKeeps ==
  ASSUME ThreadInv, Lapse \/ \E c \in Calls : Renew(c)
  PROVE  ThreadInv'
  <1> USE DEF ThreadInv
  <1>1. /\ thread' \in [ status : Open \cup Closed \cup {"absent"},
                         owner : Calls \cup {None}, lapsed : BOOLEAN ]
        /\ thread'.owner = thread.owner /\ thread'.status = thread.status
    BY DEF Lapse, Renew, Shape
  <1>0. UNCHANGED <<head, stored, call, interrupts>>
    BY DEF Lapse, Renew
  <1>4. faults' \in 0..MaxFaults
    BY ThreadAssumption DEF Lapse, Renew, Shape, Fault
  <1>2. Shape' /\ OneActive' /\ ClosedAgrees' /\ HeadQaInv'
    BY <1>0, <1>1, <1>4 DEF Shape, OneActive, Active, ClosedAgrees, HeadQaInv
  <1>3. \A d \in Calls : LocalInv(d)'
    BY <1>0, <1>1, OthersKeep
  <1> QED
    BY <1>2, <1>3

LEMMA HeartbeatFailsKeeps ==
  ASSUME ThreadInv, NEW c \in Calls, HeartbeatFails(c)
  PROVE  ThreadInv'
  <1> USE DEF ThreadInv
  <1> DEFINE v  == IF call[c].reply = "waiting" THEN "error" ELSE call[c].reply
             r1 == [call[c] EXCEPT !.live = FALSE]
             r2 == [r1 EXCEPT !.reply = v]
  <1>1. call[c] \in Call /\ LocalInv(c)
    BY DEF Shape
  <1>2. v \in {"waiting", "ok", "error", "closed", "lost"}
    BY <1>1 DEF Call
  <1>3. call' = [call EXCEPT ![c] = r2]
    BY DEF HeartbeatFails, Shape
  <1> HIDE DEF v
  <1>4. Same(r1, call[c])
    BY <1>1, SetLive
  <1> HIDE DEF r1
  <1>5. Same(r2, r1)
    BY <1>2, <1>4, SetReply DEF Same
  <1> HIDE DEF r2
  <1>6. Same(r2, call[c])
    BY <1>4, <1>5 DEF Same
  <1>7. Becomes(c, r2)
    BY <1>3, <1>6, CallSet DEF Same
  <1>8. Shape' /\ OneActive'
    BY <1>7, ThreadAssumption DEF HeartbeatFails, Shape, OneActive, Becomes, Active, Fault
  <1>9. LocalInv(c)'
    BY <1>1, <1>6, <1>7 DEF LocalInv, Becomes, HeartbeatFails, Same, Run
  <1> QED
    BY <1>7, <1>8, <1>9, CalmStep DEF HeartbeatFails, Becomes

LEMMA CrashKeeps ==
  ASSUME ThreadInv, NEW c \in Calls, Crash(c)
  PROVE  ThreadInv'
  <1> USE DEF ThreadInv
  <1>1. Becomes(c, call'[c]) /\ call'[c].pc = "dead"
    BY OverStep DEF Crash, Steps
  <1>2. Shape' /\ OneActive'
    BY <1>1, ThreadAssumption DEF Crash, Shape, OneActive, Becomes, Active, Fault
  <1>3. LocalInv(c)'
    BY <1>1 DEF LocalInv, Running
  <1> QED
    BY <1>1, <1>2, <1>3, CalmStep DEF Crash

\* A call whose action has no say in the run any more.
LEMMA DoneLocal ==
  ASSUME NEW c \in Calls, LocalInv(c), call[c].pc \in Running,
         call'[c].kind = call[c].kind,
         \/ call'[c].pc = "release"
         \/ call'[c].pc = "failing" /\ call[c].pc \notin {"release", "failing"},
         thread'.owner = c => thread.owner = c,
         thread'.status \in Closed /\ call'[c].pc = "failing" => thread.status \in Closed
  PROVE  LocalInv(c)'
  BY DEF LocalInv, Running

LEMMA LoadKeeps ==
  ASSUME ThreadInv, NEW c \in Calls, Load(c)
  PROVE  ThreadInv'
  <1> USE DEF ThreadInv
  <1>1. LocalInv(c) /\ call[c] \in Call /\ call[c].pc = "load" /\ Owns(c)
    BY DEF Shape, Load, Fenced
  <1>2. /\ thread' = thread /\ head' = head
        /\ interrupts' = interrupts /\ faults' = faults
    BY DEF Load
  <1>3. call[c].kind \in {"invoke", "resume", "decide", "retry", "cancel"}
    BY <1>1, ThreadAssumption DEF LocalInv, Running
  <1>4. thread.status \notin Closed
    BY <1>1 DEF LocalInv, Owns
  <1>5. stored' \in Answers \cup {None}
    <2>1. call[c].say \in Answers \cup {None}
      BY <1>1 DEF Call
    <2> QED
      BY <2>1 DEF Load, Shape
  <1>6. CASE call' = Fails(c)
    <2>1. Becomes(c, call'[c]) /\ call'[c].pc = "failing" /\ call'[c].kind = call[c].kind
      BY <1>6, FailsStep
    <2>2. Shape' /\ OneActive'
      BY <1>2, <1>5, <2>1 DEF Shape, OneActive, Becomes, Active
    <2>3. LocalInv(c)'
      BY <1>1, <1>2, <2>1, DoneLocal DEF Running
    <2> QED
      BY <1>2, <2>1, <2>2, <2>3, CalmStep
  <1>7. ASSUME NEW st \in LifecycleState, LegalStep(Run, st), Saves(c, st)
        PROVE  ThreadInv'
    <2>1. /\ Becomes(c, call'[c])
          /\ call'[c].pc = "saved" /\ call'[c].kind = call[c].kind
          /\ call'[c].put \in Checkpoint /\ call'[c].put.st = st
      BY <1>7, SavesStep
    <2>2. Shape' /\ OneActive'
      BY <1>2, <1>5, <2>1 DEF Shape, OneActive, Becomes, Active
    <2>3. LocalInv(c)'
      BY <1>1, <1>2, <1>4, <1>7, <2>1 DEF LocalInv, Running, Run
    <2> QED
      BY <1>2, <2>1, <2>2, <2>3, CalmStep
  <1>8. ASSUME NEW say \in Answers \cup {None}, head # None,
               call' = [call EXCEPT ![c].pc = "run", ![c].at = head, ![c].say = say]
        PROVE  ThreadInv'
    <2> DEFINE r1 == [call[c] EXCEPT !.pc = "run"]
               r2 == [r1 EXCEPT !.at = head]
               r3 == [r2 EXCEPT !.say = say]
    <2>1. call' = [call EXCEPT ![c] = r3]
      BY <1>8 DEF Shape
    <2>2. r1 \in Call /\ r1.pc = "run" /\ r1.kind = call[c].kind
      BY <1>1, SetPc DEF Steps, Running
    <2> HIDE DEF r1
    <2>3. r2 \in Call /\ r2.pc = "run" /\ r2.kind = call[c].kind /\ r2.at = head
      BY <2>2, SetAt DEF Shape
    <2> HIDE DEF r2
    <2>4. r3 \in Call /\ r3.pc = "run" /\ r3.kind = call[c].kind /\ r3.at = head
      BY <2>3, SetSay DEF Same
    <2> HIDE DEF r3
    <2>5. Becomes(c, r3)
      BY <2>1, <2>4, CallSet
    <2>6. Shape' /\ OneActive'
      BY <1>2, <1>5, <2>5 DEF Shape, OneActive, Becomes, Active
    <2>7. LocalInv(c)'
      BY <1>1, <1>2, <1>4, <1>8, <2>4, <2>5 DEF LocalInv, Running, Becomes, Shape
    <2> QED
      BY <1>2, <2>5, <2>6, <2>7, CalmStep DEF Becomes
  <1>9. CASE call[c].kind = "invoke"
    <2>1. CASE head = None
      BY <1>9, <2>1, <1>7, RunTyped, StartTyped DEF Load, LegalStep
    <2> QED
      BY <1>9, <2>1, <1>6 DEF Load
  <1>10. CASE call[c].kind = "resume"
    BY <1>10, <1>6, <1>8 DEF Load, Shape
  <1>11. CASE call[c].kind = "decide"
    <2>1. head # None
      BY <1>1, <1>11 DEF LocalInv
    <2>2. call' = [call EXCEPT ![c].pc = "run", ![c].at = head]
      BY <1>11 DEF Load
    <2>3. call[c].say \in Answers \cup {None}
      BY <1>1 DEF Call
    <2>4. call' = [call EXCEPT ![c].pc = "run", ![c].at = head, ![c].say = call[c].say]
      BY <2>2, <1>1 DEF Call, Shape
    <2> QED
      BY <1>8, <2>1, <2>3, <2>4
  <1>12. CASE call[c].kind = "retry"
    <2>1. CASE head # None /\ RetryEligible(head.st)
      <3>1. Saves(c, Retried(head.st))
        BY <1>12, <2>1 DEF Load
      <3>2. LegalStep(Run, Retried(head.st))
        BY <2>1, RunTyped DEF LegalStep
      <3> QED
        BY <3>1, <3>2, <1>7, RunTyped, LegalStepTyped
    <2> QED
      BY <1>12, <2>1, <1>6 DEF Load
  <1>13. CASE call[c].kind = "cancel"
    <2>1. CASE head # None /\ head.st.node # None
      <3>1. Saves(c, Cancelled(head.st))
        BY <1>13, <2>1 DEF Load
      <3>2. LegalStep(Run, Cancelled(head.st))
        BY <2>1, RunTyped DEF LegalStep
      <3> QED
        BY <3>1, <3>2, <1>7, RunTyped, LegalStepTyped
    <2> QED
      BY <1>13, <2>1, <1>6 DEF Load
  <1> QED
    BY <1>3, <1>9, <1>10, <1>11, <1>12, <1>13

LEMMA RunNodeKeeps ==
  ASSUME ThreadInv, NEW c \in Calls, RunNode(c)
  PROVE  ThreadInv'
  <1> USE DEF ThreadInv
  <1>1. /\ LocalInv(c) /\ call[c].pc = "run" /\ Owns(c)
        /\ call[c].at = head /\ head \in Checkpoint /\ head # None
    BY ThreadAssumption DEF RunNode, Fenced, LocalInv, Checkpoint
  <1>2. Run = head.st /\ Run # None /\ Ahead(c) = Route(Run)
    BY <1>1, RunTyped DEF Ahead
  <1>3. PICK st : LegalStep(Run, st) /\ Saves(c, st)
    BY <1>2 DEF RunNode, LegalStep
  <1>4. st \in LifecycleState
    BY <1>3, RunTyped, LegalStepTyped
  <1>5. /\ Becomes(c, call'[c])
        /\ call'[c].pc = "saved" /\ call'[c].kind = call[c].kind
        /\ call'[c].put \in Checkpoint /\ call'[c].put.st = st
    BY <1>3, <1>4, SavesStep
  <1>6. Shape' /\ OneActive'
    BY <1>5 DEF RunNode, Shape, OneActive, Becomes, Active
  <1>7. LocalInv(c)'
    BY <1>1, <1>3, <1>5 DEF RunNode, LocalInv, Running, Run, Owns
  <1> QED
    BY <1>5, <1>6, <1>7, CalmStep DEF RunNode

LEMMA StopsKeeps ==
  ASSUME ThreadInv, NEW c \in Calls, Stops(c)
  PROVE  ThreadInv'
  <1> USE DEF ThreadInv
  <1>1. LocalInv(c)
    OBVIOUS
  <1>2. /\ Becomes(c, call'[c]) /\ call'[c].pc = "settle"
        /\ call'[c].kind = call[c].kind /\ call'[c].at = call[c].at
    BY GoStep DEF Stops, Steps, Running
  <1>3. Shape' /\ OneActive'
    BY <1>2 DEF Stops, Shape, OneActive, Becomes, Active
  <1>4. LocalInv(c)'
    BY <1>1, <1>2 DEF Stops, LocalInv, Running
  <1> QED
    BY <1>2, <1>3, <1>4, CalmStep DEF Stops

LEMMA BreaksKeeps ==
  ASSUME ThreadInv, NEW c \in Calls, Breaks(c)
  PROVE  ThreadInv'
  <1> USE DEF ThreadInv
  <1>1. Becomes(c, call'[c]) /\ call'[c].pc = "failing" /\ call'[c].kind = call[c].kind
    BY FailsStep DEF Breaks
  <1>2. Shape' /\ OneActive'
    BY <1>1, ThreadAssumption DEF Breaks, Shape, OneActive, Becomes, Active, Fault
  <1>3. LocalInv(c)'
    BY <1>1, DoneLocal DEF Breaks, Running
  <1> QED
    BY <1>1, <1>2, <1>3, CalmStep DEF Breaks

LEMMA NoteKeeps ==
  ASSUME ThreadInv, NEW c \in Calls, Note(c)
  PROVE  ThreadInv'
  <1> USE DEF ThreadInv
  <1>1. LocalInv(c) /\ call[c].at \in Checkpoint
    BY DEF LocalInv, Note
  <1>2. /\ Becomes(c, call'[c]) /\ call'[c].pc \in {"release", "failing"}
        /\ call'[c].kind = call[c].kind
    BY GoStep, FailsStep DEF Note, Steps, Running
  <1> DEFINE n == [at |-> call[c].at, state |-> "pending", by |-> None, said |-> {}]
  <1>3. n \in Interrupt
    BY <1>1 DEF Interrupt
  <1>4. \/ interrupts' = interrupts
        \/ interrupts' = interrupts \cup {n} /\ \A i \in interrupts : ~Active(i)
    BY DEF Note
  <1>5. OneActive'
    BY <1>4 DEF OneActive, Active
  <1>6. Shape'
    BY <1>2, <1>3, <1>4 DEF Note, Shape, Becomes
  <1>7. LocalInv(c)'
    BY <1>1, <1>2, DoneLocal DEF Note, Running
  <1> QED
    BY <1>2, <1>5, <1>6, <1>7, CalmStep DEF Note

LEMMA CloseDecisionKeeps ==
  ASSUME ThreadInv, NEW c \in Calls, CloseDecision(c)
  PROVE  ThreadInv'
  <1> USE DEF ThreadInv
  <1> DEFINE r == [call[c] EXCEPT !.reply = "closed"]
             After(i) == IF i.state = "resolving" /\ i.by = c
                         THEN Concluded(i, call[c].reply = "ok") ELSE i
  <1>1. call[c] \in Call /\ LocalInv(c)
    BY DEF Shape
  <1>2. call' = [call EXCEPT ![c] = r]
    BY DEF CloseDecision, Shape
  <1>3. Same(r, call[c])
    BY <1>1, SetReply
  <1> HIDE DEF r
  <1>4. Becomes(c, r)
    BY <1>2, <1>3, CallSet DEF Same
  <1>5. interrupts' = {After(i) : i \in interrupts}
    BY DEF CloseDecision
  <1>6. ASSUME NEW i \in interrupts
        PROVE  After(i) \in Interrupt /\ (Active(After(i)) => Active(i))
    BY DEF Shape, Interrupt, Concluded, Active
  <1> HIDE DEF After
  <1>7. OneActive'
    BY <1>5, <1>6 DEF OneActive, Active
  <1>8. Shape'
    BY <1>4, <1>5, <1>6 DEF CloseDecision, Shape, Becomes
  <1>9. LocalInv(c)'
    BY <1>1, <1>3, <1>4 DEF CloseDecision, LocalInv, Becomes, Same, Run
  <1> QED
    BY <1>4, <1>7, <1>8, <1>9, CalmStep DEF CloseDecision, Becomes

LEMMA HandleKeeps ==
  ASSUME ThreadInv, NEW c \in Calls, Handle(c)
  PROVE  ThreadInv'
  <1> USE DEF ThreadInv
  <1>1. LocalInv(c)
    OBVIOUS
  <1>2. /\ Becomes(c, call'[c]) /\ call'[c].pc = "release"
        /\ call'[c].kind = call[c].kind
    BY GoStep DEF Handle, Steps, Running
  <1>3. /\ thread' \in [ status : Open \cup Closed \cup {"absent"},
                         owner : Calls \cup {None}, lapsed : BOOLEAN ]
        /\ thread'.owner = thread.owner
        /\ thread'.status = thread.status \/ thread'.status = "paused"
    BY DEF Handle, Shape, Open
  <1>4. thread'.status = thread.status \/ thread'.status \notin Closed
    BY <1>3 DEF Closed
  <1>5. Shape' /\ OneActive'
    BY <1>2, <1>3 DEF Handle, Shape, OneActive, Becomes, Active
  <1>6. LocalInv(c)'
    BY <1>1, <1>2, <1>3, DoneLocal DEF Handle, Running
  <1> QED
    BY <1>2, <1>3, <1>4, <1>5, <1>6, CalmStep DEF Handle

LEMMA ReleaseKeeps ==
  ASSUME ThreadInv, NEW c \in Calls, Release(c)
  PROVE  ThreadInv'
  <1> USE DEF ThreadInv
  <1> DEFINE v == IF call[c].reply = "waiting" THEN call[c].result ELSE call[c].reply
  <1>1. v \in {"waiting", "ok", "error", "closed", "lost"}
    BY DEF Shape, Call
  <1>2. call' = Over(c, "done", v)
    BY DEF Release
  <1> HIDE DEF v
  <1>3. Becomes(c, call'[c]) /\ call'[c].pc = "done"
    BY <1>1, <1>2, OverStep DEF Steps
  <1>4. /\ thread' \in [ status : Open \cup Closed \cup {"absent"},
                         owner : Calls \cup {None}, lapsed : BOOLEAN ]
        /\ thread'.owner \in {thread.owner, None} \ {c}
        /\ thread'.status = thread.status
    BY ThreadAssumption DEF Release, Shape
  <1>5. Shape' /\ OneActive'
    BY <1>3, <1>4 DEF Release, Shape, OneActive, Becomes, Active
  <1>6. LocalInv(c)'
    BY <1>3, <1>4 DEF Release, LocalInv, Running
  <1> QED
    BY <1>3, <1>4, <1>5, <1>6, CalmStep DEF Release

-----------------------------------------------------------------------------
(* The actions that close the thread or move its accepted checkpoint.      *)

LEMMA SettleKeeps ==
  ASSUME ThreadInv, NEW c \in Calls, Settle(c)
  PROVE  ThreadInv'
  <1> USE DEF ThreadInv
  <1>1. LocalInv(c) /\ call[c].pc = "settle" /\ thread.owner = c
    BY DEF Settle, Fenced, Owns
  <1>2. call[c].at \in Checkpoint /\ head = call[c].at /\ head # None
    BY <1>1, ThreadAssumption DEF LocalInv, Checkpoint
  <1> DEFINE s == CompletionStatus(head.st)
             n == IF s = "paused" THEN "note" ELSE "release"
  <1>3. /\ s \in Closed \cup {"paused"}
        /\ s \in Closed =>
             /\ Route(head.st) = "end"
             /\ s = "cancelled" <=> head.st.status = "cancelled"
             /\ s = "failed" <=> head.st.status \in {"failed", "dead_letter"}
    <2>1. CASE Route(head.st) # "end"
      <3>1. s = "paused"
        BY <2>1 DEF CompletionStatus
      <3> QED
        BY <2>1, <3>1 DEF Closed
    <2>2. CASE Route(head.st) = "end" /\ head.st.status = "cancelled"
      <3>1. s = "cancelled"
        BY <2>2 DEF CompletionStatus
      <3> QED
        BY <2>2, <3>1 DEF Closed
    <2>3. CASE Route(head.st) = "end" /\ head.st.status \in {"failed", "dead_letter"}
      <3>1. s = "failed"
        BY <2>3 DEF CompletionStatus
      <3> QED
        BY <2>3, <3>1 DEF Closed
    <2>4. CASE /\ Route(head.st) = "end"
               /\ head.st.status \notin {"cancelled", "failed", "dead_letter"}
      <3>1. s = "completed"
        BY <2>4 DEF CompletionStatus
      <3> QED
        BY <2>4, <3>1 DEF Closed
    <2> QED
      BY <2>1, <2>2, <2>3, <2>4
  <1>4. call' = Go(c, n) /\ thread' = [thread EXCEPT !.status = s] /\ head' = head
    BY DEF Settle
  <1> HIDE DEF s
  <1>5. /\ thread' \in [ status : Open \cup Closed \cup {"absent"},
                         owner : Calls \cup {None}, lapsed : BOOLEAN ]
        /\ thread'.owner = c /\ thread'.status = s
    BY <1>1, <1>3, <1>4 DEF Shape, Open
  <1>6. n \in Steps /\ n \in {"note", "release"} /\ (s \in Closed => n = "release")
    BY DEF Steps, Running, Closed
  <1> HIDE DEF n
  <1>7. /\ Becomes(c, call'[c]) /\ call'[c].pc = n
        /\ call'[c].kind = call[c].kind /\ call'[c].at = call[c].at
    BY <1>4, <1>6, GoStep
  <1>8. Shape' /\ OneActive'
    BY <1>4, <1>5, <1>7 DEF Settle, Shape, OneActive, Becomes, Active
  <1>9. LocalInv(c)'
    BY <1>1, <1>2, <1>4, <1>5, <1>6, <1>7 DEF LocalInv, Running
  <1>10. \A d \in Calls \ {c} : LocalInv(d)'
    BY <1>4, <1>5, <1>7, OthersKeep DEF Becomes
  <1>11. ClosedAgrees'
    BY <1>2, <1>3, <1>4, <1>5 DEF ClosedAgrees
  <1>12. HeadQaInv'
    BY <1>4 DEF HeadQaInv
  <1> QED
    BY <1>8, <1>9, <1>10, <1>11, <1>12

LEMMA AcceptKeeps ==
  ASSUME ThreadInv, NEW c \in Calls, Accept(c)
  PROVE  ThreadInv' /\ LegalStep(Run, Run') /\ thread.status \notin Closed
  <1> USE DEF ThreadInv
  <1>1. LocalInv(c) /\ call[c] \in Call /\ call[c].pc = "saved" /\ thread.owner = c
    BY DEF Accept, AcceptFence, Owns, Shape
  <1>2. /\ call[c].put \in Checkpoint /\ LegalStep(Run, call[c].put.st)
        /\ thread.status \notin Closed
    BY <1>1 DEF LocalInv
  <1> DEFINE k == call[c].put
  <1>3. /\ head' = k /\ k \in Checkpoint /\ k # None /\ thread' = thread
        /\ call' = [call EXCEPT ![c].pc = "run", ![c].at = k, ![c].put = None]
    BY <1>2, ThreadAssumption DEF Accept, Checkpoint
  <1>4. Run' = k.st
    BY <1>3 DEF Run
  <1> DEFINE r1 == [call[c] EXCEPT !.pc = "run"]
             r2 == [r1 EXCEPT !.at = k]
             r3 == [r2 EXCEPT !.put = None]
  <1>5. call' = [call EXCEPT ![c] = r3]
    BY <1>3 DEF Shape
  <1> HIDE DEF k
  <1>6. r1 \in Call /\ r1.pc = "run" /\ r1.kind = call[c].kind
    BY <1>1, SetPc DEF Steps, Running
  <1> HIDE DEF r1
  <1>7. r2 \in Call /\ r2.pc = "run" /\ r2.kind = call[c].kind /\ r2.at = k
    BY <1>3, <1>6, SetAt
  <1> HIDE DEF r2
  <1>8. r3 \in Call /\ r3.pc = "run" /\ r3.kind = call[c].kind /\ r3.at = k
    BY <1>7, SetPut
  <1> HIDE DEF r3
  <1>9. Becomes(c, r3)
    BY <1>5, <1>8, CallSet
  <1>10. Shape' /\ OneActive'
    BY <1>3, <1>9 DEF Accept, Shape, OneActive, Becomes, Active
  <1>11. LocalInv(c)'
    BY <1>1, <1>2, <1>3, <1>8, <1>9 DEF LocalInv, Becomes, Running
  <1>12. \A d \in Calls \ {c} : LocalInv(d)'
    BY <1>1, <1>3, <1>9, OthersKeep DEF Becomes
  <1>13. LegalStep(Run, Run')
    BY <1>2, <1>4 DEF k
  <1>14. HeadQaInv'
    <2>1. Run # None => QaInv(Run)
      BY RunTyped DEF HeadQaInv
    <2>2. QaInv(k.st)
      BY <1>4, <1>13, <2>1, RunTyped, QaStep
    <2> QED
      BY <1>3, <2>2 DEF HeadQaInv
  <1>15. ClosedAgrees'
    BY <1>2, <1>3 DEF ClosedAgrees
  <1> QED
    BY <1>2, <1>10, <1>11, <1>12, <1>13, <1>14, <1>15

-----------------------------------------------------------------------------
(* The theorems.                                                           *)

LEMMA InitInv == Init => ThreadInv
  <1> SUFFICES ASSUME Init PROVE ThreadInv
    OBVIOUS
  <1>1. Shape
    BY IdleTyped, ThreadAssumption DEF Init, Shape
  <1>2. \A c \in Calls : LocalInv(c)
    BY ThreadAssumption DEF Init, LocalInv, Idle, Running
  <1>3. OneActive /\ ClosedAgrees /\ HeadQaInv
    BY DEF Init, OneActive, ClosedAgrees, HeadQaInv, Closed
  <1> QED
    BY <1>1, <1>2, <1>3 DEF ThreadInv

\* Every step but an acceptance leaves the accepted checkpoint alone.
LEMMA HeadMoves ==
  ASSUME ThreadInv, [Next]_vars
  PROVE  head' = head \/ \E c \in Calls : Accept(c)
  <1>1. ASSUME NEW c \in Calls, NEW kind \in Kinds, Ask(c, kind) PROVE head' = head
    BY <1>1 DEF Ask
  <1>2. ASSUME NEW c \in Calls, NEW i \in interrupts, NEW a \in Answers, Decide(c, i, a)
        PROVE  head' = head
    BY <1>2 DEF Decide
  <1>3. ASSUME NEW c \in Calls,
               \/ Invoke(c) \/ Bind(c) \/ Acquire(c) \/ Renew(c) \/ HeartbeatFails(c)
               \/ Crash(c) \/ Load(c) \/ RunNode(c)
        PROVE  head' = head
    BY <1>3 DEF Invoke, Bind, Acquire, Renew, HeartbeatFails, Crash, Load, RunNode
  <1>4. ASSUME NEW c \in Calls,
               \/ Stops(c) \/ Settle(c) \/ Note(c) \/ Breaks(c) \/ Handle(c)
               \/ Release(c) \/ CloseDecision(c)
        PROVE  head' = head
    BY <1>4 DEF Stops, Settle, Note, Breaks, Handle, Release, CloseDecision
  <1>5. CASE Lapse \/ UNCHANGED vars
    BY <1>5 DEF Lapse, vars
  <1> QED
    BY <1>1, <1>2, <1>3, <1>4, <1>5 DEF Next, Act

LEMMA StepInv ==
  ASSUME ThreadInv, [Next]_vars
  PROVE  ThreadInv'
  <1>1. CASE Lapse \/ \E c \in Calls : Renew(c)
    BY <1>1, LeaseKeeps
  <1>2. ASSUME NEW c \in Calls, NEW kind \in Kinds, Ask(c, kind) PROVE ThreadInv'
    BY <1>2, AskKeeps
  <1>3. ASSUME NEW c \in Calls, NEW i \in interrupts, NEW a \in Answers, Decide(c, i, a)
        PROVE  ThreadInv'
    BY <1>3, DecideKeeps
  <1>4. ASSUME NEW c \in Calls,
               \/ Invoke(c) \/ Bind(c) \/ Acquire(c) \/ HeartbeatFails(c) \/ Crash(c)
        PROVE  ThreadInv'
    BY <1>4, InvokeKeeps, BindKeeps, AcquireKeeps, HeartbeatFailsKeeps, CrashKeeps
  <1>5. ASSUME NEW c \in Calls,
               \/ Load(c) \/ RunNode(c) \/ Accept(c) \/ Stops(c) \/ Settle(c)
        PROVE  ThreadInv'
    BY <1>5, LoadKeeps, RunNodeKeeps, AcceptKeeps, StopsKeeps, SettleKeeps
  <1>6. ASSUME NEW c \in Calls,
               \/ Note(c) \/ Breaks(c) \/ Handle(c) \/ Release(c) \/ CloseDecision(c)
        PROVE  ThreadInv'
    BY <1>6, NoteKeeps, BreaksKeeps, HandleKeeps, ReleaseKeeps, CloseDecisionKeeps
  <1>7. CASE UNCHANGED vars
    BY <1>7 DEF vars, ThreadInv, Shape, OneActive, Active, LocalInv, ClosedAgrees,
                HeadQaInv, Run
  <1> QED
    BY <1>1, <1>2, <1>3, <1>4, <1>5, <1>6, <1>7 DEF Next, Act

LEMMA ThreadInvariant == Spec => []ThreadInv
  BY InitInv, StepInv, PTL DEF Spec

\* Rows and calls keep their types, and one interrupt of a thread is active
\* at a time: Note adds one only when there is none.
THEOREM ThreadTypeCorrect == Spec => []ThreadTypeOK
  <1>1. ThreadInv => ThreadTypeOK
    <2> SUFFICES ASSUME ThreadInv PROVE ThreadTypeOK
      OBVIOUS
    <2> DEFINE S == {i \in interrupts : Active(i)}
    <2>1. Cardinality(S) <= 1
      <3>1. CASE S = {}
        BY <3>1, FS_EmptySet
      <3>2. ASSUME NEW i \in S PROVE Cardinality(S) <= 1
        <4>1. S = {i}
          BY <3>2 DEF ThreadInv, OneActive
        <4> QED
          BY <4>1, FS_Singleton
      <3> QED
        BY <3>1, <3>2
    <2> QED
      BY <2>1 DEF ThreadInv, Shape, ThreadTypeOK
  <1> QED
    BY <1>1, ThreadInvariant, PTL

\* A thread is closed only when its accepted checkpoint leaves the graph
\* nothing to run, and says the same as the thread (completionStatus).
THEOREM ClosedAgreesAlways == Spec => []ClosedAgrees
  <1>1. ThreadInv => ClosedAgrees
    BY DEF ThreadInv
  <1> QED
    BY <1>1, ThreadInvariant, PTL

\* A closed thread keeps its status and its accepted checkpoint, whatever
\* slow calls still do.
THEOREM ClosedStays == Spec => ClosedForGood
  <1>1. ThreadInv /\ [Next]_vars =>
          (thread.status \in Closed => UNCHANGED <<thread.status, head>>)
    <2> SUFFICES ASSUME ThreadInv, [Next]_vars, thread.status \in Closed
                 PROVE  thread'.status = thread.status /\ head' = head
      OBVIOUS
    <2>1. head' = head
      BY HeadMoves, AcceptKeeps
    <2>2. ASSUME NEW c \in Calls, Settle(c) \/ Handle(c)
          PROVE  thread'.status = thread.status
      <3>1. LocalInv(c)
        BY DEF ThreadInv
      <3> QED
        BY <2>2, <3>1 DEF LocalInv, Settle, Handle, Fenced, Owns
    <2>3. ASSUME NEW c \in Calls,
                 \/ Invoke(c) \/ Acquire(c) \/ Renew(c) \/ Release(c)
          PROVE  thread'.status = thread.status
      BY <2>3 DEF Invoke, Acquire, Renew, Release, Closed, ThreadInv, Shape
    <2>4. CASE Lapse
      BY <2>4 DEF Lapse, ThreadInv, Shape
    <2>5. ASSUME NEW c \in Calls, NEW kind \in Kinds, Ask(c, kind) PROVE thread' = thread
      BY <2>5 DEF Ask
    <2>6. ASSUME NEW c \in Calls, NEW i \in interrupts, NEW a \in Answers, Decide(c, i, a)
          PROVE  thread' = thread
      BY <2>6 DEF Decide
    <2>7. ASSUME NEW c \in Calls,
                 \/ Bind(c) \/ HeartbeatFails(c) \/ Crash(c) \/ Load(c) \/ RunNode(c)
                 \/ Accept(c) \/ Stops(c) \/ Note(c) \/ Breaks(c) \/ CloseDecision(c)
          PROVE  thread' = thread
      BY <2>7 DEF Bind, HeartbeatFails, Crash, Load, RunNode, Accept, Stops, Note, Breaks,
                  CloseDecision
    <2>8. CASE UNCHANGED vars
      BY <2>8 DEF vars
    <2> QED
      BY <2>1, <2>2, <2>3, <2>4, <2>5, <2>6, <2>7, <2>8 DEF Next, Act
  <1> QED
    BY <1>1, ThreadInvariant, PTL DEF Spec, ClosedForGood

\* GraphRun's copy of the lifecycle is the lifecycle.
LEMMA SameLifecycle ==
  /\ Lifecycle!StartState = StartState
  /\ \A st : /\ Lifecycle!Route(st) = Route(st)
             /\ Lifecycle!RetryEligible(st) = RetryEligible(st)
             /\ Lifecycle!Retried(st) = Retried(st)
             /\ Lifecycle!Cancelled(st) = Cancelled(st)
             /\ \A n : /\ Lifecycle!Executed(n, st) = Executed(n, st)
                       /\ Lifecycle!Rejected(n, st) = Rejected(n, st)
  <1>1. Lifecycle!StartState = StartState
    BY DEF Lifecycle!StartState, StartState, Lifecycle!Names, Names,
           Lifecycle!LIFECYCLE_NODE_NAMES, LIFECYCLE_NODE_NAMES
  <1>2. ASSUME NEW st
        PROVE  /\ Lifecycle!RetryEligible(st) = RetryEligible(st)
               /\ Lifecycle!Retried(st) = Retried(st)
               /\ Lifecycle!Cancelled(st) = Cancelled(st)
    BY DEF Lifecycle!RetryEligible, RetryEligible, Lifecycle!Retried, Retried,
           Lifecycle!Cancelled, Cancelled
  <1>3. ASSUME NEW st
        PROVE  Lifecycle!Route(st) = Route(st)
    BY DEF Lifecycle!Route, Route, Lifecycle!standardRoute, standardRoute,
           Lifecycle!TERMINAL_STATUSES, TERMINAL_STATUSES, Lifecycle!AfterFix, AfterFix,
           Lifecycle!Successor, Successor,
           Lifecycle!LIFECYCLE_NODE_NAMES, LIFECYCLE_NODE_NAMES
  <1>4. ASSUME NEW st, NEW n
        PROVE  /\ Lifecycle!Executed(n, st) = Executed(n, st)
               /\ Lifecycle!Rejected(n, st) = Rejected(n, st)
    BY DEF Lifecycle!Executed, Executed, Lifecycle!Rejected, Rejected,
           Lifecycle!Outcomes, Outcomes, Lifecycle!Verdicts, Verdicts,
           Lifecycle!classifyFailure, classifyFailure,
           Lifecycle!lifecycleUpdate, lifecycleUpdate,
           Lifecycle!Exhausted, Exhausted, Lifecycle!StatusAfter, StatusAfter,
           Lifecycle!QaAfter, QaAfter
  <1> QED
    BY <1>1, <1>2, <1>3, <1>4

\* The accepted checkpoints tell one run of the lifecycle.
THEOREM ThreadImplementsLifecycle == Spec => ImplementsLifecycle
  <1>1. Init => Lifecycle!Init
    BY DEF Init, Lifecycle!Init, Run
  <1>2. ThreadInv /\ [Next]_vars => [Lifecycle!Next]_Run
    <2> SUFFICES ASSUME ThreadInv, [Next]_vars PROVE Lifecycle!Next \/ Run' = Run
      OBVIOUS
    <2>1. CASE head' = head
      BY <2>1 DEF Run
    <2>2. ASSUME NEW c \in Calls, Accept(c) PROVE Lifecycle!Next
      <3>1. LegalStep(Run, Run')
        BY <2>2, AcceptKeeps
      <3> QED
        BY <3>1, SameLifecycle DEF LegalStep, Lifecycle!Next, Lifecycle!Start, Lifecycle!Execute,
                    Lifecycle!OperatorRetry, Lifecycle!OperatorCancel
    <2> QED
      BY <2>1, <2>2, HeadMoves
  <1> QED
    BY <1>1, <1>2, ThreadInvariant, PTL DEF Spec, ImplementsLifecycle, Lifecycle!Spec

\* A run in review or beyond has a standing QA pass, whatever order of
\* fixes, failures, retries and cancels led there.
THEOREM PastQaPassed == Spec => []PastQaMeansPassed
  <1>1. ThreadInv => PastQaMeansPassed
    BY DEF ThreadInv, HeadQaInv, QaInv, PastQaMeansPassed
  <1> QED
    BY <1>1, ThreadInvariant, PTL

-----------------------------------------------------------------------------
(* Answers: whatever is said anywhere was claimed for an interrupt.        *)

Claimed(a)      == \E i \in interrupts : a \in i.said
ClaimedAfter(a) == \E i \in interrupts' : a \in i.said

SaidInv ==
  /\ stored # None => Claimed(stored)
  /\ \A c \in Calls : call[c].say # None => Claimed(call[c].say)
  /\ GateNeedsAnswer

\* An interrupt keeps the answers claimed for it.
LEMMA ClaimsStay ==
  ASSUME ThreadInv, [Next]_vars, NEW a, Claimed(a)
  PROVE  ClaimedAfter(a)
  <1>1. interrupts \subseteq Interrupt
    BY DEF ThreadInv, Shape
  <1>2. PICK i \in interrupts : a \in i.said
    BY DEF Claimed
  <1>3. CASE interrupts \subseteq interrupts'
    BY <1>2, <1>3 DEF ClaimedAfter
  <1>4. ASSUME NEW c \in Calls, NEW j \in interrupts, NEW b \in Answers, Decide(c, j, b)
        PROVE  ClaimedAfter(a)
    <2> DEFINE k == [j EXCEPT !.state = "resolving", !.by = c, !.said = @ \cup {b}]
    <2>1. k.said = j.said \cup {b}
      BY <1>1 DEF Interrupt
    <2>2. interrupts' = (interrupts \ {j}) \cup {k}
      BY <1>4 DEF Decide
    <2> HIDE DEF k
    <2> QED
      BY <1>2, <2>1, <2>2 DEF ClaimedAfter
  <1>5. ASSUME NEW c \in Calls, CloseDecision(c) PROVE ClaimedAfter(a)
    <2> DEFINE After(j) == IF j.state = "resolving" /\ j.by = c
                           THEN Concluded(j, call[c].reply = "ok") ELSE j
    <2>1. interrupts' = {After(j) : j \in interrupts}
      BY <1>5 DEF CloseDecision
    <2>2. After(i).said = i.said
      BY <1>1 DEF Interrupt, Concluded
    <2> HIDE DEF After
    <2> QED
      BY <1>2, <2>1, <2>2 DEF ClaimedAfter
  <1>6. ASSUME NEW c \in Calls, Note(c) PROVE interrupts \subseteq interrupts'
    BY <1>6 DEF Note
  <1>7. CASE Lapse \/ UNCHANGED vars
    BY <1>7, <1>3 DEF Lapse, vars
  <1>8. ASSUME NEW c \in Calls, NEW kind \in Kinds, Ask(c, kind) PROVE interrupts' = interrupts
    BY <1>8 DEF Ask
  <1>9. ASSUME NEW c \in Calls,
               \/ Invoke(c) \/ Bind(c) \/ Acquire(c) \/ Renew(c) \/ HeartbeatFails(c)
               \/ Crash(c) \/ Load(c) \/ RunNode(c) \/ Accept(c)
        PROVE  interrupts' = interrupts
    BY <1>9 DEF Invoke, Bind, Acquire, Renew, HeartbeatFails, Crash, Load, RunNode, Accept
  <1>10. ASSUME NEW c \in Calls,
                \/ Stops(c) \/ Settle(c) \/ Breaks(c) \/ Handle(c) \/ Release(c)
         PROVE  interrupts' = interrupts
    BY <1>10 DEF Stops, Settle, Breaks, Handle, Release
  <1> QED
    BY <1>3, <1>4, <1>5, <1>6, <1>7, <1>8, <1>9, <1>10 DEF Next, Act

\* What a call says it said before, found stored, or has just claimed.
LEMMA SaysWhatItHas ==
  ASSUME ThreadInv, [Next]_vars, NEW d \in Calls
  PROVE  call'[d].say \in {call[d].say, stored, None} \/ ClaimedAfter(call'[d].say)
  <1>1. call \in [Calls -> Call] /\ interrupts \subseteq Interrupt
    BY DEF ThreadInv, Shape
  <1>2. ASSUME NEW c \in Calls, NEW pc, call' = Go(c, pc) PROVE call'[d].say = call[d].say
    BY <1>1, <1>2 DEF Go, Call
  <1>3. ASSUME NEW c \in Calls, call' = Fails(c) PROVE call'[d].say = call[d].say
    BY <1>1, <1>3 DEF Fails, Call
  <1>4. ASSUME NEW c \in Calls, NEW pc, NEW reply, call' = Over(c, pc, reply)
        PROVE  call'[d].say \in {call[d].say, None}
    BY <1>1, <1>4 DEF Over, Call, Idle
  <1>5. ASSUME NEW c \in Calls, NEW st, Saves(c, st) PROVE call'[d].say \in {call[d].say, None}
    BY <1>1, <1>5 DEF Saves, Call
  <1>6. ASSUME NEW c \in Calls, Load(c)
        PROVE  call'[d].say \in {call[d].say, stored, None}
    <2>1. call[c].kind \in {"invoke", "resume", "decide", "retry", "cancel"}
      BY <1>6, ThreadAssumption DEF ThreadInv, LocalInv, Load, Running
    <2>2. CASE call[c].kind = "resume" /\ head # None
      BY <1>1, <1>6, <2>2 DEF Load, Call
    <2>3. CASE call[c].kind = "decide"
      BY <1>1, <1>6, <2>3 DEF Load, Call
    <2>4. CASE ~(call[c].kind = "resume" /\ head # None) /\ call[c].kind # "decide"
      <3>1. call' = Fails(c) \/ \E st : Saves(c, st)
        BY <1>6, <2>1, <2>4 DEF Load
      <3> QED
        BY <3>1, <1>3, <1>5
    <2> QED
      BY <2>2, <2>3, <2>4
  <1>7. ASSUME NEW c \in Calls, NEW j \in interrupts, NEW b \in Answers, Decide(c, j, b)
        PROVE  call'[d].say = call[d].say \/ ClaimedAfter(call'[d].say)
    <2> DEFINE k == [j EXCEPT !.state = "resolving", !.by = c, !.said = @ \cup {b}]
    <2>1. k.said = j.said \cup {b}
      BY <1>1 DEF Interrupt
    <2>2. k \in interrupts'
      BY <1>7 DEF Decide
    <2> HIDE DEF k
    <2>3. call'[d].say \in {call[d].say, b}
      BY <1>1, <1>7 DEF Decide, Call
    <2> QED
      BY <2>1, <2>2, <2>3 DEF ClaimedAfter
  <1>8. ASSUME NEW c \in Calls, Invoke(c) \/ HeartbeatFails(c) \/ Accept(c) \/ CloseDecision(c)
        PROVE  call'[d].say = call[d].say
    BY <1>1, <1>8 DEF Invoke, HeartbeatFails, Accept, CloseDecision, Call
  <1>9. ASSUME NEW c \in Calls, NEW kind \in Kinds, Ask(c, kind)
        PROVE  call'[d].say \in {call[d].say, None}
    BY <1>1, <1>9 DEF Ask, Call, Idle
  <1>10. ASSUME NEW c \in Calls,
                \/ Bind(c) \/ Acquire(c) \/ Stops(c) \/ Settle(c) \/ Note(c) \/ Breaks(c)
                \/ Handle(c) \/ Release(c) \/ Crash(c)
         PROVE  call'[d].say \in {call[d].say, None}
    <2>1. \/ \E pc : call' = Go(c, pc)
          \/ call' = Fails(c)
          \/ \E pc, reply : call' = Over(c, pc, reply)
      BY <1>10 DEF Bind, Acquire, Stops, Settle, Note, Breaks, Handle, Release, Crash
    <2> QED
      BY <2>1, <1>2, <1>3, <1>4
  <1>11. ASSUME NEW c \in Calls, RunNode(c) PROVE call'[d].say \in {call[d].say, None}
    <2>1. \E st : Saves(c, st)
      BY <1>11 DEF RunNode
    <2> QED
      BY <2>1, <1>5
  <1>12. CASE Lapse \/ UNCHANGED vars \/ \E c \in Calls : Renew(c)
    BY <1>12 DEF Lapse, Renew, vars
  <1> QED
    BY <1>6, <1>7, <1>8, <1>9, <1>10, <1>11, <1>12 DEF Next, Act

\* No gate is passed without an answer claimed for an interrupt of the thread.
THEOREM GatesNeedAnswers == Spec => []GateNeedsAnswer
  <1>1. Init => SaidInv
    BY DEF Init, SaidInv, GateNeedsAnswer, Idle
  <1>2. ThreadInv /\ SaidInv /\ [Next]_vars => SaidInv'
    <2> SUFFICES ASSUME ThreadInv, SaidInv, [Next]_vars PROVE SaidInv'
      OBVIOUS
    <2>1. \A d \in Calls : call'[d].say # None => ClaimedAfter(call'[d].say)
      BY SaysWhatItHas, ClaimsStay DEF SaidInv
    <2>2. stored' # None => ClaimedAfter(stored')
      <3>1. stored' \in {stored, None} \/ \E c \in Calls : stored' = call[c].say
        <4>1. ASSUME NEW c \in Calls,
                     \/ Invoke(c) \/ Bind(c) \/ Acquire(c) \/ Renew(c) \/ HeartbeatFails(c)
                     \/ Crash(c) \/ RunNode(c) \/ Stops(c) \/ Settle(c) \/ Note(c)
              PROVE  stored' = stored
          BY <4>1 DEF Invoke, Bind, Acquire, Renew, HeartbeatFails, Crash, RunNode, Stops,
                      Settle, Note
        <4>2. ASSUME NEW c \in Calls,
                     Breaks(c) \/ Handle(c) \/ Release(c) \/ CloseDecision(c)
              PROVE  stored' = stored
          BY <4>2 DEF Breaks, Handle, Release, CloseDecision
        <4>3. ASSUME NEW c \in Calls, Load(c) \/ Accept(c)
              PROVE  stored' \in {stored, None, call[c].say}
          BY <4>3 DEF Load, Accept
        <4>4. ASSUME NEW c \in Calls, NEW kind \in Kinds, Ask(c, kind) PROVE stored' = stored
          BY <4>4 DEF Ask
        <4>5. ASSUME NEW c \in Calls, NEW j \in interrupts, NEW b \in Answers, Decide(c, j, b)
              PROVE  stored' = stored
          BY <4>5 DEF Decide
        <4>6. CASE Lapse \/ UNCHANGED vars
          BY <4>6 DEF Lapse, vars
        <4> QED
          BY <4>1, <4>2, <4>3, <4>4, <4>5, <4>6 DEF Next, Act
      <3> QED
        BY <3>1, ClaimsStay DEF SaidInv
    <2>3. ASSUME NEW x \in crossed' PROVE ClaimedAfter(x.answer)
      <3>1. CASE x \in crossed
        BY <3>1, ClaimsStay DEF SaidInv, GateNeedsAnswer, Claimed
      <3>2. ASSUME NEW c \in Calls, RunNode(c), x \notin crossed
            PROVE  Claimed(x.answer)
        <4>1. x.answer = call[c].say /\ call[c].say # None
          BY <3>2, <2>3 DEF RunNode, Answered
        <4> QED
          BY <4>1 DEF SaidInv
      <3>3. ASSUME NEW c \in Calls,
                   \/ Invoke(c) \/ Bind(c) \/ Acquire(c) \/ Renew(c) \/ HeartbeatFails(c)
                   \/ Crash(c) \/ Load(c) \/ Accept(c) \/ Stops(c) \/ Settle(c)
            PROVE  crossed' = crossed
        BY <3>3 DEF Invoke, Bind, Acquire, Renew, HeartbeatFails, Crash, Load, Accept,
                    Stops, Settle
      <3>4. ASSUME NEW c \in Calls,
                   Note(c) \/ Breaks(c) \/ Handle(c) \/ Release(c) \/ CloseDecision(c)
            PROVE  crossed' = crossed
        BY <3>4 DEF Note, Breaks, Handle, Release, CloseDecision
      <3>5. ASSUME NEW c \in Calls, NEW kind \in Kinds, Ask(c, kind) PROVE crossed' = crossed
        BY <3>5 DEF Ask
      <3>6. ASSUME NEW c \in Calls, NEW j \in interrupts, NEW b \in Answers, Decide(c, j, b)
            PROVE  crossed' = crossed
        BY <3>6 DEF Decide
      <3>7. ASSUME Lapse \/ UNCHANGED vars PROVE crossed' = crossed
        BY <3>7 DEF Lapse, vars
      <3>8. crossed' = crossed \/ \E c \in Calls : RunNode(c)
        BY <3>3, <3>4, <3>5, <3>6, <3>7 DEF Next, Act
      <3> QED
        BY <2>3, <3>1, <3>2, <3>8, ClaimsStay
    <2> QED
      BY <2>1, <2>2, <2>3 DEF SaidInv, GateNeedsAnswer, Claimed, ClaimedAfter
  <1>3. SaidInv => GateNeedsAnswer
    BY DEF SaidInv
  <1> QED
    BY <1>1, <1>2, <1>3, ThreadInvariant, PTL DEF Spec

=============================================================================
