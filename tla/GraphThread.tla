---------------------------- MODULE GraphThread ----------------------------
(***************************************************************************)
(* One LangGraph thread and the calls that drive it: the row of            *)
(* factory_threads with its lease and accepted checkpoint, the interrupt   *)
(* rows of human gates, and the invoke, resume, decide, retry and cancel   *)
(* calls of any number of processes.                                       *)
(*                                                                         *)
(* A call takes the thread's lease, reads the accepted checkpoint and runs *)
(* the graph from it.  Each step saves a checkpoint row and then, in a     *)
(* second statement, makes it the accepted one; a row that is not accepted *)
(* is never read.  When the heartbeat fails the caller is answered at once *)
(* while the action behind it runs on until it settles.                    *)
(*                                                                         *)
(* Time is one bit: whether the lease in the row has run out.  A call is   *)
(* made once; its owner id is a fresh UUID, here the call itself.          *)
(***************************************************************************)
EXTENDS GraphLifecycle, FiniteSets

CONSTANTS
  Calls,      \* requests made of the thread in this instance
  Kinds,      \* the kinds of request made in this instance
  MaxFaults   \* bound: crashes, lapses, lost heartbeats and errors

ASSUME ThreadAssumption ==
  /\ Kinds \subseteq {"invoke", "resume", "decide", "retry", "cancel"}
  /\ None \notin Calls
  /\ None \notin [by : Calls, nth : Nat, st : LifecycleState]
  /\ None \notin {"accept", "reject"}
  /\ MaxFaults \in Nat

VARIABLES
  thread,      \* the row: status, lease owner, whether the lease has run out
  head,        \* the accepted checkpoint, or None
  stored,      \* the answer saved with the accepted checkpoint, or None
  call,        \* per call: where it stands
  interrupts,  \* rows of factory_interrupts
  faults,      \* bound: faults so far
  crossed      \* history: the gates passed, and with which answer

vars == <<thread, head, stored, call, interrupts, faults, crossed>>

\* The run as its accepted checkpoints tell it.
Run == IF head = None THEN None ELSE head.st

Lifecycle == INSTANCE GraphRun WITH run <- Run

-----------------------------------------------------------------------------
(* Rows and calls.                                                         *)

Open    == {"active", "paused"}
Closed  == {"completed", "failed", "cancelled"}

\* "accept" stands for accept and edit, which both let the gate pass.
Answers == {"accept", "reject"}

Checkpoint == [by : Calls, nth : Nat, st : LifecycleState]

\* An interrupt row: the checkpoint its gate was raised at, its state, the
\* call resolving it, and (history) every answer ever claimed for it.
Interrupt == [ at    : Checkpoint,
               state : {"pending", "resolving", "resolved"},
               by    : Calls \cup {None},
               said  : SUBSET Answers ]

\* A call's action holds the lease and works.
Running == {"load", "run", "saved", "settle", "note", "failing", "release"}

\* kind: the request.  pc: where its action stands.  live: the local lease
\* guard.  at: the checkpoint the graph has reached in memory.  put: the
\* checkpoint saved and not yet accepted.  say: the answer it carries.
\* about: the interrupt it answers.  result: what the action will return.
\* reply: what the caller has been told, and then what the operator's record
\* of the call says.
Call == [ kind   : Kinds \cup {None},
          pc     : {"idle", "bind", "acquire", "done", "dead"} \cup Running,
          live   : BOOLEAN,
          at     : Checkpoint \cup {None},
          put    : Checkpoint \cup {None},
          say    : Answers \cup {None},
          about  : Checkpoint \cup {None},
          result : {"ok", "error"},
          reply  : {"waiting", "ok", "error", "closed", "lost"} ]

Idle == [ kind |-> None, pc |-> "idle", live |-> TRUE, at |-> None, put |-> None,
          say |-> None, about |-> None, result |-> "ok", reply |-> "waiting" ]

\* The lease fence of recordCheckpoint, of a checkpoint's COMMIT and of a
\* status update, as the database sees it.
Owns(c) == thread.owner = c /\ ~thread.lapsed

\* The fence together with the process's own guard.
Fenced(c) == call[c].live /\ Owns(c)

Go(c, pc) == [call EXCEPT ![c].pc = pc]

\* The action of c fails; the caller has not been told yet.
Fails(c) == [call EXCEPT ![c].pc = "failing", ![c].result = "error", ![c].put = None]

\* The action of c is over; the caller's answer is left to give.
Over(c, pc, reply) ==
  [call EXCEPT ![c] = [Idle EXCEPT !.kind = call[c].kind, !.pc = pc, !.reply = reply]]

Active(i) == i.state \in {"pending", "resolving"}

Fault == faults < MaxFaults /\ faults' = faults + 1

-----------------------------------------------------------------------------
Init ==
  /\ thread = [status |-> "absent", owner |-> None, lapsed |-> FALSE]
  /\ head = None
  /\ stored = None
  /\ call = [c \in Calls |-> Idle]
  /\ interrupts = {}
  /\ faults = 0
  /\ crossed = {}

-----------------------------------------------------------------------------
(* A request arrives.                                                      *)

\* Starting a run registers the thread, or finds it registered.
Invoke(c) ==
  /\ "invoke" \in Kinds
  /\ call[c].pc = "idle"
  /\ thread' = IF thread.status = "absent" THEN [thread EXCEPT !.status = "active"]
               ELSE thread
  /\ call' = [call EXCEPT ![c].kind = "invoke", ![c].pc = "acquire"]
  /\ UNCHANGED <<head, stored, interrupts, faults, crossed>>

\* A resume, or a retry or cancel whose row of factory_run_actions has been
\* claimed.  A cancel of a thread already closed is refused at once.
Ask(c, kind) ==
  /\ kind \in Kinds \cap {"resume", "retry", "cancel"}
  /\ call[c].pc = "idle"
  /\ thread.status # "absent"
  /\ call' = IF kind = "cancel" /\ thread.status \in Closed
             THEN [call EXCEPT ![c] = [Idle EXCEPT !.kind = kind, !.pc = "done", !.reply = "error"]]
             ELSE [call EXCEPT ![c].kind = kind, ![c].pc = "acquire"]
  /\ UNCHANGED <<thread, head, stored, interrupts, faults, crossed>>

\* An answer claims its interrupt, if it is still pending.
Decide(c, i, answer) ==
  /\ "decide" \in Kinds
  /\ call[c].pc = "idle"
  /\ i \in interrupts
  /\ i.state = "pending"
  /\ interrupts' = (interrupts \ {i}) \cup
       {[i EXCEPT !.state = "resolving", !.by = c, !.said = @ \cup {answer}]}
  /\ call' = [call EXCEPT ![c].kind = "decide", ![c].pc = "bind",
                          ![c].say = answer, ![c].about = i.at]
  /\ UNCHANGED <<thread, head, stored, faults, crossed>>

\* The accepted checkpoint must be the one the interrupt was raised at.
\* Nothing is held yet when it is read.
Bind(c) ==
  /\ call[c].pc = "bind"
  /\ call' = IF head = call[c].about THEN Go(c, "acquire")
             ELSE Over(c, "done", "error")
  /\ UNCHANGED <<thread, head, stored, interrupts, faults, crossed>>

-----------------------------------------------------------------------------
(* The lease.                                                              *)

\* The lease is free or has run out, and the thread is not closed.
MayAcquire == /\ thread.status \in Open
              /\ thread.owner = None \/ thread.lapsed

Acquire(c) ==
  /\ call[c].pc = "acquire"
  /\ IF MayAcquire
     THEN /\ thread' = [thread EXCEPT !.owner = c, !.lapsed = FALSE]
          /\ call' = Go(c, "load")
     ELSE /\ call' = Over(c, "done", "error")
          /\ UNCHANGED thread
  /\ UNCHANGED <<head, stored, interrupts, faults, crossed>>

\* A heartbeat renews the lease of its owner, run out or not.
Renew(c) ==
  /\ call[c].pc \in Running
  /\ thread.owner = c
  /\ thread.lapsed
  /\ thread' = [thread EXCEPT !.lapsed = FALSE]
  /\ UNCHANGED <<head, stored, call, interrupts, faults, crossed>>

\* The lease runs out: freely when its owner is gone, as a fault when the
\* owner's heartbeats are late.
Lapse ==
  /\ thread.owner # None
  /\ ~thread.lapsed
  /\ IF call[thread.owner].pc = "dead" THEN UNCHANGED faults ELSE Fault
  /\ thread' = [thread EXCEPT !.lapsed = TRUE]
  /\ UNCHANGED <<head, stored, call, interrupts, crossed>>

\* A heartbeat fails, by timeout or because the lease is another's.  The
\* guard fails and the caller hears it; the action is not stopped.
HeartbeatFails(c) ==
  /\ call[c].pc \in Running
  /\ call[c].live
  /\ IF thread.owner = c THEN Fault ELSE UNCHANGED faults
  /\ call' = [call EXCEPT ![c].live = FALSE,
                          ![c].reply = IF @ = "waiting" THEN "error" ELSE @]
  /\ UNCHANGED <<thread, head, stored, interrupts, crossed>>

Crash(c) ==
  /\ call[c].pc \notin {"idle", "dead"}
  /\ ~(call[c].pc = "done" /\ call[c].reply = "closed")
  /\ Fault
  /\ call' = Over(c, "dead", IF call[c].reply = "closed" THEN "closed" ELSE "lost")
  /\ UNCHANGED <<thread, head, stored, interrupts, crossed>>

-----------------------------------------------------------------------------
(* The action under the lease.                                             *)

\* The next checkpoint of c, with state st.
Following(c, st) ==
  [by |-> c, nth |-> IF head = None THEN 1 ELSE head.nth + 1, st |-> st]

Saves(c, st) ==
  call' = [call EXCEPT ![c].pc = "saved", ![c].put = Following(c, st), ![c].say = None]

\* The action reads the accepted checkpoint and begins.
Load(c) ==
  /\ call[c].pc = "load"
  /\ Fenced(c)
  /\ CASE call[c].kind = "invoke" ->
            IF head = None THEN Saves(c, StartState) ELSE call' = Fails(c)
       [] call[c].kind = "resume" ->
            IF head # None
            THEN call' = [call EXCEPT ![c].pc = "run", ![c].at = head, ![c].say = stored]
            ELSE call' = Fails(c)
       [] call[c].kind = "decide" ->
            call' = [call EXCEPT ![c].pc = "run", ![c].at = head]
       [] call[c].kind = "retry" ->
            IF head # None /\ RetryEligible(head.st)
            THEN Saves(c, Retried(head.st)) ELSE call' = Fails(c)
       [] call[c].kind = "cancel" ->
            IF head # None /\ head.st.node # None
            THEN Saves(c, Cancelled(head.st)) ELSE call' = Fails(c)
  /\ stored' = IF call[c].kind = "decide" THEN call[c].say ELSE stored
  /\ UNCHANGED <<thread, head, interrupts, faults, crossed>>

\* The next node of the checkpoint c has reached.
Ahead(c) == Route(call[c].at.st)

\* A gated node runs only with an answer.
Answered(c) == Ahead(c) \in Gates => call[c].say # None

\* The node is executed and its checkpoint saved: the row is committed under
\* the lease, on top of the accepted checkpoint.
RunNode(c) ==
  /\ call[c].pc = "run"
  /\ Ahead(c) # "end"
  /\ Answered(c)
  /\ Fenced(c)
  /\ call[c].at = head
  /\ IF Ahead(c) \in Gates /\ call[c].say = "reject"
     THEN Saves(c, Rejected(Ahead(c), head.st))
     ELSE \E st \in Executed(Ahead(c), head.st) : Saves(c, st)
  /\ crossed' = IF Ahead(c) \in Gates
                THEN crossed \cup {[at |-> head, answer |-> call[c].say]}
                ELSE crossed
  /\ UNCHANGED <<thread, head, stored, interrupts, faults>>

\* Mutant: the saved checkpoint is accepted whoever holds the lease.
AcceptUnfenced(c) == TRUE

\* The second statement: the saved checkpoint becomes the accepted one.  It
\* is fenced by the lease in the row, not by what has been accepted since; the
\* process looked at its own guard before it sent the statement (see Breaks).
AcceptFence(c) == Owns(c)

Accept(c) ==
  /\ call[c].pc = "saved"
  /\ AcceptFence(c)
  /\ head' = call[c].put
  /\ stored' = None
  /\ call' = [call EXCEPT ![c].pc = "run", ![c].at = call[c].put, ![c].put = None]
  /\ UNCHANGED <<thread, interrupts, faults, crossed>>

\* The graph has nothing more to run, or stands before a gate.
Stops(c) ==
  /\ call[c].pc = "run"
  /\ Ahead(c) = "end" \/ ~Answered(c)
  /\ call' = Go(c, "settle")
  /\ UNCHANGED <<thread, head, stored, interrupts, faults, crossed>>

\* Mutant: the lifecycle status is taken over as it is.
CompletionStatusRaw(st) == IF Route(st) # "end" THEN "paused" ELSE st.status

\* Mutant: a graph that stopped counts as finished.
CompletionStatusStopped(st) ==
  CASE st.status = "cancelled"                  -> "cancelled"
    [] st.status \in {"failed", "dead_letter"}  -> "failed"
    [] OTHER                                    -> "completed"

\* The status an action that stopped leaves the thread in.
CompletionStatus(st) ==
  IF Route(st) # "end" THEN "paused"
  ELSE CASE st.status = "cancelled"                 -> "cancelled"
         [] st.status \in {"failed", "dead_letter"} -> "failed"
         [] OTHER                                   -> "completed"

Settle(c) ==
  /\ call[c].pc = "settle"
  /\ Fenced(c)
  /\ thread' = [thread EXCEPT !.status = CompletionStatus(head.st)]
  /\ call' = Go(c, IF CompletionStatus(head.st) = "paused" THEN "note" ELSE "release")
  /\ UNCHANGED <<head, stored, interrupts, faults, crossed>>

\* The gate's interrupt is recorded, in a statement of its own and without a
\* fence.  One interrupt of a thread may be active; another's is an error.
Note(c) ==
  /\ call[c].pc = "note"
  /\ LET mine   == {i \in interrupts : i.at = call[c].at}
         others == {i \in interrupts \ mine : Active(i)}
     IN  IF mine = {} /\ others = {}
         THEN /\ interrupts' = interrupts \cup
                   {[at |-> call[c].at, state |-> "pending", by |-> None, said |-> {}]}
              /\ call' = Go(c, "release")
         ELSE /\ call' = IF \E i \in mine : i.state = "pending"
                         THEN Go(c, "release") ELSE Fails(c)
              /\ UNCHANGED interrupts
  /\ UNCHANGED <<thread, head, stored, faults, crossed>>

\* A step of the action fails: because the guard or the fence refuses it, or
\* for a reason of its own (the database, a timeout).
Breaks(c) ==
  /\ call[c].pc \in {"load", "run", "saved", "settle", "note"}
  /\ IF Fenced(c) \/ (call[c].pc = "note" /\ call[c].live)
     THEN Fault ELSE UNCHANGED faults
  /\ call' = Fails(c)
  /\ UNCHANGED <<thread, head, stored, interrupts, crossed>>

\* Mutant: the thread is marked paused without the lease (updateStatus).
HandleUnfenced(c) ==
  /\ call[c].pc = "failing"
  /\ thread' = IF call[c].kind \in {"invoke", "resume"}
               THEN [thread EXCEPT !.status = "paused"] ELSE thread
  /\ call' = Go(c, "release")
  /\ UNCHANGED <<head, stored, interrupts, faults, crossed>>

\* An invoke or a resume that failed marks the thread paused, if it may.
Handle(c) ==
  /\ call[c].pc = "failing"
  /\ thread' = IF call[c].kind \in {"invoke", "resume"} /\ Fenced(c)
               THEN [thread EXCEPT !.status = "paused"] ELSE thread
  /\ call' = Go(c, "release")
  /\ UNCHANGED <<head, stored, interrupts, faults, crossed>>

\* The action has settled: the lease goes back, the caller is answered.
Release(c) ==
  /\ call[c].pc = "release"
  /\ thread' = IF thread.owner = c
               THEN [thread EXCEPT !.owner = None, !.lapsed = FALSE] ELSE thread
  /\ call' = Over(c, "done", IF call[c].reply = "waiting" THEN call[c].result
                             ELSE call[c].reply)
  /\ UNCHANGED <<head, stored, interrupts, faults, crossed>>

-----------------------------------------------------------------------------
(* The operator service records the outcome.                               *)

\* An interrupt after its call: resolved, or given back.
Concluded(i, ok) ==
  IF ok THEN [i EXCEPT !.state = "resolved"]
  ELSE [i EXCEPT !.state = "pending", !.by = None]

CloseDecision(c) ==
  /\ call[c].kind = "decide"
  /\ call[c].reply \in {"ok", "error"}
  /\ interrupts' = {IF i.state = "resolving" /\ i.by = c
                    THEN Concluded(i, call[c].reply = "ok") ELSE i : i \in interrupts}
  /\ call' = [call EXCEPT ![c].reply = "closed"]
  /\ UNCHANGED <<thread, head, stored, faults, crossed>>

-----------------------------------------------------------------------------
Act(c) == \/ Invoke(c) \/ (\E k \in Kinds : Ask(c, k))
          \/ (\E i \in interrupts, a \in Answers : Decide(c, i, a))
          \/ Bind(c) \/ Acquire(c) \/ Renew(c) \/ HeartbeatFails(c) \/ Crash(c)
          \/ Load(c) \/ RunNode(c) \/ Accept(c) \/ Stops(c) \/ Settle(c) \/ Note(c)
          \/ Breaks(c) \/ Handle(c) \/ Release(c) \/ CloseDecision(c)

Next == Lapse \/ \E c \in Calls : Act(c)

Spec == Init /\ [][Next]_vars

-----------------------------------------------------------------------------
(* Properties.                                                             *)

ThreadTypeOK ==
  /\ thread \in [ status : Open \cup Closed \cup {"absent"},
                  owner : Calls \cup {None}, lapsed : BOOLEAN ]
  /\ head \in Checkpoint \cup {None}
  /\ stored \in Answers \cup {None}
  /\ call \in [Calls -> Call]
  /\ \A i \in interrupts : i \in Interrupt
  /\ Cardinality({i \in interrupts : Active(i)}) <= 1
  /\ faults \in 0..MaxFaults

\* Whatever callers, leases and crashes do, the accepted checkpoints tell one
\* run of the lifecycle: each follows from the one before by executing the
\* node the router names, by an operator's retry or by a cancel.
ImplementsLifecycle == Lifecycle!Spec

\* A thread is closed only when its accepted checkpoint leaves the graph
\* nothing to run, as cancelled or failed exactly when that checkpoint says so.
ClosedAgrees ==
  thread.status \in Closed =>
    /\ head # None
    /\ Route(head.st) = "end"
    /\ thread.status = "cancelled" <=> head.st.status = "cancelled"
    /\ thread.status = "failed" <=> head.st.status \in {"failed", "dead_letter"}

\* A closed thread stays as it is: a slow call never moves its checkpoint or
\* opens it again, so a cancelled run dispatches nothing more.
ClosedForGood ==
  [][thread.status \in Closed => UNCHANGED <<thread.status, head>>]_vars

\* No gate is passed, in any order of answers, retries, resumes and crashes,
\* without an answer that was claimed for an interrupt of the thread.
GateNeedsAnswer ==
  \A x \in crossed : \E i \in interrupts : x.answer \in i.said

\* An answer passes the gate it was claimed for, and no other: a decision is
\* bound to the exact interrupt and checkpoint it was given for.
AnswerFitsGate ==
  \A x \in crossed :
    \E i \in interrupts : /\ x.answer \in i.said
                          /\ Route(i.at.st) = Route(x.at.st)

\* No round of QA, fix, failure, retry or cancel takes a run to review or
\* beyond without a standing QA pass: a fix voids the verdict before it.
PastQaMeansPassed ==
  head # None /\ head.st.node \in AfterQa => head.st.qa = "pass"

\* An interrupt whose gate has been passed is not open to a second answer.
AnsweredOnce ==
  \A x \in crossed : \A i \in interrupts : i.at = x.at => i.state # "pending"

=============================================================================
