---------------------------- MODULE EffectLedger ----------------------------
(***************************************************************************)
(* The effect ledger of the job runtime: one row of job_effect_ledger and  *)
(* the calls of EffectGuard.execute for its effect key.  A call is one     *)
(* attempt of a job handler; retries, redeliveries and handlers that       *)
(* outlive their timeout make several calls run at once, in one process or *)
(* many.  Each call has an owner token of its own, so a token is the call. *)
(*                                                                         *)
(* The effect is outside the database: a request that may take hold before *)
(* or after its sender hears of it, stops waiting, or dies.  One tick of   *)
(* "now" stands for any amount of time.                                    *)
(***************************************************************************)
EXTENDS Naturals

CONSTANTS
  Calls,          \* attempts made under one effect key
  None,           \* SQL NULL
  LeaseSeconds,   \* the guard's lease on an effect it started
  HasLookup,      \* does the handler pass a lookup of the canonical effect?
  MaxTime         \* bound: the clock stops here

ASSUME LedgerAssumption ==
  /\ None \notin Calls /\ None \notin Nat
  /\ LeaseSeconds \in Nat \ {0}
  /\ HasLookup \in BOOLEAN
  /\ MaxTime \in Nat

VARIABLES
  ledger,   \* the row; status "absent" before the INSERT
  now,      \* the database clock
  at,       \* where each call is
  begun,    \* when each call became the owner
  flying,   \* calls whose request is under way
  landed,   \* calls whose request took effect
  overdue   \* history: calls that could still cause the effect when their lease ended

vars == <<ledger, now, at, begun, flying, landed, overdue>>

Ledger == [ status     : {"absent", "started", "completed", "terminal"},
            owner      : Calls \cup {None},
            leaseUntil : Nat \cup {None} ]

\* "confirm": about to record completion.  "reject": about to record that the
\* effect was refused for good.  The second line holds the ways a call ends:
\* effect done or found done; refused for good; told to try again while
\* another call owns the effect; failed on the way; process gone.
Steps == {"idle", "find", "reconcile", "lookup", "perform", "sent", "confirm", "reject"}
Ends  == {"completed", "rejected", "in_progress", "failed", "gone"}

Step(c, from, to) == at[c] = from /\ at' = [at EXCEPT ![c] = to]

\* Calls that may still make the effect happen on their own.
Active == {c \in Calls : at[c] \in {"lookup", "perform", "sent"}} \cup flying

-----------------------------------------------------------------------------
(* Actions.                                                                *)

Init ==
  /\ ledger = [status |-> "absent", owner |-> None, leaseUntil |-> None]
  /\ now = 0
  /\ at = [c \in Calls |-> "idle"]
  /\ begun = [c \in Calls |-> 0]
  /\ flying = {}
  /\ landed = {}
  /\ overdue = {}

\* The row can be inserted, or its owner's lease has run out.
Free == \/ ledger.status = "absent"
        \/ ledger.status = "started" /\ ledger.leaseUntil <= now

\* INSERT ... ON CONFLICT DO UPDATE: the call owns the effect ...
Begin(c) ==
  /\ Free
  /\ Step(c, "idle", IF HasLookup THEN "lookup" ELSE "perform")
  /\ ledger' = [status |-> "started", owner |-> c, leaseUntil |-> now + LeaseSeconds]
  /\ begun' = [begun EXCEPT ![c] = now]
  /\ UNCHANGED <<now, flying, landed, overdue>>

\* ... or the statement returns no row and the row is read on its own.
BeginConflicts(c) ==
  /\ ~Free
  /\ Step(c, "idle", "find")
  /\ UNCHANGED <<ledger, now, begun, flying, landed, overdue>>

\* Mutant: a started effect counts as done.
FindTakesStarted(c) ==
  /\ Step(c, "find", IF ledger.status = "terminal" THEN "rejected" ELSE "completed")
  /\ UNCHANGED <<ledger, now, begun, flying, landed, overdue>>

Find(c) ==
  /\ Step(c, "find", CASE ledger.status = "completed" -> "completed"
                       [] ledger.status = "terminal"  -> "rejected"
                       [] OTHER -> IF HasLookup THEN "reconcile" ELSE "in_progress")
  /\ UNCHANGED <<ledger, now, begun, flying, landed, overdue>>

\* Not the owner: ask the canonical system, whoever the owner is.
Reconcile(c) ==
  /\ Step(c, "reconcile", IF landed # {} THEN "confirm" ELSE "in_progress")
  /\ UNCHANGED <<ledger, now, begun, flying, landed, overdue>>

\* Mutant: the owner does not ask before it performs.
LookupIgnored(c) ==
  /\ Step(c, "lookup", "perform")
  /\ UNCHANGED <<ledger, now, begun, flying, landed, overdue>>

\* The owner asks the canonical system before it performs.
Lookup(c) ==
  /\ Step(c, "lookup", IF landed # {} THEN "confirm" ELSE "perform")
  /\ UNCHANGED <<ledger, now, begun, flying, landed, overdue>>

Perform(c) ==
  /\ Step(c, "perform", "sent")
  /\ flying' = flying \cup {c}
  /\ UNCHANGED <<ledger, now, begun, landed, overdue>>

\* The request takes effect, whatever has become of the call.
Land(c) ==
  /\ c \in flying
  /\ flying' = flying \ {c}
  /\ landed' = landed \cup {c}
  /\ UNCHANGED <<ledger, now, at, begun, overdue>>

Lost(c) ==
  /\ c \in flying
  /\ flying' = flying \ {c}
  /\ UNCHANGED <<ledger, now, at, begun, landed, overdue>>

\* Mutant: completion is recorded before the answer is there.
AnsweredEarly(c) ==
  /\ Step(c, "sent", "confirm")
  /\ UNCHANGED <<ledger, now, begun, flying, landed, overdue>>

\* perform returned.
Answered(c) ==
  /\ c \in landed
  /\ Step(c, "sent", "confirm")
  /\ UNCHANGED <<ledger, now, begun, flying, landed, overdue>>

\* perform threw something that may be retried: no word on whether the
\* request took or will take effect, and the row stays as it is.
Fails(c) ==
  /\ Step(c, "sent", "failed")
  /\ UNCHANGED <<ledger, now, begun, flying, landed, overdue>>

\* perform threw a JobRuntimeError that is not retryable: the effect was refused.
Refused(c) ==
  /\ c \notin landed
  /\ Step(c, "sent", "reject")
  /\ flying' = flying \ {c}
  /\ UNCHANGED <<ledger, now, begun, landed, overdue>>

\* Mutant: the refusal is recorded over any other outcome.
TerminalAnyway(c) ==
  /\ Step(c, "reject", "rejected")
  /\ ledger' = [ledger EXCEPT !.status = "terminal", !.leaseUntil = None]
  /\ UNCHANGED <<now, begun, flying, landed, overdue>>

\* terminal(): the row of the owner only, and only while it is started.
Terminal(c) ==
  /\ Step(c, "reject", "rejected")
  /\ ledger' = IF ledger.owner = c /\ ledger.status = "started"
               THEN [ledger EXCEPT !.status = "terminal", !.leaseUntil = None]
               ELSE ledger
  /\ UNCHANGED <<now, begun, flying, landed, overdue>>

\* Mutant: the lease is not cleared.
CompleteKeepsLease(c) ==
  /\ Step(c, "confirm", IF ledger.status = "terminal" THEN "rejected" ELSE "completed")
  /\ ledger' = IF ledger.status = "terminal" THEN ledger
               ELSE [ledger EXCEPT !.status = "completed"]
  /\ UNCHANGED <<now, begun, flying, landed, overdue>>

\* complete(): the row of whoever owns it; throws once it is terminal.
Complete(c) ==
  /\ Step(c, "confirm", IF ledger.status = "terminal" THEN "rejected" ELSE "completed")
  /\ ledger' = IF ledger.status = "terminal" THEN ledger
               ELSE [ledger EXCEPT !.status = "completed", !.leaseUntil = None]
  /\ UNCHANGED <<now, begun, flying, landed, overdue>>

\* The process stops, or a query fails and the error leaves the call.
Crash(c) ==
  /\ at[c] \in Steps \ {"idle"}
  /\ at' = [at EXCEPT ![c] = "gone"]
  /\ UNCHANGED <<ledger, now, begun, flying, landed, overdue>>

\* Nothing ends a call, or calls its request back, when its lease ends.
Tick ==
  /\ now < MaxTime
  /\ now' = now + 1
  /\ overdue' = overdue \cup {c \in Active : now + 1 >= begun[c] + LeaseSeconds}
  /\ UNCHANGED <<ledger, at, begun, flying, landed>>

Next ==
  \/ \E c \in Calls :
       \/ Begin(c) \/ BeginConflicts(c) \/ Find(c) \/ Reconcile(c) \/ Lookup(c)
       \/ Perform(c) \/ Land(c) \/ Lost(c) \/ Answered(c) \/ Fails(c) \/ Refused(c)
       \/ Terminal(c) \/ Complete(c) \/ Crash(c)
  \/ Tick

Spec == Init /\ [][Next]_vars

-----------------------------------------------------------------------------
(* Properties.                                                             *)

\* The row and the calls hold values of their types, and every statement
\* leaves a row the table's CHECK accepts: a lease goes with status started.
LedgerTypeOK ==
  /\ ledger \in Ledger
  /\ ledger.status = "started" <=> ledger.leaseUntil # None
  /\ now \in Nat
  /\ at \in [Calls -> Steps \cup Ends]
  /\ begun \in [Calls -> Nat]
  /\ flying \in SUBSET Calls
  /\ landed \in SUBSET Calls
  /\ overdue \in SUBSET Calls

\* Of all the attempts made under one effect key, however they crash, time out,
\* overlap or are redelivered, one at most takes effect besides those that were
\* still at work when their lease ended, provided handlers look the effect up.
AppliedOnce == HasLookup => \A c, d \in (landed \cup flying) \ overdue : c = d

\* What callers and the row say of the effect is true: reported or recorded
\* as completed it took place; recorded as refused it did not, and no request
\* is left that could still make it happen, but for calls that outlived their lease.
AnswersAreTrue ==
  /\ ledger.status = "completed" \/ (\E c \in Calls : at[c] = "completed") => landed # {}
  /\ HasLookup /\ ledger.status = "terminal" => landed \cup flying \subseteq overdue

\* A settled effect is never opened again, nor its verdict changed, by the late
\* answer of a call that lost its lease.
SettledIsFinal ==
  [][ledger.status \in {"completed", "terminal"} => ledger'.status = ledger.status]_vars

-----------------------------------------------------------------------------
(* Why the effect is applied once: the inductive invariant.                *)

\* Nothing is called completed before the effect took place.
Truthful ==
  /\ ledger.status = "completed" => landed # {}
  /\ \A c \in Calls : at[c] \in {"confirm", "completed"} => landed # {}

\* A call that may still cause the effect within its lease owns the row under it.
Owns(c) ==
  /\ ledger.owner = c
  /\ now < begun[c] + LeaseSeconds
  /\ ledger.status \in {"started", "completed"}
  /\ ledger.status = "started" => ledger.leaseUntil = begun[c] + LeaseSeconds

\* Past its lookup the owner, overdue or not, found no effect but those of calls
\* that outlived their lease.
FoundNone(c) ==
  ledger.owner = c /\ (at[c] \in {"perform", "sent", "reject"} \/ c \in flying) =>
    landed \ overdue \subseteq {c}

OnceInv ==
  /\ \A c \in Active \ overdue : Owns(c)
  /\ \A c \in Calls : FoundNone(c)
  /\ \A c \in Calls : at[c] = "idle" => ledger.owner # c /\ c \notin overdue
  /\ \A c \in Calls : at[c] \in {"idle", "lookup", "perform", "reject"} => c \notin flying \cup landed
  /\ flying \cap landed = {}
  /\ \A c, d \in landed \ overdue : c = d
  /\ ledger.status = "terminal" => landed \cup flying \subseteq overdue

\* Together they are preserved by every step of a well-typed state.
EffectInv == Truthful /\ (HasLookup => OnceInv)

=============================================================================
