--------------------------- MODULE GraphLifecycle ---------------------------
(***************************************************************************)
(* The factory lifecycle as the LangGraph definition has it: fourteen      *)
(* nodes, what executing a node does to the run's state, and where the     *)
(* router goes next.  GraphRun makes a run of them, one step at a time;    *)
(* GraphThread has the callers, leases and crashes that produce the steps. *)
(*                                                                         *)
(* A port returns success or throws, as every production handler does; the *)
(* QA port also gives a verdict.  Artifacts, decisions and child runs      *)
(* decide no route and are left out.                                       *)
(***************************************************************************)
EXTENDS Naturals, Sequences

CONSTANTS
  None,             \* no checkpoint, no lifecycle node, no QA outcome
  Fallible,         \* nodes whose port may fail in this instance
  Gates,            \* nodes with a human gate
  MaxNodeAttempts,  \* maxNodeAttempts of the lifecycle definition
  MaxQaAttempts,    \* maxQaAttempts of the lifecycle definition
  RetryMax          \* attempts after which an operator may not retry a node

-----------------------------------------------------------------------------
(* Nodes and states.                                                       *)

LIFECYCLE_NODE_NAMES ==
  << "intake", "pm_refinement", "execution_contract", "architect_handoff",
     "child_execution", "implementation", "qa", "fix", "review",
     "merge_readiness", "deployment", "sre", "closeout", "terminal" >>

Names == {LIFECYCLE_NODE_NAMES[i] : i \in 1..14}

\* The nodes that deliver what QA has passed.
AfterQa == {"review", "merge_readiness", "deployment", "sre", "closeout"}

TERMINAL_STATUSES == {"succeeded", "failed", "dead_letter", "cancelled"}

LifecycleState ==
  [ node       : Names \cup {None},
    status     : TERMINAL_STATUSES \cup {"running", "retrying"},
    qa         : {"pass", "fail", None},
    qaAttempts : Nat,
    attempts   : [Names -> Nat] ]

ASSUME LifecycleAssumption ==
  /\ None \notin Names \cup {"pass", "fail"}
  /\ None \notin LifecycleState
  /\ Fallible \subseteq Names
  /\ Gates \subseteq Names
  /\ MaxNodeAttempts \in Nat \ {0}
  /\ MaxQaAttempts \in Nat \ {0}
  /\ RetryMax \in Nat \ {0}

StartState == [ node |-> None, status |-> "running", qa |-> None,
                qaAttempts |-> 0, attempts |-> [n \in Names |-> 0] ]

-----------------------------------------------------------------------------
(* Executing a node.                                                       *)

\* What the executor makes of an error thrown on the given attempt.
classifyFailure(error, attempt) ==
  IF error = "cancelled" THEN "cancelled"
  ELSE IF attempt >= MaxNodeAttempts THEN "dead_letter"
  ELSE IF error = "retryable" THEN "retry" ELSE "failed"

\* The outcomes of one execution of a node.
Outcomes(n, attempt) ==
  {"success"} \cup
  IF n \in Fallible
  THEN {classifyFailure(e, attempt) : e \in {"cancelled", "retryable", "fatal"}}
  ELSE {}

\* The QA port's verdict; without one, success passes and all else fails.
Verdicts(n, outcome) ==
  IF n # "qa" THEN {None}
  ELSE IF outcome # "success" THEN {"fail"}
  ELSE {"pass"} \cup IF "qa" \in Fallible THEN {"fail"} ELSE {}

Exhausted(n, st, verdict) ==
  n = "qa" /\ verdict = "fail" /\ st.qaAttempts + 1 >= MaxQaAttempts

StatusAfter(n, st, outcome) ==
  IF n = "terminal" THEN st.status
  ELSE CASE outcome = "success" -> IF n = "closeout" THEN "succeeded" ELSE "running"
         [] outcome = "retry"   -> "retrying"
         [] OTHER               -> outcome

QaAfter(n, st, outcome, verdict) ==
  CASE n = "qa"                           -> verdict
    [] n = "fix" /\ outcome = "success"   -> None
    [] OTHER                              -> st.qa

lifecycleUpdate(n, st, result, verdict) ==
  LET outcome == IF Exhausted(n, st, verdict) THEN "dead_letter" ELSE result
  IN  [ node       |-> n,
        status     |-> StatusAfter(n, st, outcome),
        qa         |-> QaAfter(n, st, outcome, verdict),
        qaAttempts |-> IF n = "qa" THEN st.qaAttempts + 1 ELSE st.qaAttempts,
        attempts   |-> [st.attempts EXCEPT ![n] = @ + 1] ]

\* The states an execution of n can leave behind.
Executed(n, st) ==
  UNION { { lifecycleUpdate(n, st, o, v) : v \in Verdicts(n, o) } :
          o \in Outcomes(n, st.attempts[n] + 1) }

\* A gate answered with reject: the port is not called.
Rejected(n, st) ==
  [ st EXCEPT !.node = n, !.status = "failed",
              !.attempts = [st.attempts EXCEPT ![n] = @ + 1] ]

-----------------------------------------------------------------------------
(* Routing.                                                                *)

Successor(n) == LET i == CHOOSE k \in 1..14 : LIFECYCLE_NODE_NAMES[k] = n
                IN  LIFECYCLE_NODE_NAMES[i + 1]

standardRoute(st, next) ==
  CASE st.status \in TERMINAL_STATUSES -> "terminal"
    [] st.status = "retrying"          -> st.node
    [] OTHER                           -> next

\* Mutant: a fix goes on to the next node of the list.
AfterFixOnward == Successor("fix")

\* After a fix the work goes back to QA.
AfterFix == "qa"

Route(st) ==
  CASE st.node = None       -> "intake"
    [] st.node = "terminal" -> "end"
    [] st.node = "closeout" -> IF st.status = "succeeded" THEN "end" ELSE "terminal"
    [] st.node = "qa"       -> standardRoute(st, IF st.qa = "fail" THEN "fix" ELSE "review")
    [] st.node = "fix"      -> standardRoute(st, AfterFix)
    [] OTHER                -> standardRoute(st, Successor(st.node))

-----------------------------------------------------------------------------
(* The operator's two updates of a run's state.                            *)

RetryEligible(st) ==
  /\ st.node # None
  /\ st.status \in {"failed", "dead_letter", "retrying"}
  /\ st.attempts[st.node] < RetryMax

Retried(st)   == [st EXCEPT !.status = "retrying"]
Cancelled(st) == [st EXCEPT !.status = "cancelled"]

=============================================================================
