------------------------- MODULE TransactionalQueue -------------------------
(***************************************************************************)
(* What each of the two queues of the audit store promises, without        *)
(* tables, locks or rebuilds: an item that has entered is in the hands of  *)
(* at most one worker at a time; a worker takes several and closes them    *)
(* all at once; an item is acknowledged only with its effect in place, and *)
(* then for good; a failure is counted, and an item that has failed Limit  *)
(* times is set aside.  An effect may take place more often than once, and *)
(* without being acknowledged.                                             *)
(***************************************************************************)
EXTENDS Naturals

CONSTANTS
  Items, Workers,
  Limit          \* failures after which an item is set aside

VARIABLES
  status,     \* "absent", "waiting", "acked" or "dead"
  failures,   \* failures of an item so far
  hands,      \* items each worker has taken
  effects     \* items whose effect has taken place

vars == <<status, failures, hands, effects>>

Init ==
  /\ status   = [i \in Items |-> "absent"]
  /\ failures = [i \in Items |-> 0]
  /\ hands    = [w \in Workers |-> {}]
  /\ effects  = {}

Enter(i) ==
  /\ status[i] = "absent"
  /\ status' = [status EXCEPT ![i] = "waiting"]
  /\ UNCHANGED <<failures, hands, effects>>

\* A worker with empty hands takes waiting items that nobody has.
Take(w, S) ==
  /\ hands[w] = {}
  /\ S # {}
  /\ \A i \in S : status[i] = "waiting" /\ \A v \in Workers : i \notin hands[v]
  /\ hands' = [hands EXCEPT ![w] = S]
  /\ UNCHANGED <<status, failures, effects>>

\* An effect that is seen before its item is closed.
Act(w, i) ==
  /\ i \in hands[w]
  /\ effects' = effects \cup {i}
  /\ UNCHANGED <<status, failures, hands>>

\* Of the items taken those of ok have succeeded and the others failed.
Close(w, ok) ==
  LET bad == hands[w] \ ok IN
  /\ hands[w] # {} /\ ok \subseteq hands[w]
  /\ effects' = effects \cup ok
  /\ failures' = [i \in Items |-> IF i \in bad THEN failures[i] + 1 ELSE failures[i]]
  /\ status' = [i \in Items |-> IF i \in ok THEN "acked"
                                ELSE IF i \in bad /\ failures'[i] >= Limit THEN "dead"
                                ELSE status[i]]
  /\ hands' = [hands EXCEPT ![w] = {}]

\* A worker stops: its items wait again, as they were.
Abandon(w) ==
  /\ hands[w] # {}
  /\ hands' = [hands EXCEPT ![w] = {}]
  /\ UNCHANGED <<status, failures, effects>>

\* An operator has effects made anew, for items of any status.
Redo(S) ==
  /\ \A i \in S : status[i] # "absent"
  /\ effects' = effects \cup S
  /\ UNCHANGED <<status, failures, hands>>

Next ==
  \/ \E i \in Items : Enter(i)
  \/ \E w \in Workers : \/ \E S \in SUBSET Items : Take(w, S) \/ Close(w, S)
                        \/ \E i \in Items : Act(w, i)
                        \/ Abandon(w)
  \/ \E S \in SUBSET Items : Redo(S)

Spec == Init /\ [][Next]_vars

\* What users of the queue rely on: an item in a hand waits and is in no other
\* hand, an acknowledged one has had its effect, and an item is set aside
\* exactly when it has failed Limit times.
Promise ==
  /\ \A w \in Workers : \A i \in hands[w] :
       status[i] = "waiting" /\ \A v \in Workers \ {w} : i \notin hands[v]
  /\ \A i \in Items : status[i] = "acked" => i \in effects
  /\ \A i \in Items : status[i] = "dead" <=> failures[i] >= Limit

=============================================================================
