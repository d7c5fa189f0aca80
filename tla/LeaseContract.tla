---------------------------- MODULE LeaseContract ----------------------------
(***************************************************************************)
(* What the factory queue promises, without clocks, timestamps or rows:    *)
(* every submitted item is in the hands of at most one worker at a time;   *)
(* only that worker moves it, never backwards; a failed or abandoned       *)
(* attempt is counted; and an item whose attempts are used up is set aside *)
(* until an operator returns it.                                           *)
(***************************************************************************)
EXTENDS Naturals

CONSTANTS
  Items, Workers,
  Least, Most,     \* the smaller and the larger attempt limit in force
  Last             \* the position of a completed item

ASSUME LimitAssumption ==
  /\ Least \in Nat \ {0} /\ Most \in Nat /\ Least <= Most
  /\ Last \in Nat \ {0}

VARIABLES
  status,     \* "absent", "ready", "owned", "done" or "dead"
  place,      \* position reached in the delivery, 0..Last
  failures,   \* attempts failed since the last success
  hands       \* items each worker may still report on

vars == <<status, place, failures, hands>>

Init ==
  /\ status   = [i \in Items |-> "absent"]
  /\ place    = [i \in Items |-> 0]
  /\ failures = [i \in Items |-> 0]
  /\ hands    = [p \in Workers |-> {}]

Submit(i) ==
  /\ status[i] = "absent"
  /\ status' = [status EXCEPT ![i] = "ready"]
  /\ place'  = [place EXCEPT ![i] = 1]
  /\ UNCHANGED <<failures, hands>>

\* A counted failure: retried while the larger limit allows it, set aside once
\* the smaller one is reached.
FailureSets(i, st) ==
  \/ st = "ready" /\ failures[i] + 1 < Most
  \/ st = "dead"  /\ failures[i] + 1 >= Least

\* Mutant: an item given up on stays in its owner's hands.
RoundKeepsHands(p, L, S) ==
  /\ hands[p] = {}
  /\ L \cap S = {}
  /\ \A i \in L : status[i] = "owned"
  /\ \A i \in S : status[i] = "ready"
  /\ \E after \in [L -> {"ready", "dead"}] :
       /\ \A i \in L : FailureSets(i, after[i])
       /\ status' = [i \in Items |-> IF i \in L THEN after[i]
                                     ELSE IF i \in S THEN "owned" ELSE status[i]]
  /\ failures' = [i \in Items |-> IF i \in L THEN failures[i] + 1 ELSE failures[i]]
  /\ hands' = [hands EXCEPT ![p] = S]
  /\ UNCHANGED place

\* Mutant: nothing is taken from an owner that is not heard of.
RoundWithoutRecovery(p, L, S) ==
  /\ hands[p] = {} /\ L = {}
  /\ \A i \in S : status[i] = "ready"
  /\ status' = [i \in Items |-> IF i \in S THEN "owned" ELSE status[i]]
  /\ hands' = [hands EXCEPT ![p] = S]
  /\ UNCHANGED <<place, failures>>

\* A worker with empty hands takes the ready items of S; the items of L, whose
\* owners were not heard of in time, are taken out of every hand.
Round(p, L, S) ==
  /\ hands[p] = {}
  /\ L \cap S = {}
  /\ \A i \in L : status[i] = "owned"
  /\ \A i \in S : status[i] = "ready"
  /\ \E after \in [L -> {"ready", "dead"}] :
       /\ \A i \in L : FailureSets(i, after[i])
       /\ status' = [i \in Items |-> IF i \in L THEN after[i]
                                     ELSE IF i \in S THEN "owned" ELSE status[i]]
  /\ failures' = [i \in Items |-> IF i \in L THEN failures[i] + 1 ELSE failures[i]]
  /\ hands' = [q \in Workers |-> IF q = p THEN S ELSE hands[q] \ L]
  /\ UNCHANGED place

\* The owner reports success: the item stands at position n, not behind before.
Succeed(p, i, n) ==
  /\ i \in hands[p]
  /\ n \in place[i]..Last
  /\ status' = [status EXCEPT ![i] = IF n = Last THEN "done" ELSE "ready"]
  /\ place' = [place EXCEPT ![i] = n]
  /\ failures' = [failures EXCEPT ![i] = 0]
  /\ hands' = [hands EXCEPT ![p] = @ \ {i}]

\* The owner reports failure.
Fail(p, i) ==
  /\ i \in hands[p]
  /\ \E st \in {"ready", "dead"} : /\ FailureSets(i, st)
                                   /\ status' = [status EXCEPT ![i] = st]
  /\ failures' = [failures EXCEPT ![i] = @ + 1]
  /\ hands' = [hands EXCEPT ![p] = @ \ {i}]
  /\ UNCHANGED place

\* A worker stops and forgets its items; they stay owned until a Round.
Forget(p) ==
  /\ hands[p] # {}
  /\ hands' = [hands EXCEPT ![p] = {}]
  /\ UNCHANGED <<status, place, failures>>

\* An operator returns a dead item to where it stood.
Return(i) ==
  /\ status[i] = "dead"
  /\ status' = [status EXCEPT ![i] = "ready"]
  /\ failures' = [failures EXCEPT ![i] = 0]
  /\ UNCHANGED <<place, hands>>

Next ==
  \/ \E i \in Items : Submit(i) \/ Return(i)
  \/ \E p \in Workers, L, S \in SUBSET Items : Round(p, L, S)
  \/ \E p \in Workers, i \in Items : \/ \E n \in 1..Last : Succeed(p, i, n)
                                     \/ Fail(p, i)
  \/ \E p \in Workers : Forget(p)

Spec == Init /\ [][Next]_vars

-----------------------------------------------------------------------------
(* Progress.  Orchestrators run forever: some process keeps opening rounds *)
(* that take a ready item or give up an unheard-of one, and a worker does  *)
(* not keep its batch for ever.  Excluded are the two ways an item may     *)
(* rightly go on for ever: an operator returning it again and again, and   *)
(* attempts that keep succeeding without moving it.                        *)

Takes(i) == \E p \in Workers, L, S \in SUBSET Items : i \in S \cup L /\ Round(p, L, S)
Idles(p) == \/ \E i \in Items : Fail(p, i) \/ \E n \in 1..Last : Succeed(p, i, n)
            \/ Forget(p)

Repeats == \E i \in Items : failures'[i] = 0 /\ place'[i] = place[i]
                            /\ status[i] = "owned" /\ status'[i] = "ready"
Returns == \E i \in Items : Return(i)

LiveSpec ==
  /\ Spec
  /\ \A i \in Items : SF_vars(Takes(i))
  /\ \A p \in Workers : WF_vars(Idles(p))

\* Every submitted item is eventually completed or set aside, unless it is
\* returned or repeated for ever (crashes, lost leases and failures of any
\* number notwithstanding).
EverySubmissionSettles ==
  (<>[][~Repeats /\ ~Returns]_vars) =>
    \A i \in Items : (status[i] # "absent") ~> (status[i] \in {"done", "dead"})

\* An item is in at most one worker's hands, and only while it is owned.
OneOwner ==
  \A p \in Workers : \A i \in hands[p] :
    /\ status[i] = "owned"
    /\ \A q \in Workers \ {p} : i \notin hands[q]

=============================================================================
