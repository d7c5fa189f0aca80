------------------------ MODULE LeaseContractProofs ------------------------
(***************************************************************************)
(* The contract keeps its promise: no item is ever in two workers' hands.  *)
(***************************************************************************)
EXTENDS LeaseContract, TLAPS

\* Hands hold items, and every item in a hand is owned and in no other hand.
HandsInv ==
  /\ status \in [Items -> {"absent", "ready", "owned", "done", "dead"}]
  /\ hands \in [Workers -> SUBSET Items]
  /\ OneOwner

\* A step that takes item i out of the one hand that held it, or finds it in
\* no hand, may give it any status.
LEMMA ItemLetGo ==
  ASSUME HandsInv, NEW i \in Items, NEW p \in Workers,
         i \in hands[p] \/ status[i] # "owned",
         NEW st \in {"absent", "ready", "done", "dead"},
         status' = [status EXCEPT ![i] = st],
         hands' = [hands EXCEPT ![p] = @ \ {i}]
  PROVE  HandsInv'
<1>1. /\ status' \in [Items -> {"absent", "ready", "owned", "done", "dead"}]
      /\ hands' \in [Workers -> SUBSET Items]
  BY DEF HandsInv
<1>2. \A q \in Workers : hands'[q] = hands[q] \ {i}
  BY DEF HandsInv, OneOwner
<1>3. \A j \in Items \ {i} : status'[j] = status[j]
  BY DEF HandsInv
<1> QED BY <1>1, <1>2, <1>3 DEF HandsInv, OneOwner

LEMMA RoundKeepsOneOwner ==
  ASSUME HandsInv, NEW p \in Workers, NEW L \in SUBSET Items, NEW S \in SUBSET Items,
         Round(p, L, S)
  PROVE  HandsInv'
<1>1. PICK after \in [L -> {"ready", "dead"}] :
        status' = [i \in Items |-> IF i \in L THEN after[i]
                                   ELSE IF i \in S THEN "owned" ELSE status[i]]
  BY DEF Round
<1>2. /\ status' \in [Items -> {"absent", "ready", "owned", "done", "dead"}]
      /\ hands' \in [Workers -> SUBSET Items]
  BY <1>1 DEF Round, HandsInv
<1>3. \A i \in Items \ L : status'[i] = IF i \in S THEN "owned" ELSE status[i]
  BY <1>1
<1>4. hands'[p] = S /\ \A q \in Workers \ {p} : hands'[q] = hands[q] \ L
  BY DEF Round
<1>5. \A q \in Workers : hands[q] \cap S = {}
  BY DEF Round, HandsInv, OneOwner
<1>6. OneOwner'
  <2> SUFFICES ASSUME NEW q \in Workers, NEW i \in hands'[q]
               PROVE  /\ status'[i] = "owned"
                      /\ \A u \in Workers \ {q} : i \notin hands'[u]
    BY DEF OneOwner
  <2>1. CASE q = p
    BY <1>3, <1>4, <1>5, <2>1 DEF Round
  <2>2. CASE q # p
    <3>1. i \in hands[q] /\ i \notin L /\ i \notin S /\ i \in Items
      BY <1>4, <1>5, <2>2 DEF HandsInv
    <3> QED BY <1>3, <1>4, <3>1 DEF HandsInv, OneOwner
  <2> QED BY <2>1, <2>2
<1> QED BY <1>2, <1>6 DEF HandsInv

LEMMA HandsStep ==
  ASSUME HandsInv, [Next]_vars
  PROVE  HandsInv'
<1>1. ASSUME NEW i \in Items, Submit(i) \/ Return(i)
      PROVE  HandsInv'
  <2>1. status' = [status EXCEPT ![i] = "ready"] /\ hands' = hands /\ status[i] # "owned"
    BY <1>1 DEF Submit, Return
  <2> QED BY <2>1 DEF HandsInv, OneOwner
<1>2. ASSUME NEW p \in Workers, NEW L \in SUBSET Items, NEW S \in SUBSET Items,
             Round(p, L, S)
      PROVE  HandsInv'
  BY <1>2, RoundKeepsOneOwner
<1>3. ASSUME NEW p \in Workers, NEW i \in Items, NEW n \in 1..Last, Succeed(p, i, n)
      PROVE  HandsInv'
  BY <1>3, ItemLetGo DEF Succeed
<1>4. ASSUME NEW p \in Workers, NEW i \in Items, Fail(p, i)
      PROVE  HandsInv'
  BY <1>4, ItemLetGo DEF Fail
<1>5. ASSUME NEW p \in Workers, Forget(p)
      PROVE  HandsInv'
  BY <1>5 DEF Forget, HandsInv, OneOwner
<1>6. CASE UNCHANGED vars
  BY <1>6 DEF vars, HandsInv, OneOwner
<1> QED BY <1>1, <1>2, <1>3, <1>4, <1>5, <1>6 DEF Next

\* An item is in at most one worker's hands, and only while it is owned:
\* rounds that give up on silent owners and workers that stop included.
THEOREM OneOwnerAlways == Spec => []OneOwner
<1>1. Init => HandsInv
  BY DEF Init, HandsInv, OneOwner
<1>2. HandsInv /\ [Next]_vars => HandsInv'
  BY HandsStep
<1>3. HandsInv => OneOwner
  BY DEF HandsInv
<1> QED BY <1>1, <1>2, <1>3, PTL DEF Spec

=============================================================================
