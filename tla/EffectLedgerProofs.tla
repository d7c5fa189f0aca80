------------------------- MODULE EffectLedgerProofs -------------------------
(***************************************************************************)
(* What overlapping attempts do to one effect and what is said of it, for  *)
(* any number of attempts and any lease: first the types, then Truthful    *)
(* (which needs no lookup), then OnceInv.                                  *)
(***************************************************************************)
EXTENDS EffectLedger, TLAPS

\* Types

LEMMA StepTyped ==
  ASSUME LedgerTypeOK, NEW c \in Calls, NEW from, NEW to \in Steps \cup Ends, Step(c, from, to)
  PROVE  /\ at' \in [Calls -> Steps \cup Ends]
         /\ at[c] = from /\ at'[c] = to
         /\ \A d \in Calls : d # c => at'[d] = at[d]
  BY DEF LedgerTypeOK, Step

\* Every statement of the ledger leaves a row the table's CHECK accepts, and
\* calls stay in the steps of EffectGuard.execute.
THEOREM LedgerTypeCorrect == Spec => []LedgerTypeOK
  <1>1. Init => LedgerTypeOK
    BY LedgerAssumption DEF Init, LedgerTypeOK, Ledger, Steps
  <1>2. LedgerTypeOK /\ [Next]_vars => LedgerTypeOK'
    <2> SUFFICES ASSUME LedgerTypeOK, [Next]_vars PROVE LedgerTypeOK'
      OBVIOUS
    <2> USE DEF LedgerTypeOK
    <2>1. ASSUME NEW c \in Calls, Begin(c) PROVE LedgerTypeOK'
      BY <2>1, LedgerAssumption DEF Begin, Step, Steps, Ends, Ledger
    <2>2. ASSUME NEW c \in Calls,
                 BeginConflicts(c) \/ Find(c) \/ Reconcile(c) \/ Lookup(c) \/ Perform(c)
                 \/ Answered(c) \/ Fails(c) \/ Refused(c)
          PROVE LedgerTypeOK'
      BY <2>2 DEF BeginConflicts, Find, Reconcile, Lookup, Perform, Answered, Fails, Refused,
                  Step, Steps, Ends
    <2>3. ASSUME NEW c \in Calls, Land(c) \/ Lost(c) \/ Crash(c) PROVE LedgerTypeOK'
      BY <2>3 DEF Land, Lost, Crash, Ends
    <2>4. ASSUME NEW c \in Calls, Terminal(c) \/ Complete(c) PROVE LedgerTypeOK'
      <3>1. at' \in [Calls -> Steps \cup Ends]
        BY <2>4 DEF Terminal, Complete, Step, Steps, Ends
      <3>2. ledger' \in Ledger /\ (ledger'.status = "started" <=> ledger'.leaseUntil # None)
        BY <2>4 DEF Terminal, Complete, Ledger
      <3> QED
        BY <2>4, <3>1, <3>2 DEF Terminal, Complete
    <2>5. CASE Tick
      BY <2>5 DEF Tick, Active
    <2>6. CASE UNCHANGED vars
      BY <2>6 DEF vars
    <2> QED
      BY <2>1, <2>2, <2>3, <2>4, <2>5, <2>6 DEF Next
  <1> QED
    BY <1>1, <1>2, PTL DEF Spec

-----------------------------------------------------------------------------
\* A settled effect keeps its verdict: begin takes over started rows only,
\* terminal() writes the owner's started row only, complete() never a
\* terminal one.
THEOREM SettledStays == Spec => SettledIsFinal
  <1>1. LedgerTypeOK /\ [Next]_vars =>
          (ledger.status \in {"completed", "terminal"} => ledger'.status = ledger.status)
    <2> SUFFICES ASSUME LedgerTypeOK, [Next]_vars, ledger.status \in {"completed", "terminal"}
                 PROVE  ledger'.status = ledger.status
      OBVIOUS
    <2>1. ASSUME NEW c \in Calls PROVE ~ Begin(c)
      BY DEF Begin, Free
    <2>2. ASSUME NEW c \in Calls, Terminal(c) \/ Complete(c) PROVE ledger'.status = ledger.status
      BY <2>2 DEF Terminal, Complete, LedgerTypeOK, Ledger
    <2>3. ASSUME NEW c \in Calls,
                 \/ BeginConflicts(c) \/ Find(c) \/ Reconcile(c) \/ Lookup(c) \/ Perform(c)
                 \/ Land(c) \/ Lost(c) \/ Answered(c) \/ Fails(c) \/ Refused(c) \/ Crash(c)
          PROVE ledger' = ledger
      BY <2>3 DEF BeginConflicts, Find, Reconcile, Lookup, Perform, Land, Lost, Answered, Fails,
                  Refused, Crash
    <2> QED
      BY <2>1, <2>2, <2>3 DEF Next, Tick, vars
  <1> QED
    BY <1>1, LedgerTypeCorrect, PTL DEF Spec, SettledIsFinal

-----------------------------------------------------------------------------
LEMMA TruthfulStep ==
  ASSUME LedgerTypeOK, Truthful, [Next]_vars
  PROVE  Truthful'
  <1> USE DEF Truthful
  <1>1. ASSUME NEW c \in Calls, Begin(c) PROVE Truthful'
    BY <1>1 DEF Begin, Step, LedgerTypeOK
  <1>2. ASSUME NEW c \in Calls, BeginConflicts(c) \/ Perform(c) \/ Fails(c) \/ Refused(c)
        PROVE Truthful'
    BY <1>2 DEF BeginConflicts, Perform, Fails, Refused, Step, LedgerTypeOK
  <1>3. ASSUME NEW c \in Calls, Find(c) PROVE Truthful'
    BY <1>3 DEF Find, Step, LedgerTypeOK
  <1>4. ASSUME NEW c \in Calls, Reconcile(c) \/ Lookup(c) \/ Answered(c) PROVE Truthful'
    BY <1>4 DEF Reconcile, Lookup, Answered, Step, LedgerTypeOK
  <1>5. ASSUME NEW c \in Calls, Land(c) \/ Lost(c) \/ Crash(c) PROVE Truthful'
    BY <1>5 DEF Land, Lost, Crash, LedgerTypeOK
  <1>6. ASSUME NEW c \in Calls, Terminal(c) PROVE Truthful'
    BY <1>6 DEF Terminal, Step, LedgerTypeOK, Ledger
  <1>7. ASSUME NEW c \in Calls, Complete(c) PROVE Truthful'
    BY <1>7 DEF Complete, Step, LedgerTypeOK, Ledger
  <1>8. CASE Tick
    BY <1>8 DEF Tick
  <1>9. CASE UNCHANGED vars
    BY <1>9 DEF vars
  <1> QED
    BY <1>1, <1>2, <1>3, <1>4, <1>5, <1>6, <1>7, <1>8, <1>9 DEF Next

-----------------------------------------------------------------------------
(* From here on: handlers look the effect up.                              *)

\* While a call may still cause the effect within its lease, nobody can begin.
LEMMA ActiveKeepsRow ==
  ASSUME LedgerTypeOK, OnceInv, NEW d \in Active \ overdue
  PROVE  ~Free
  <1>1. Owns(d) /\ begun[d] \in Nat /\ now \in Nat
    BY DEF OnceInv, LedgerTypeOK, Active
  <1> QED
    BY <1>1, LedgerAssumption DEF Owns, Free

LEMMA ActiveCalls ==
  ASSUME LedgerTypeOK
  PROVE  Active \subseteq Calls /\ flying \subseteq Active
  BY DEF LedgerTypeOK, Active

LEMMA OnceInit == Init => OnceInv
  BY LedgerAssumption DEF Init, OnceInv, Active, FoundNone

LEMMA OnceBegin ==
  ASSUME LedgerTypeOK, HasLookup, OnceInv, NEW c \in Calls, Begin(c)
  PROVE  OnceInv'
  <1>1. Active \subseteq overdue /\ flying \subseteq overdue
    BY ActiveKeepsRow, ActiveCalls DEF Begin
  <1>2. /\ at[c] = "idle" /\ at'[c] = "lookup"
        /\ \A d \in Calls : d # c => at'[d] = at[d]
    BY StepTyped DEF Begin, Steps, Step, LedgerTypeOK
  <1>3. /\ ledger' = [status |-> "started", owner |-> c, leaseUntil |-> now + LeaseSeconds]
        /\ now' = now /\ now \in Nat /\ begun'[c] = now
        /\ UNCHANGED <<flying, landed, overdue>>
        /\ c \notin flying /\ c \notin landed
    BY <1>2 DEF Begin, LedgerTypeOK, OnceInv
  <1>4. Active' = Active \cup {c}
    BY <1>2, <1>3 DEF Active
  <1>5. Owns(c)'
    BY <1>3, LedgerAssumption DEF Owns
  <1>6. ASSUME NEW d \in Calls PROVE FoundNone(d)'
    BY <1>2, <1>3 DEF FoundNone
  <1> QED
    BY <1>1, <1>2, <1>3, <1>4, <1>5, <1>6 DEF OnceInv

\* Steps that leave the row, the requests and the clock alone.
LEMMA OnceQuiet ==
  ASSUME LedgerTypeOK, HasLookup, OnceInv, NEW c \in Calls,
         BeginConflicts(c) \/ Find(c) \/ Reconcile(c) \/ Lookup(c) \/ Answered(c) \/ Fails(c)
         \/ Crash(c)
  PROVE  OnceInv'
  <1>1. UNCHANGED <<ledger, now, begun, flying, landed, overdue>>
    BY DEF BeginConflicts, Find, Reconcile, Lookup, Answered, Fails, Crash
  <1>2. \A d \in Calls : d # c => at'[d] = at[d]
    BY DEF BeginConflicts, Find, Reconcile, Lookup, Answered, Fails, Crash, Step, LedgerTypeOK
  <1>3. /\ at'[c] \notin {"idle", "lookup", "sent", "reject"}
        /\ at'[c] = "perform" => at[c] = "lookup" /\ landed = {}
    BY DEF BeginConflicts, Find, Reconcile, Lookup, Answered, Fails, Crash, Step, LedgerTypeOK
  <1>4. Active' \subseteq Active
    BY <1>1, <1>2, <1>3 DEF Active
  <1>5. ASSUME NEW d \in Active' \ overdue' PROVE Owns(d)'
    BY <1>1, <1>4, <1>5 DEF Owns, OnceInv
  <1>6. ASSUME NEW d \in Calls PROVE FoundNone(d)'
    BY <1>1, <1>2, <1>3, <1>6 DEF OnceInv, FoundNone
  <1>7. ASSUME NEW d \in Calls, at'[d] \in {"idle", "lookup", "perform", "reject"}
        PROVE  d \notin flying' \cup landed'
    BY <1>1, <1>2, <1>3, <1>7 DEF OnceInv
  <1> QED
    BY <1>1, <1>2, <1>3, <1>5, <1>6, <1>7 DEF OnceInv

LEMMA OncePerform ==
  ASSUME LedgerTypeOK, OnceInv, NEW c \in Calls, Perform(c)
  PROVE  OnceInv'
  <1>1. /\ UNCHANGED <<ledger, now, begun, landed, overdue>> /\ flying' = flying \cup {c}
        /\ at[c] = "perform" /\ at'[c] = "sent"
        /\ \A d \in Calls : d # c => at'[d] = at[d]
    BY DEF Perform, Step, LedgerTypeOK
  <1>2. Active' = Active /\ c \in Active
    BY <1>1 DEF Active
  <1>3. ASSUME NEW d \in Active' \ overdue' PROVE Owns(d)'
    BY <1>1, <1>2, <1>3 DEF Owns, OnceInv
  <1>4. ASSUME NEW d \in Calls PROVE FoundNone(d)'
    BY <1>1, <1>4 DEF OnceInv, FoundNone
  <1>5. c \notin landed /\ c \notin flying
    BY <1>1 DEF OnceInv
  <1>6. ledger.status = "terminal" => c \in overdue
    BY <1>2 DEF OnceInv, Owns
  <1> QED
    BY <1>1, <1>3, <1>4, <1>5, <1>6 DEF OnceInv

LEMMA OnceLand ==
  ASSUME LedgerTypeOK, OnceInv, NEW c \in Calls, Land(c) \/ Lost(c)
  PROVE  OnceInv'
  <1>1. /\ UNCHANGED <<ledger, now, begun, at, overdue>>
        /\ flying' = flying \ {c} /\ c \in flying /\ landed' \in {landed, landed \cup {c}}
    BY DEF Land, Lost
  <1>2. Active' \subseteq Active /\ c \in Active
    BY <1>1 DEF Active
  <1>3. ASSUME NEW d \in Active' \ overdue' PROVE Owns(d)'
    BY <1>1, <1>2, <1>3 DEF Owns, OnceInv
  <1>4. c \notin overdue => ledger.owner = c /\ landed \ overdue = {}
    BY <1>1, <1>2 DEF OnceInv, Owns, FoundNone
  <1>5. ASSUME NEW d \in Calls PROVE FoundNone(d)'
    BY <1>1, <1>4, <1>5 DEF OnceInv, FoundNone
  <1>6. \A d, e \in landed' \ overdue' : d = e
    BY <1>1, <1>4 DEF OnceInv
  <1> QED
    BY <1>1, <1>3, <1>5, <1>6 DEF OnceInv

LEMMA OnceRefused ==
  ASSUME LedgerTypeOK, OnceInv, NEW c \in Calls, Refused(c)
  PROVE  OnceInv'
  <1>1. /\ UNCHANGED <<ledger, now, begun, landed, overdue>> /\ flying' = flying \ {c}
        /\ at[c] = "sent" /\ at'[c] = "reject" /\ c \notin landed
        /\ \A d \in Calls : d # c => at'[d] = at[d]
    BY DEF Refused, Step, LedgerTypeOK
  <1>2. Active' \subseteq Active
    BY <1>1 DEF Active
  <1>3. ASSUME NEW d \in Active' \ overdue' PROVE Owns(d)'
    BY <1>1, <1>2, <1>3 DEF Owns, OnceInv
  <1>4. ASSUME NEW d \in Calls PROVE FoundNone(d)'
    BY <1>1, <1>4 DEF OnceInv, FoundNone
  <1> QED
    BY <1>1, <1>3, <1>4 DEF OnceInv

LEMMA OnceTerminal ==
  ASSUME LedgerTypeOK, OnceInv, NEW c \in Calls, Terminal(c)
  PROVE  OnceInv'
  <1>1. /\ UNCHANGED <<now, begun, flying, landed, overdue>>
        /\ at[c] = "reject" /\ at'[c] = "rejected"
        /\ \A d \in Calls : d # c => at'[d] = at[d]
    BY DEF Terminal, Step, LedgerTypeOK
  <1>2. Active' = Active
    BY <1>1 DEF Active
  <1>3. c \notin flying /\ c \notin landed
    BY <1>1 DEF OnceInv
  <1>4. CASE ledger.owner = c /\ ledger.status = "started"
    <2>1. ledger'.owner = ledger.owner /\ ledger'.status = "terminal"
      BY <1>4 DEF Terminal, LedgerTypeOK, Ledger
    <2>2. landed \subseteq overdue
      BY <1>1, <1>3, <1>4 DEF OnceInv, FoundNone
    <2>3. Active \subseteq overdue
      BY <1>1, <1>3, <1>4 DEF OnceInv, Owns, Active
    <2>4. ASSUME NEW d \in Calls PROVE FoundNone(d)'
      BY <2>1, <1>1, <2>4 DEF OnceInv, FoundNone
    <2> QED
      BY <2>1, <2>2, <2>3, <2>4, <1>1, <1>2, ActiveCalls DEF OnceInv
  <1>5. CASE ~(ledger.owner = c /\ ledger.status = "started")
    <2>1. ledger' = ledger
      BY <1>5 DEF Terminal
    <2>2. ASSUME NEW d \in Active' \ overdue' PROVE Owns(d)'
      BY <2>1, <1>1, <1>2, <2>2 DEF OnceInv, Owns
    <2>3. ASSUME NEW d \in Calls PROVE FoundNone(d)'
      BY <2>1, <1>1, <2>3 DEF OnceInv, FoundNone
    <2> QED
      BY <2>1, <2>2, <2>3, <1>1 DEF OnceInv
  <1> QED
    BY <1>4, <1>5

LEMMA OnceComplete ==
  ASSUME LedgerTypeOK, OnceInv, NEW c \in Calls, Complete(c)
  PROVE  OnceInv'
  <1>1. /\ UNCHANGED <<now, begun, flying, landed, overdue>>
        /\ at[c] = "confirm" /\ at'[c] \in {"rejected", "completed"}
        /\ \A d \in Calls : d # c => at'[d] = at[d]
    BY DEF Complete, Step, LedgerTypeOK
  <1>2. /\ ledger'.owner = ledger.owner
        /\ ledger' = ledger \/ (ledger.status # "terminal" /\ ledger'.status = "completed")
    BY DEF Complete, LedgerTypeOK, Ledger
  <1>3. Active' = Active
    BY <1>1 DEF Active
  <1>4. ASSUME NEW d \in Active' \ overdue' PROVE Owns(d)'
    BY <1>1, <1>2, <1>3, <1>4 DEF OnceInv, Owns
  <1>5. ASSUME NEW d \in Calls PROVE FoundNone(d)'
    BY <1>1, <1>2, <1>5 DEF OnceInv, FoundNone
  <1> QED
    BY <1>1, <1>2, <1>4, <1>5 DEF OnceInv

LEMMA OnceTick ==
  ASSUME LedgerTypeOK, OnceInv, Tick
  PROVE  OnceInv'
  <1>1. /\ UNCHANGED <<ledger, begun, flying, landed, at>> /\ now' = now + 1
        /\ overdue' = overdue \cup {c \in Active : now + 1 >= begun[c] + LeaseSeconds}
    BY DEF Tick
  <1>2. Active' = Active
    BY <1>1 DEF Active
  <1>3. ASSUME NEW d \in Active' \ overdue' PROVE Owns(d)'
    <2>1. Owns(d) /\ now \in Nat /\ begun[d] \in Nat /\ ~(now + 1 >= begun[d] + LeaseSeconds)
      BY <1>1, <1>2 DEF OnceInv, LedgerTypeOK, Active
    <2>2. now + 1 < begun[d] + LeaseSeconds
      BY <2>1, LedgerAssumption
    <2> QED
      BY <2>1, <2>2, <1>1 DEF Owns
  <1>4. ASSUME NEW d \in Calls PROVE FoundNone(d)'
    BY <1>1, <1>4 DEF OnceInv, FoundNone
  <1>5. ASSUME NEW d \in Calls, at[d] = "idle" PROVE d \notin Active
    BY <1>5 DEF OnceInv, Active
  <1> QED
    BY <1>1, <1>3, <1>4, <1>5 DEF OnceInv

-----------------------------------------------------------------------------
\* The inductive invariant, for every number of attempts and every lease.
THEOREM EffectInvariant == Spec => []EffectInv
  <1>1. Init => EffectInv
    BY OnceInit DEF EffectInv, Truthful, Init
  <1>2. LedgerTypeOK /\ EffectInv /\ [Next]_vars => EffectInv'
    <2> SUFFICES ASSUME LedgerTypeOK, EffectInv, [Next]_vars PROVE EffectInv'
      OBVIOUS
    <2>1. Truthful /\ Truthful'
      BY TruthfulStep DEF EffectInv
    <2>2. ASSUME HasLookup PROVE OnceInv'
      <3>1. OnceInv
        BY <2>2 DEF EffectInv
      <3>2. CASE UNCHANGED vars
        <4>1. Active' = Active
          BY <3>2 DEF Active, vars
        <4> QED
          BY <3>1, <3>2, <4>1 DEF OnceInv, Owns, FoundNone, vars
      <3> QED
        BY <2>1, <2>2, <3>1, <3>2, OnceBegin, OnceQuiet, OncePerform, OnceLand, OnceRefused,
           OnceTerminal, OnceComplete, OnceTick DEF Next
    <2> QED
      BY <2>1, <2>2 DEF EffectInv
  <1> QED
    BY <1>1, <1>2, LedgerTypeCorrect, PTL DEF Spec

\* However many attempts crash, time out or overlap, of the effects that take
\* place all but one are those of calls that were still at work when their lease
\* ended, if handlers look the effect up.
THEOREM EffectAppliedOnce == Spec => []AppliedOnce
  <1>1. LedgerTypeOK /\ EffectInv => AppliedOnce
    <2> SUFFICES ASSUME LedgerTypeOK, EffectInv, HasLookup,
                        NEW c \in (landed \cup flying) \ overdue,
                        NEW d \in (landed \cup flying) \ overdue
                 PROVE  c = d
      BY DEF AppliedOnce
    <2>1. OnceInv
      BY DEF EffectInv
    <2>2. ASSUME NEW f \in flying \ overdue PROVE ledger.owner = f /\ landed \ overdue = {}
      <3>1. f \in Calls /\ f \in Active
        BY ActiveCalls
      <3> QED
        BY <2>1, <3>1 DEF OnceInv, Owns, FoundNone
    <2> QED
      BY <2>1, <2>2 DEF OnceInv
  <1> QED
    BY <1>1, LedgerTypeCorrect, EffectInvariant, PTL

\* An effect reported or recorded as completed took place; one recorded as
\* refused did not and will not, but for calls that outlived their lease.
THEOREM AnswersHold == Spec => []AnswersAreTrue
  <1>1. EffectInv => AnswersAreTrue
    BY DEF EffectInv, Truthful, OnceInv, AnswersAreTrue
  <1> QED
    BY <1>1, EffectInvariant, PTL

=============================================================================
