\* Three attempts, a lookup, requests that may outlive the lease.
SPECIFICATION Spec
CONSTANTS
  Calls = {c1, c2, c3}
  None = None
  LeaseSeconds = 2
  HasLookup = TRUE
  MaxTime = 5
INVARIANTS
  LedgerTypeOK
  AppliedOnce
  AnswersAreTrue
  EffectInv
PROPERTY SettledIsFinal
CHECK_DEADLOCK FALSE
