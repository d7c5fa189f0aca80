\* One delivery, two workers, two operator actions, every fault.
SPECIFICATION Spec
CONSTANTS
  Deliveries = {d1}
  Workers = {w1, w2}
  Actions = {a1, a2}
  None = None
  MaxAttempts = 2
INVARIANTS
  JobTypeOK
  OneExecution
  NeverOrphaned
  ActionsSerialize
PROPERTIES
  OutcomeIsOwn
  CancelIsFinal
  DoneIsDone
CHECK_DEADLOCK FALSE
SYMMETRY Symmetry
