\* Three calls on one thread with a gate at review and a fault anywhere.
SPECIFICATION Spec
CONSTANTS
  None = None
  Calls = {c1, c2, c3}
  Kinds = {"invoke", "resume", "decide", "retry", "cancel"}
  Fallible = {"qa", "closeout"}
  Gates = {"review"}
  MaxNodeAttempts = 2
  MaxQaAttempts = 2
  RetryMax = 3
  MaxFaults = 1
SYMMETRY Symmetry
INVARIANTS
  ThreadTypeOK
  ClosedAgrees
  PastQaMeansPassed
PROPERTIES
  ImplementsLifecycle
  ClosedForGood
CHECK_DEADLOCK FALSE
