\* Two decisions on the first of two gates, and a heartbeat that fails.
SPECIFICATION Spec
CONSTANTS
  None = None
  Calls = {c1, c2, c3}
  Kinds = {"invoke", "decide"}
  Fallible = {}
  Gates = {"execution_contract", "architect_handoff"}
  MaxNodeAttempts = 3
  MaxQaAttempts = 3
  RetryMax = 3
  MaxFaults = 1
INVARIANT AnswerFitsGate
CHECK_DEADLOCK FALSE
