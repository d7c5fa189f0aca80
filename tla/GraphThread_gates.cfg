\* One run with its first two default gates, and no fault at all.
SPECIFICATION Spec
CONSTANTS
  None = None
  Calls = {c1, c2}
  Kinds = {"invoke", "decide"}
  Fallible = {}
  Gates = {"execution_contract", "architect_handoff"}
  MaxNodeAttempts = 3
  MaxQaAttempts = 3
  RetryMax = 3
  MaxFaults = 0
INVARIANT AnsweredOnce
CHECK_DEADLOCK FALSE
