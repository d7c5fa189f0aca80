\* One attempt, one worker, one operator.
SPECIFICATION Spec
CONSTANTS
  Deliveries = {d1}
  Workers = {w1}
  Actions = {a1}
  None = None
  MaxAttempts = 1
PROPERTIES
  FailedCanBeRetried
CHECK_DEADLOCK FALSE
