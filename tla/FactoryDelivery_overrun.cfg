\* Advances may outlive their leases.
SPECIFICATION DeliverySpec
CONSTANTS
  w1 = w1
  w2 = w2
  a = a
  None = None
  Tasks = {t1, t2}
  Items = {i1}
  Workers = {w1, w2}
  WorkerIds = {a}
  IdOf <- SharedId
  LeaseSeconds = 1
  RetryBase = 1
  RetryCap = 1
  RowMax = 2
  ReleaseMax = 2
  BatchSize = 1
  MaxTime = 4
  MaxClaims = 4
  WorkLimit = 4
INVARIANT
  StageWasReached
CHECK_DEADLOCK FALSE
