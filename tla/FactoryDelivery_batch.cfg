\* A batch of two, every advance shorter than the lease.
SPECIFICATION DeliverySpec
CONSTANTS
  w1 = w1
  w2 = w2
  a = a
  None = None
  Tasks = {t1, t2}
  Items = {i1, i2}
  Workers = {w1, w2}
  WorkerIds = {a}
  IdOf <- SharedId
  LeaseSeconds = 3
  RetryBase = 1
  RetryCap = 1
  RowMax = 2
  ReleaseMax = 2
  BatchSize = 2
  MaxTime = 3
  MaxClaims = 2
  WorkLimit = 2
INVARIANT LeaseOutlivesWork
CHECK_DEADLOCK FALSE
