\* One item at a time, every advance shorter than the lease.
SPECIFICATION DeliverySpec
CONSTANTS
  w1 = w1
  w2 = w2
  a = a
  None = None
  Tasks = {t1, t2}
  Items = {i1}
  Workers = {w1, w2}
  WorkerIds = {a}
  IdOf <- SharedId
  LeaseSeconds = 2
  RetryBase = 1
  RetryCap = 1
  RowMax = 2
  ReleaseMax = 2
  BatchSize = 1
  MaxTime = 6
  MaxClaims = 6
  WorkLimit = 1
INVARIANTS
  DeliveryTypeOK
  LeaseOutlivesWork
  EvidenceBacksRow
  TaskAgrees
PROPERTIES
  IntakeOnce
  TornFileStopsItem
  DeliveryImplementsQueue
CHECK_DEADLOCK FALSE
