\* Two items and two processes that share one worker id.
SPECIFICATION Spec
CONSTANTS
  w1 = w1
  w2 = w2
  a = a
  b = b
  None = None
  Tasks = {t1}
  Items = {i1, i2}
  Workers = {w1, w2}
  WorkerIds = {a, b}
  IdOf <- SharedId
  LeaseSeconds = 1
  RetryBase = 1
  RetryCap = 1
  RowMax = 1
  ReleaseMax = 2
  BatchSize = 2
  MaxTime = 2
  MaxClaims = 2
INVARIANTS
  TypeOK
  ExclusiveRelease
  SnapshotFresh
  AttemptBudget
  FenceInv
PROPERTIES
  ProgressKept
  NoLiveTakeover
  ImplementsContract
CHECK_DEADLOCK FALSE
