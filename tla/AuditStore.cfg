\* Two callers, two projection workers and a publisher; rollbacks and a rebuild.
SPECIFICATION Spec
CONSTANTS
  Clients = {c1, c2}
  Projectors = {p1, p2}
  Publishers = {o1}
  t1 = t1
  t2 = t2
  k1 = k1
  k2 = k2
  Requests <- SomeRequests
  BatchSize = 2
  MaxAttempts = 2
  MaxEvents = 2
  MaxFaults = 1
  MaxRebuilds = 1
INVARIANTS
  RefusedForForeignKey
  AckedHasEffect
  NeverTakenBack
PROPERTIES
  QueuesKeepContract
  QueuesDrain
CHECK_DEADLOCK FALSE
