\* The queue is smaller than the number of workers, so the sentinels wait for room; the
\* breaker opens on two failures and cools down.
SPECIFICATION FairSpec
CONSTANTS
  Requests = {r1, r2, r3}
  Workers = {w1, w2}
  Stop = Stop
  Capacity = 1
  Window = 2
  Threshold = 2
INVARIANTS
  TypeOK
  SlotsKept
  NoOrphan
  ClosedAfterWork
  CircuitHasCause
  ImagesReleased
PROPERTIES
  NoAbandonedRun
  ShutdownEnds
\* A closed runner with no caller left stops.
CHECK_DEADLOCK FALSE
