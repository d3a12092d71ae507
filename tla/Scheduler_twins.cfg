\* A job with twins and two without; batches may outlast a lease, and the grace is as short as
\* a lease, in between, or as long as a lease and a batch.
SPECIFICATION FairSpec
CONSTANTS
  NoPod = NoPod
  Jobs = {left, deadline, guard}
  Twins = {left}
  Pods = {p1, p2}
  CLAIM_BATCH = 2
  LeaseTtl = 2
  Graces = {2, 4, 5}
  MaxBatch = 3
  Faults = {"fail", "redis", "stop", "crash"}
  MaxTime = 7
INVARIANTS
  Exclusive
PROPERTIES
  SkipsServedTwins
  DueIsClaimed
