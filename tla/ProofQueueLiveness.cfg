SPECIFICATION FairSpec
CONSTANTS
  Jobs = {j1, j2}
  Workers = {w1}
  NoWorker = NoWorker
  Kinds <- ReadableKinds
  Lease = 1
  MaxAttempts = 2
  Batch = 1
  MaxRenewals = 1
  MaxPushes = 1
PROPERTIES
  EveryJobEnds
CHECK_DEADLOCK FALSE
