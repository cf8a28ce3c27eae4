SPECIFICATION WorkerFairSpec
CONSTANTS
  Jobs = {j1}
  Workers = {w1}
  NoWorker = NoWorker
  NoClaim = NoClaim
  Kinds <- OwnAndForeign
  Lease = 1
  MaxAttempts = 2
  Batch = 1
  MaxRenewals = 1
  MaxPushes = 1
  MaxLate = 1
  MaxCrashes = 1
PROPERTIES
  ClaimsResolve
  EveryJobEnds
CHECK_DEADLOCK FALSE
