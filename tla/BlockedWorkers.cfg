SPECIFICATION WorkerFairSpec
CONSTANTS
  Jobs = {j1}
  Workers = {w1}
  NoWorker = NoWorker
  NoClaim = NoClaim
  Kinds <- ScalarOnly
  Lease = 1
  MaxAttempts = 1
  Batch = 1
  MaxRenewals = 1
  MaxPushes = 1
  MaxLate = 1
  MaxCrashes = 0
PROPERTIES
  ExhaustedBecomesFailed
CHECK_DEADLOCK FALSE
