SPECIFICATION WorkerSpec
CONSTANTS
  Jobs = {j1}
  Workers = {w1, w2}
  NoWorker = NoWorker
  NoClaim = NoClaim
  Kinds <- OwnAndForeign
  Lease = 2
  MaxAttempts = 2
  Batch = 1
  MaxRenewals = 1
  MaxPushes = 1
  MaxLate = 1
  MaxCrashes = 1
SYMMETRY Symmetry
INVARIANTS
  WorkerTypeOK
  LocalDeadlineSafe
  OneProver
PROPERTIES
  ImplementsQueue
CHECK_DEADLOCK FALSE
