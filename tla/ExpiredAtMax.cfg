SPECIFICATION Spec
CONSTANTS
  Jobs = {j1, j2}
  Workers = {w1}
  NoWorker = NoWorker
  Kinds <- NotJson
  Lease = 1
  MaxAttempts = 2
  Batch = 1
  MaxRenewals = 0
  MaxPushes = 1
PROPERTIES
  ExpiredAtMaxFails
CHECK_DEADLOCK FALSE
