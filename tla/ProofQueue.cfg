SPECIFICATION Spec
CONSTANTS
  Jobs = {j1, j2}
  Workers = {w1, w2}
  NoWorker = NoWorker
  Kinds <- AllKinds
  Lease = 2
  MaxAttempts = 2
  Batch = 2
  MaxRenewals = 1
  MaxPushes = 2
SYMMETRY Symmetry
INVARIANTS
  TypeOK
  LeasesMatchStates
  NothingLost
  NoJobIsStuck
  AttemptsBounded
  EndIsConsistent
  LastHolderEnds
PROPERTIES
  KeepsPromise
  EndIsFinal
  WorkRunsOut
  LeaseIsRespected
CHECK_DEADLOCK FALSE
