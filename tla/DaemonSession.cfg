SPECIFICATION FairSpec
CONSTANTS
  Jobs = {j1, j2}
  NoJob = NoJob
  VkeyForms <- BareForm
INVARIANTS
  TypeOK
  InSync
  AnswerIsOwn
PROPERTIES
  TimeoutIsLast
  ImplementsService
  EveryRequestResolves
  DaemonComesBack
  DaemonStarts
CHECK_DEADLOCK FALSE
