SPECIFICATION Spec
CONSTANTS
  Jobs = {j1, j2}
  NoJob = NoJob
  VkeyForms <- BareForm
INVARIANTS
  TimeoutIsRetryable
CHECK_DEADLOCK FALSE
