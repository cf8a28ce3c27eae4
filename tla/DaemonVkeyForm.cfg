SPECIFICATION FairSpec
CONSTANTS
  Jobs = {j1, j2}
  NoJob = NoJob
  VkeyForms <- PrefixedForm
PROPERTIES
  DaemonStarts
CHECK_DEADLOCK FALSE
