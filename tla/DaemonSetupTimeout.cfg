SPECIFICATION Spec
CONSTANTS
  Jobs = {j1, j2}
  NoJob = NoJob
  VkeyForms <- BareForm
PROPERTIES
  Exit75AfterError
CHECK_DEADLOCK FALSE
