SPECIFICATION Spec
CONSTANTS
  Specialists = {ba, qa}
  Unknown = unknown
  MaxHistory = 4
  MaxDiscussionDepth = 2
  MaxAssignTasks = 2
  MaxSteps = 2
  MaxRounds = 1
  PmMessages <- OneCall
  LlmMayFail = TRUE
  MaxCalls = 1
  MaxRequests = 2
  MaxActivations = 3
  MaxLists = 4
PROPERTIES
  PairedAtInvoke
CHECK_DEADLOCK FALSE
