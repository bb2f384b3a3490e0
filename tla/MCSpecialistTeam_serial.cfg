SPECIFICATION Spec
CONSTANTS
  Specialists = {ba, qa}
  Unknown = unknown
  MaxHistory = 4
  MaxDiscussionDepth = 3
  MaxAssignTasks = 1
  MaxSteps = 3
  MaxRounds = 2
  PmMessages <- OneCall
  LlmMayFail = TRUE
  MaxCalls = 2
  MaxRequests = 2
  MaxActivations = 3
  MaxLists = 4
SYMMETRY Agents
INVARIANTS
  TypeOK
  BucketInSync
  QuietWhenIdle
PROPERTIES
  PairedOrCutOffAtInvoke
  ImplementsStacks
CHECK_DEADLOCK FALSE
