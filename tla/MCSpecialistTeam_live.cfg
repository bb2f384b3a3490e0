SPECIFICATION FairSpec
CONSTANTS
  Specialists = {ba, qa}
  Unknown = unknown
  MaxHistory = 3
  MaxDiscussionDepth = 2
  MaxAssignTasks = 2
  MaxSteps = 1
  MaxRounds = 2
  PmMessages <- ManyCalls
  LlmMayFail = TRUE
  MaxCalls = 1
  MaxRequests = 1
  MaxActivations = 4
  MaxLists = 6
INVARIANTS
  
  CallTree
  DelegationBudget
PROPERTIES
  
  ActivationsEnd
  TurnsEnd
CHECK_DEADLOCK FALSE
