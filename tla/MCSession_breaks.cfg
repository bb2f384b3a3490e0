SPECIFICATION Spec
CONSTANTS
  Conns = {tab1}
  Specialists = {ba, qa}
  Languages = {id, en}
  Default = id
  None = none
  MaxAssignTasks = 2
  Pins = {en}
  MaxWork = 3
  MaxMessages = 4
SYMMETRY Agents
INVARIANTS
  TypeOK
  
  
  CostNotInvented
  
  
  WorkLostOnlyInTurns
  
  BudgetLostOnlyWaiting
  
PROPERTIES
  NothingTakenBack
