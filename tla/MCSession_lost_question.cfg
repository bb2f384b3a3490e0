SPECIFICATION Spec
CONSTANTS
  Conns = {tab1}
  Specialists = {ba}
  Languages = {id, en}
  Default = id
  None = none
  MaxAssignTasks = 2
  Pins = {en}
  MaxWork = 2
  MaxMessages = 3
INVARIANTS
  QuestionFound
