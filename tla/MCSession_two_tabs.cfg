SPECIFICATION Spec
CONSTANTS
  Conns = {tab1, tab2}
  Specialists = {ba}
  Languages = {id}
  Default = id
  None = none
  MaxAssignTasks = 2
  Pins = {}
  MaxWork = 2
  MaxMessages = 3
PROPERTIES
  SavedNeverShrinks
