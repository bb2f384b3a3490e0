SPECIFICATION Spec
CONSTANTS
  MaxEvents = 3
INVARIANTS
  StoresInOrder
PROPERTIES
  ImplementsStore
