SPECIFICATION Spec
CONSTANTS
  MaxEvents = 3
INVARIANTS
  WrittenIsReplayed
