SPECIFICATION FairSpec
CONSTANTS
  Helpers = {server, logger}
INVARIANTS
  TypeOK
  NothingLeaks
  SecondReadEnds
PROPERTIES
  CommandReturns
CHECK_DEADLOCK FALSE
