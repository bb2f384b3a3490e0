SPECIFICATION FairSpec
CONSTANTS
  Workers = {w1, w2}
  Attempts = 2
  MaxResumes = 1
  MaxCalls = 2
  MaxRequests = 2
INVARIANTS
  CountedOnce
  RecordsWhole
  LeftOnlyByStrays
PROPERTIES
  CallsEnd
CHECK_DEADLOCK FALSE
