SPECIFICATION FairSpec
CONSTANTS
  Sessions = {s1, s2}
  NoSession = NoSession
  MaxItems = 4
INVARIANTS
  TypeOK
  PanesAreTheLog
  
  AnswersAreAnswers
  FooterIsStored
PROPERTIES
  InputComesBack
CHECK_DEADLOCK FALSE
