CONSTANTS
  MaxId = 2
  MaxSent = 4
SPECIFICATION FairSpec
CHECK_DEADLOCK FALSE
INVARIANTS TypeOK OneAnswerEach OnlyIfAsked Honoured RegistryClean NothingHalfGenerated
PROPERTIES AnswerArrives ShutsDown
