SPECIFICATION FairSpec
CONSTANTS
  NoSession = NoSession
  MaxSessions = 2
  MaxMessages = 2
INVARIANTS
  TypeOK
  AssertionsHold
  NoLostDispatch
  SleepsOnlyWithoutMail
  StartAttachesTheFrontend
PROPERTIES
  ServesSessionsInOrder
  StopJoins
  ResumeEndsPause
CHECK_DEADLOCK FALSE
