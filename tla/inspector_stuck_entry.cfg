SPECIFICATION FairSpec
CONSTANTS
  NoSession = NoSession
  MaxSessions = 2
  MaxMessages = 2
PROPERTIES
  DispatchedEventually
CHECK_DEADLOCK FALSE
