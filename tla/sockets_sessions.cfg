SPECIFICATION FairSpec
CONSTANTS
  Sessions = {s1, s2, s3}
  Addresses = {v4, v6}
  MaxRefusals = 2
  Races = {"acceptFails", "endBeforeRefused", "requestAfterRefused"}
INVARIANTS
  TypeOK
  AssertionsHold
  UpgradedDeletedWithSocket
  ClosingSessionsProceed
  ConnectedSessionsAreLive
PROPERTIES
  ServesDelegate
  KilledServerIsDone
CHECK_DEADLOCK FALSE
