SPECIFICATION FairSpec
CONSTANTS
  Queries <- MCQueries
  MaxCredentials = 1
  Usernames <- MCUsernames
  Passwords <- MCPasswords
  MaxQueries = 2
  Features = {"outage", "refusal", "rotation"}
INVARIANTS
  NothingElseRuns
  OnlyQueriesAreTranspiled
  ValidAnswersAreTheProducers
  NoStaleCredentials
  BuildIsWhole
PROPERTY BuildEnds
\* A handler that is refused or has no queries asks no more.
CHECK_DEADLOCK FALSE
