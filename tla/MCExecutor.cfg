CONSTANTS
  NumWorkers = 2
  OutputRank = 2
  MaxInFlight = 2
  MaxCalls = 4
  Configs <- MCConfigs
SPECIFICATION FairSpec
INVARIANT
  OwnAnswersUnlessEnding
PROPERTIES
  NeverStuck
  DeathEndsEngine
CHECK_DEADLOCK FALSE
