CONSTANTS
  NumWorkers = 2
  OutputRank = 2
  MaxInFlight = 2
  MaxCalls = 5
  Configs <- MCFailingUtility
SPECIFICATION Spec
INVARIANT OwnAnswers
CHECK_DEADLOCK FALSE
