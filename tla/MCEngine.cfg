CONSTANTS
  NumGpuBlocks = 4
  Key <- MCKey
  KeyTokens <- MCKeyTokens
  NoHash = NoHash
  EnableCaching = TRUE
  Req <- MCReq
  Token <- MCToken
  Prompt <- MCShared
  BlockSize = 2
  MaxModelLen = 7
  WatermarkBlocks = 0
  MaxTokens = 3
  Eos = 1
  Policies <- MCPolicies
  Rank <- MCRank
  TokenBudget = 3
  MaxNumSeqs = 2
  r1 = r1
  r2 = r2
SPECIFICATION Spec
INVARIANTS
  BudgetAccounted
  QueuesMatchStatus
  BlocksHeldByRunning
  ResetRunningSucceeds
  CountersMatchSteps
  DeliveredInOrder
  LengthsRespected
  ReadsOwnPrefix
  CachedBlocksAreComputed
