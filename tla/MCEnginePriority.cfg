CONSTANTS
  NumGpuBlocks = 7
  Key <- MCKey
  KeyTokens <- MCKeyTokens
  NoHash = NoHash
  EnableCaching = TRUE
  Req <- MCReq
  Token <- MCToken
  Prompt <- MCLong
  BlockSize = 2
  MaxModelLen = 10
  WatermarkBlocks = 0
  MaxTokens = 2
  Eos = 1
  Policies <- MCPriorityCut
  Rank <- MCRank
  TokenBudget = 3
  MaxNumSeqs = 2
  r1 = r1
  r2 = r2
SPECIFICATION Spec
INVARIANT CachedBlocksAreComputed
