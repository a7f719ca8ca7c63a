CONSTANTS
  NumGpuBlocks = 4
  Key <- MCKey
  KeyTokens <- MCKeyTokens
  NoHash = NoHash
  EnableCaching = TRUE
  Req <- MCReq
  Token <- MCToken
  Prompt <- MCPrompt
  Remote <- MCRemote
  Configs <- MCFailing
  BlockSize = 2
  MaxModelLen = 6
  WatermarkBlocks = 0
  MaxTokens = 2
  Eos = 1
  Policies <- MCPlainStep
  Rank <- MCRank
  TokenBudget = 4
  MaxNumSeqs = 2
  r1 = r1
  r2 = r2
SPECIFICATION TransferSpec
INVARIANT CachedBlocksAreValid
CHECK_DEADLOCK FALSE
