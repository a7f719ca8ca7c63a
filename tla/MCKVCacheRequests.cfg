CONSTANTS
  NumGpuBlocks = 4
  Key <- MCKey
  KeyTokens <- MCKeyTokens
  NoHash = NoHash
  EnableCaching = TRUE
  Req <- MCReq
  Token <- MCToken
  Prompt <- MCPrompt
  BlockSize = 2
  MaxModelLen = 4
  WatermarkBlocks = 1
  r1 = r1
  r2 = r2
SYMMETRY Symmetry
SPECIFICATION Spec
INVARIANTS
  TablesHoldReferences
  TableKeysAreOwn
  TableCoversComputed
  CheckedCapacitySuffices
  UncachedReusedFirst
  LaterBlocksMissToo
