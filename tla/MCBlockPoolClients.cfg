CONSTANTS
  NumGpuBlocks = 4
  Key <- MCKey
  KeyTokens <- MCKeyTokens
  NoHash = NoHash
  EnableCaching = TRUE
  Client <- MCClient
  c1 = c1
  c2 = c2
  short = short
  long = long
SYMMETRY Symmetry
SPECIFICATION Spec
INVARIANTS
  TypeOK
  RefCountsHolders
  FreeQueueIsUnreferenced
  MapMatchesHashes
  PrimaryKeyIsLongest
  
  WatchedNotOverwritten
