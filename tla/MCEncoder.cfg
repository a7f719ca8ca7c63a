CONSTANTS
  r1 = r1
  r2 = r2
  imgA = imgA
  imgB = imgB
  imgC = imgC
  Req <- MCReq
  Hash <- MCHash
  Embeds <- MCEmbeds
  Features <- MCFeatures
  NumTokens <- MCNumTokens
  CacheSize = 3
  EncoderBudget = 3
  MaxChunk = 4
  Policies <- MCPolicies
  Rank <- MCRank
  MaxInFlight = 2
SPECIFICATION Spec
INVARIANTS
  SlotsAccounted
  ReferencesExact
  NoHoldAndWait
  PromisedRoom
  WorkerWithinCapacity
  FcfsWorkerHasInputs
