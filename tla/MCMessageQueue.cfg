CONSTANTS
  r1 = r1
  r2 = r2
  Reader <- MCReader
  Deadline <- MCDeadline
  Large <- MCLarge
  MaxChunks = 2
  MaxSent = 3
SPECIFICATION FairSpec
INVARIANT
  NoOverlap
PROPERTIES
  IsBroadcastQueue
  EveryMessageArrives
CHECK_DEADLOCK FALSE
