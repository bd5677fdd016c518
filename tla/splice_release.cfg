SPECIFICATION FairSpec
CONSTANTS
  MaxChunks <- Chunks
  Capacity = 1
INVARIANT TypeOK
INVARIANT NothingLost
PROPERTY EverythingReleased
CHECK_DEADLOCK FALSE
