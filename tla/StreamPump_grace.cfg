CONSTANTS
  MaxResponseBytes = 2
  ChunkSizes <- MCChunkSizes
  MaxEvents = 1
  Policies <- MCStrict

SPECIFICATION FairSpec

PROPERTY GraceBoundsTheWait
