CONSTANTS
  MaxResponseBytes = 2
  ChunkSizes <- MCChunkSizes
  MaxEvents = 1
  Policies <- MCSynthetic

SPECIFICATION Spec

INVARIANT NoInventedSuccess
