CONSTANTS
  MaxResponseBytes = 2
  ChunkSizes <- MCChunkSizes
  MaxEvents = 1
  Policies <- MCAllPolicies

SPECIFICATION FairSpec

INVARIANTS
  TypeOK
  WaitGroupBalanced
  QuietAfterStop
  TimeoutIsNotAnEnd
  SuccessIsWhole

PROPERTIES
  ClaimIsCurrent
  SessionSpec
  Terminates
