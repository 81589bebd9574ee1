CONSTANTS
  c1 = c1
  c2 = c2
  r1 = r1
  Shutdown = Shutdown
  None = None
  Segments <- MCSegments
  Calls <- MCCalls
  Readers <- MCReaders
  Configs <- MCConfigs
  Lists <- MCLists

SPECIFICATION FairSpec

INVARIANTS
  TypeOK
  OneLoop
  RequestsSeeOneConfig
  FailClosed
  OneEngine
  ShutdownLeavesNothing

PROPERTIES
  OutageKeepsServing
  CallsReturn
