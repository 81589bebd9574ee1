CONSTANTS
  s1 = s1
  b1 = b1
  e1 = e1
  Starts <- MCStarts
  Bounded <- MCBounded
  EngineCalls <- MCEngineCalls
  ExportsReturn = TRUE

SPECIFICATION FairSpec

INVARIANTS
  TypeOK
  InFlightBalanced
  DrainedIsQuiet

PROPERTIES
  DeadlinesHold
  NoStreamLeaks
