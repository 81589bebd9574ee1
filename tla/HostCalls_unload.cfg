CONSTANTS
  s1 = s1
  b1 = b1
  e1 = e1
  Starts <- MCStarts
  Bounded <- MCBounded
  EngineCalls <- MCEngineCalls
  ExportsReturn = FALSE

SPECIFICATION Spec

INVARIANT DrainedIsQuiet
