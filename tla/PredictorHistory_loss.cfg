CONSTANTS
  Times <- MCTimes
  History = 2
  CompactLines = 1
  MaxObservations = 3

SPECIFICATION Spec

INVARIANT CrashLosesOneInterval
