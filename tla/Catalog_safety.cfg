CONSTANTS
  Segments <- MCSegments
  Configs <- MCConfigs
  Lists <- MCLists

SPECIFICATION Spec

INVARIANTS
  TypeOK
  NoMisroute
  FirstWins
  Accounted
