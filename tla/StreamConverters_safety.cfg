CONSTANTS
  MaxLines <- MCMaxLines
  Lines <- MCLines

SPECIFICATION Spec

INVARIANTS
  TypeOK
  BlocksWellFormed
  EndIsWhole
  NoFragmentLost
  IdleMeansIdle
  ModeParity

PROPERTY PumpPicture
