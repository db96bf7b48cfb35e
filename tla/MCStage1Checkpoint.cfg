CONSTANTS
  NoFile = NoFile
  Bad = Bad
  Foreign = Foreign
  MaxBackups = 3
  Limits = {1, 2, 3}
  Deferred = TRUE
  MaxProgress = 4
  MaxBatch = 2
  MaxFault = 3
SPECIFICATION Spec
INVARIANTS
  TypeOK
  OwnBatch
PROPERTIES
  OnlyDamageLoses
  ImplementsRegister
