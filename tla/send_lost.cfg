CONSTANTS
  Names <- MCNames
  Bodies <- MCBodies
  Sources <- MCSources
  NoName = NoName
  Platform = "linux"
  BlockSize = 2
  CountLimit = 4
  MaxChanges = 0
  MaxOthers = 0
SPECIFICATION Spec
INVARIANTS
  LostBlockIsReported
CHECK_DEADLOCK FALSE
