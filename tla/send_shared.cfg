CONSTANTS
  Names <- MCNames
  Bodies <- MCBodies
  Sources <- MCSources
  NoName = NoName
  Platform = "linux"
  BlockSize = 2
  CountLimit = 4
  MaxChanges = 2
  MaxOthers = 3
SPECIFICATION FairSpec
INVARIANTS
  TypeOK
  UploadIsPrefix
  OwnBytesInOrder
  CompleteUnlessBlockLost
  UploadClosed
  SourceClosed
PROPERTIES
  CopySpec
  Terminates
CHECK_DEADLOCK FALSE
