CONSTANTS
  Names <- MCNames
  Bodies <- MCBodies
  Cards <- MCCards
  Garbage <- MCGarbage
  NameMatches <- MCNameMatches
  MaxSize = 7
  MaxChanges = 0
  Platform = "linux"
  BlockSize = 2
  LongMax = 7
  OffsetLimit = 16
  MaxFailures = 0
SPECIFICATION Spec
INVARIANTS
  FetchesNamedFile
CHECK_DEADLOCK FALSE
