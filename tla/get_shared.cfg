CONSTANTS
  Names <- MCNames
  Bodies <- MCBodies
  Cards <- MCCards
  Garbage <- MCGarbage
  NameMatches <- MCNameMatches
  MaxSize = 7
  MaxChanges = 2
  Platform = "linux"
  BlockSize = 2
  LongMax = 5
  OffsetLimit = 12
  MaxFailures = 1
SPECIFICATION FairSpec
INVARIANTS
  TypeOK
  LocalInOrder
  BlocksAreWhole
  SuccessHasFullLength
  FailureReleases
PROPERTIES
  CopySpec
  ListingSpec
  Terminates
CHECK_DEADLOCK FALSE
