CONSTANTS
  Names <- MCNames
  Bodies <- MCBodies
  Cards <- MCCards
  Garbage <- MCGarbage
  MaxSize = 3
  MaxChanges = 2
SPECIFICATION ListSpec
INVARIANTS
  ListTypeOK
  ListsTheDirectory
  ListingLeaksNothing
PROPERTIES
  ListingSpec
CHECK_DEADLOCK FALSE
