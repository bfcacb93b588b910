CONSTANTS
  Names <- MCNames
  Bodies <- MCBodies
  Cards <- MCCards
  Garbage <- MCGarbage
  MaxSize = 3
  MaxChanges = 0
SPECIFICATION ListSpec
INVARIANTS
  CountErrorIsReturned
CHECK_DEADLOCK FALSE
