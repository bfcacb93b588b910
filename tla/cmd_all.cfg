CONSTANTS
  Commands <- MCCommands
  SenseLengths <- MCSenseLengths
  Linked <- MCAll
  MaxCalls = 3
  Garbage = Garbage
SPECIFICATION Spec
INVARIANTS
  TypeOK
  HandleClosed
  SuccessMeansExecuted
  ResponseIsFresh
PROPERTIES
  CallerSpec
CHECK_DEADLOCK FALSE
