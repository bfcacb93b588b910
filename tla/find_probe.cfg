CONSTANTS
  Linked <- MCAll
  Buses <- MCBuses
  Uninitialised <- MCUninitialised
SPECIFICATION Spec
INVARIANTS
  ProbesOnlyRead
CHECK_DEADLOCK FALSE
