CONSTANTS
  Linked <- MCAll
  Buses <- MCBuses
  Uninitialised <- MCUninitialised
SPECIFICATION Spec
INVARIANTS
  TypeOK
  FindsAll
  HeldIsListed
  DescribedByOwnId
PROPERTIES
  InventorySpec
CHECK_DEADLOCK FALSE
