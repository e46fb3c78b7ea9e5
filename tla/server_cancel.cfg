CONSTANTS
  MaxId = 2
  MaxSent = 3
SPECIFICATION Spec
CHECK_DEADLOCK FALSE
INVARIANTS CancelledStoresNothing
