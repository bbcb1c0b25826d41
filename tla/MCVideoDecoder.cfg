SPECIFICATION Spec
CONSTANTS
  MaxFrame = 6
  Lag = 3
CHECK_DEADLOCK FALSE
INVARIANTS
  TypeOK
  WindowBounded
  ReadyWaits
PROPERTIES
  CompleteIsShown
  AckedInOrder
  ImplementsOrder
