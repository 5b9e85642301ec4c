SPECIFICATION Spec
CONSTANTS
  L = 4
  W = 16
  Origin = 13
  MaxFrame = 27
INVARIANTS
  RingOK
PROPERTIES
  InOrder
  EnqueueIsRight
  RequestsAreMissing
  ImplementsWindow
CHECK_DEADLOCK FALSE
