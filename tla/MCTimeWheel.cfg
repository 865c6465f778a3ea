SPECIFICATION WheelSpec
CONSTANTS
  Conn = {c1, c2, c3}
  NumBuckets = 3
SYMMETRY Symmetry
CHECK_DEADLOCK FALSE
INVARIANT IdleIsShutDown
PROPERTY ActiveIsKept
