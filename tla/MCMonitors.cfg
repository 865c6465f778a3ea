SPECIFICATION SharedFairSpec
CONSTANTS
  Thread = {a, b, c}
  Count = 2
  MaxItems = 3
CHECK_DEADLOCK FALSE
INVARIANT TraversedIsStable
PROPERTY CallsReturn
