SPECIFICATION FairSpec
CONSTANTS
  m1 = m1
  m2 = m2
  Msg = {m1, m2}
  Size <- Sizes
  Room = 1
  Thread = {a}
CHECK_DEADLOCK FALSE
INVARIANT StreamIsInOrder
INVARIANT BufferedMeansWriting
INVARIANT FinAfterBuffer
INVARIANT ClosesOnce
INVARIANT DestructedAfterRemoval
PROPERTY BufferDrains
PROPERTY ShutdownSendsFin
PROPERTY ClosedIsDestructed
