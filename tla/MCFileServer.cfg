SPECIFICATION FairSpec
CONSTANTS
  MaxSize = 7
  BUF_SIZE = 2
  Room = 3
CHECK_DEADLOCK FALSE
INVARIANT OneChunkAtATime
INVARIANT FileIsReleased
PROPERTY FileArrives
