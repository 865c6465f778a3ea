SPECIFICATION FairSpec
CONSTANTS
  Server = {s1}
  MaxThreads = 2
  Conn = {c1, c2, c3}
  Fd = {f1, f2}
  NoFd = NoFd
CHECK_DEADLOCK FALSE
INVARIANT OpenConnectionsAreKept
INVARIANT PollersKeepOpenChannels
PROPERTY ImplementsConnectionLife
PROPERTY ConnectionsAreDestructed
