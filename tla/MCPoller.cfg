SPECIFICATION Spec
CONSTANTS
  a = a
  b = b
  c = c
  d = d
  Channel <- MCChannel
  FdOf <- MCFdOf
SYMMETRY SharingDescriptor
CONSTRAINT Few
CHECK_DEADLOCK FALSE
INVARIANT PollfdsMatchChannels
INVARIANT InterestIsPolled
INVARIANT AssertsHold
INVARIANT ActiveChannelsAreRegistered
PROPERTY ImplementsPollSet
