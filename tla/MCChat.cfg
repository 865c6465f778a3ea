SPECIFICATION Spec
CONSTANTS
  a = a
  b = b
  empty = empty
  short = short
  long = long
  Client = {a, b}
  Conn = {1, 2, 3}
  Owner <- MCOwner
  Line = {empty, short, long}
  Input <- MCInput
  Size <- MCSize
  nHeader = 2
  MaxLen = 1
  MaxCuts = 1
CHECK_DEADLOCK FALSE
INVARIANT SpeakersAreInOrder
INVARIANT PrintedIsTheLog
INVARIANT NothingStaysBuffered
