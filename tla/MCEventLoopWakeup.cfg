SPECIFICATION Spec
CONSTANTS
  Task = {t1, t2, t3}
  Thread = {a, b}
  NoTask = NoTask
SYMMETRY Symmetry
INVARIANT QueuedTaskWakesPoll
