SPECIFICATION FairSpec
CONSTANTS
  Task = {t1, t2, t3}
  Thread = {a, b}
  NoTask = NoTask
INVARIANT HandlerTasksRunInSameIteration
PROPERTY ImplementsExecutor
PROPERTY QueuedFunctionsRun
PROPERTY LoopKeepsPolling
PROPERTY QuitEndsLoop
