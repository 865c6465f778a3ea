SPECIFICATION FairSpec
CONSTANTS
  MaxThreads = 3
  MaxGiven = 2
CHECK_DEADLOCK FALSE
INVARIANT HandedLoopsAreInitialised
INVARIANT NextLoopExists
INVARIANT GivenInTurn
PROPERTY StartReturns
