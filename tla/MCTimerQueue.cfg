SPECIFICATION FairSpec
CONSTANTS
  Timer = {t1, t2, t3}
  Interval = {1, 2}
  MaxTime = 2
INVARIANT ArmedForEarliest
INVARIANT OnePlacePerTimer
PROPERTY EveryTimerRuns
PROPERTY TimerfdIsNotLeftReadable
