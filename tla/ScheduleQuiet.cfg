SPECIFICATION FairSpec
CONSTANTS
  t1 = t1
  Tasks = {t1}
  NoTask = NoTask
  NoTime = NoTime
  Intervals = {1, 2}
  Starts = {0, 1}
  Latest = 100
  MaxTime = 3
  MaxRuns = 3
  MaxEdits = 1
  Faults = {}
INVARIANTS RunningMeansExecuting NotOrphaned
PROPERTIES DueTaskIsClaimed RunEnds
CHECK_DEADLOCK FALSE
