SPECIFICATION Spec
CONSTANTS
  t1 = t1
  Tasks = {t1}
  NoTask = NoTask
  NoTime = NoTime
  Intervals = {1}
  Starts = {0}
  Latest = 100
  MaxTime = 2
  MaxRuns = 2
  MaxEdits = 0
  Faults = {"stop"}
INVARIANTS RunningMeansExecuting
