SPECIFICATION Spec
CONSTANTS
  t1 = t1
  Tasks = {t1}
  NoTask = NoTask
  NoTime = NoTime
  Intervals = {1}
  Starts = {0, 2}
  Latest = 100
  MaxTime = 2
  MaxRuns = 2
  MaxEdits = 1
  Faults = {}
PROPERTIES UserChangesSurviveRun
CHECK_DEADLOCK FALSE
