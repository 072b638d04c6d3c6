SPECIFICATION Spec
CONSTANTS
  t1 = t1
  Tasks = {t1}
  NoTask = NoTask
  NoTime = NoTime
  Intervals = {1, 2}
  Starts = {0, 2}
  Latest = 3
  MaxTime = 3
  MaxRuns = 3
  MaxEdits = 1
  Faults = {"stop", "audit", "database"}
INVARIANTS TypeOK OneExecution SingleFlight ScheduleAdvances LastResultIsLatest
PROPERTIES NoBacklog ManualRunFreezesSchedule
