SPECIFICATION SpecAll
CONSTANTS
  n1 = n1
  n2 = n2
  Nodes = {n1, n2}
  Batch = Batch
  MaxTasks = 4
  Workers = 2
  Kinds = {"batch-update-install", "update-check", "activity"}
INVARIANTS AllTypeOK LockInvariant MutexUnlessReleased NoLockLeak BatchVerdict
           RunTellsOutcome SingleReport
PROPERTIES EndedIsFinal
SYMMETRY Symmetry
CHECK_DEADLOCK FALSE
