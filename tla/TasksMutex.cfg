SPECIFICATION Spec
CONSTANTS
  n1 = n1
  n2 = n2
  Nodes = {n1}
  Batch = Batch
  MaxTasks = 4
  Workers = 2
  Kinds = {"update-install", "activity"}
INVARIANTS UpdateMutex
CHECK_DEADLOCK FALSE
