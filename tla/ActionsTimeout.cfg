SPECIFICATION SpecAll
CONSTANTS
  n1 = n1
  n2 = n2
  Nodes = {n1, n2}
  Batch = Batch
  MaxTasks = 3
  Workers = 2
  Kinds = {"batch-package-cleanup"}
PROPERTIES TimeoutMeansUnfinished
SYMMETRY Symmetry
CHECK_DEADLOCK FALSE
