SPECIFICATION Spec
CONSTANTS
  None = None
  Nodes = {"n1", "n2"}
  Batch = "batch"
  MaxTasks = 3
  Workers = 1
  Kinds = {"batch-update-install", "update-check", "reboot", "activity"}
  HaStates = {"started", "stopped", "ignored", "disabled"}
  LostInRestore = {"ha", "stop", "start"}
  Disks = {"d1", "d2"}
  NoDisk = NoDisk
  Theirs = {"v1"}
  Others = {"v2"}
  LostInMigration = {"move", "delete", "migrate", "unlock"}
  BackupJobs = {"j1"}
  Archives = {"a1", "a2"}
  MaxRestores = 1
  MaxSnapshots = 2
  Attempts = 1
  MaxOpens = 2
INVARIANTS TypeOK NeverRunsHalfRestored BringsBackGuest SuccessMeansDone
           TidyOrTold
PROPERTIES RestoresStoppedGuest EarlierVolumesKept HandsOff EveryTaskEnds
           SnapshotDialogFrees BothEndsClose
CHECK_DEADLOCK FALSE
