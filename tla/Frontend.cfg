SPECIFICATION Spec
CONSTANTS
  None = None
  Guests = {"a", "b"}
  Nodes = {"n1", "m1", "m2"}
  Infra <- MCInfra
  Name <- MCName
  Home <- MCHome
  Dashboards <- MCDashboards
  MaxStarts = 1
  MaxPolls = 2
  ScheduledGuests = {"b", "c"}
  Place <- MCPlace
  ScheduledActions = {"restore", "migrate", "check-updates"}
  Newest = 1
  Schedules = {"t1"}
  ActionNodes = {"n1", "m1"}
  Standalone = {1}
  NodeActionKinds = {"check-updates", "shutdown"}
  MaxPosts = 1
  ManagedTasks = {"t1", "t2"}
  TaskInfras = {1, 2}
  Of <- MCOf
  HaClusters = {1, 2}
  InfraIds = {"i", "j"}
  Endpoints = {"e1", "e2"}
  ClusterEndpoints = {"e1"}
  Tokens = {"k1"}
  DisplayNames = {"x", "y"}
  Deletes = {"d1"}
  MaxCalls = 2
  Channels = {"discord", "email"}
  Secrets = {"s"}
  MaxRequests = 2
  UserIds = {"ann", "bob"}
  Roles = {"admin", "viewer"}
  Filters = {"login", "clear"}
  PageSize = 2
  MaxLog = 3
INVARIANTS TypeOK SentAsChecked OutcomeToldOnce StoredFits WarnedOrMaintained
           AdminRemains DeletionRecorded SelectedShown
PROPERTIES SecretsKept FollowsSelection
CHECK_DEADLOCK FALSE
