SPECIFICATION Spec
CONSTANTS
  None = None
  Kinds = {"monitor", "nudge", "feed", "feishu", "deploy", "lock", "capture", "hub", "worker", "rows"}
  t1 = t1
  t2 = t2
  t3 = t3
  m1 = m1
  m2 = m2
  c1 = c1
  p1 = p1
  p2 = p2
  Monitors = {m1, m2}
  MonitorCommands = {c1}
  LoopModes = {"single", "several"}
  Policies <- MCPolicies
  Cooldown = 2
  MaxMonitorTime <- MCMaxMonitorTime
  MaxMonitorCommands <- MCMaxMonitorCommands
  NudgedWorkers = {t1, t2}
  NudgeCommands = {p1, p2}
  MaxNudgeCommands = 4
  FeedTasks = {t1}
  Publishers = {p1, p2}
  FeedModes = {"ordered", "racing"}
  QueueSize = 2
  MaxVersion = 2
  MaxEvents = 5
  FeishuTasks = {t1, t2}
  FeishuThreads = {p1, p2}
  FeishuModes = {"server", "commands"}
  Interval = 3
  Timeout = 1
  ListLimit = 3
  MaxFeishuTime = 4
  MaxRestarts = 1
  MaxFeishuCommands = 3
  MaxRows = 4
  TaskList <- MCTaskList
  Gpus <- MCGpus
  SlotsPerGpu = 2
  DeployModes = {"same", "varied"}
  MaxRuns = 3
  Procs = {"a1", "a2", "b1"}
  Workers = {"a"}
  Owner <- MCOwner
  Unnamed = {"a2"}
  Threads = {p1, p2}
  CaptureModes = {"once", "again"}
  MaxRequests = 3
  MaxPulls = 2
  MaxStarts = 2
  Versions = {"v1", "v2"}
  Workspaces = {"w1", "w2"}
  Arms = {"A", "B"}
  StartModes = {"launch", "dry"}
  MaxRounds = 1
  RowTasks = {t1, t2}
  NumberedTasks = {t1}
  MaxEntries = 2
  RowWorkspaces <- MCRowWorkspaces
INVARIANTS
  OnlyConfiguredPane
  ReachedIsGated
  OneLoop
  NoGhost
  DeletedStaysDeleted
  CaughtUp
  OneRowPerTask
  InitCompletes
  FirstStartedWins
  SlotsKept
  RecordedIsPrompted
  MeasuredPinned
  NoFalseAlarm
  BypassReported
  IndexedIsStored
  SyncedIsWhole
  
PROPERTIES
  KeepsCooldown
  RowsKept
\* A component may come to its end: everything it was asked for is done.
CHECK_DEADLOCK FALSE
