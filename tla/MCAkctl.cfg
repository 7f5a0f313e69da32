SPECIFICATION Spec
CONSTANTS
  t1 = t1
  t2 = t2
  t3 = t3
  None = None
  Tasks = {t1, t2, t3}
  Legacy = {}
  Queues <- MCQueues
  Gpus = {0, 1}
  MaxActive = 2
  MaxPerGpu = 2
  MaxStarts = 3
  Procs = {p1, p2}
  Named = {t1}
  Launchers = {p1}
  Modes = {"patrols", "batches", "overlapping"}
  MaxCommands <- MCCommands
INVARIANTS
  LaunchedOnce
  WithinLimits
PROPERTIES
  HistoryKept
  PlacementRefined
\* The number of commands is bounded.
CHECK_DEADLOCK FALSE
