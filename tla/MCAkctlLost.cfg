SPECIFICATION Spec
CONSTANTS
  t1 = t1
  t2 = t2
  t3 = t3
  None = None
  Tasks = {t1, t2, t3}
  Legacy = {}
  Queues <- MCQueues
  Gpus = {0}
  MaxActive = 2
  MaxPerGpu = 2
  MaxStarts = 2
  Procs = {p1, p2}
  Named = {}
  Launchers = {p1}
  Modes = {"overlapping"}
  MaxCommands <- MCCommands
PROPERTY
  HistoryPreserved
\* The number of commands is bounded.
CHECK_DEADLOCK FALSE
