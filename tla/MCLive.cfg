SPECIFICATION LiveSpec
CONSTANTS
  t1 = t1
  t2 = t2
  g1 = g1
  Tasks = {t1, t2}
  Workers = {w1, w2, w3}
  Observer = observer
  Requests = {r1}
  None = None
  MaxWorkers = 2
  Gpus = {g1}
  Gpu <- OneGpu
  Kind <- ShellAndLocal
  Gated = {}
  Unfit = {}
  Faults = {"lateStart"}
  MaxFaults = 1
  Requested = {}
  MaxSubmits = 2
  MaxCrashes = 1
INVARIANTS
  TerminalHasNoWorker
  ActiveIsObserved
PROPERTIES
  QueuedIsServed
  ClaimResolves
  ExitIsNoticed
\* All submitted tasks settle and no client asks for more: the system may stop.
CHECK_DEADLOCK FALSE
