SPECIFICATION Spec
CONSTANTS
  t1 = t1
  t2 = t2
  g1 = g1
  Tasks = {t1, t2}
  Workers = {w1, w2, w3}
  Observer = observer
  Requests = {r1}
  None = None
  MaxWorkers = 2
  Gpus = {g1}
  Gpu <- OneGpu
  Kind <- ShellAndLocal
  Gated = {t1}
  Unfit = {}
  Faults = {"start", "stop", "window"}
  MaxFaults = 1
  Requested = {"stop", "ping", "nudge"}
  MaxSubmits = 2
  MaxCrashes = 0
INVARIANTS
  FlotillaTypeOK
  TerminalHasNoWorker
  ActiveIsObserved
  LiveWorkerHoldsLease
  GpuExclusive
  EvaluatedWorkspaceIsQuiet
\* All submitted tasks settle and no client asks for more: the system may stop.
CHECK_DEADLOCK FALSE
