SPECIFICATION Spec
CONSTANTS
  t1 = t1
  t2 = t2
  g1 = g1
  Tasks = {t1}
  Workers = {w1, w2}
  Observer = observer
  Requests = {r1}
  None = None
  MaxWorkers = 2
  Gpus = {g1}
  Gpu <- OneGpu
  Kind <- AllShell
  Gated = {t1}
  Unfit = {}
  Faults = {}
  MaxFaults = 0
  Requested = {"delete"}
  MaxSubmits = 1
  MaxCrashes = 1
PROPERTIES
  NeverErasesLiveWorker
\* All submitted tasks settle and no client asks for more: the system may stop.
CHECK_DEADLOCK FALSE
