SPECIFICATION Spec
CONSTANTS
  t1 = t1
  t2 = t2
  g1 = g1
  Tasks = {t1, t2}
  Workers = {w1, w2, w3}
  Observer = observer
  Requests = {r1}
  None = None
  MaxWorkers = 1
  Gpus = {g1}
  Gpu <- OneGpu
  Kind <- AllRemote
  Gated = {t1}
  Unfit = {t2}
  Faults = {"start", "lateStart", "stop", "window", "database", "unreachable", "host"}
  MaxFaults = 1
  Requested = {"stop", "ping", "nudge", "delete"}
  MaxSubmits = 2
  MaxCrashes = 1
INVARIANTS
  StoreTypeOK
  WithinCapacity
  OneLiveRow
  ActiveHasWorker
PROPERTIES
  LifecycleLegal
  StoreSpec
\* All submitted tasks settle and no client asks for more: the system may stop.
CHECK_DEADLOCK FALSE
