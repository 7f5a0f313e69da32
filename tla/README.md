# KerSor-Monitor: specifications, model checking and proofs

KerSor-Monitor runs and supervises coding agents that optimise GPU kernels. Its
centre is **Flotilla** (`flotilla/`): a server that takes tasks, starts a worker
(a coding agent in a tmux window, or a shell command) for each, watches the workers,
evaluates their result and settles the tasks. Around it are command line control
planes under `scripts/` (akctl, the monitors, telemetry, shell wrappers) and a
browser dashboard. This directory models Flotilla's task lifecycle, akctl and ten
smaller components from the source, checks them with TLC, and proves with TLAPS, for
every value of the constants, the safety properties of the server, of akctl and of
most of the smaller components.

## 1. Inventory

### Flotilla

| Part | State | Operations | What makes it correct |
|---|---|---|---|
| `state.py` | none (the transition table) | `transition` | every state change anywhere is one the table accepts |
| `store.py`, `db.py` | SQLite tables project, task, worker, event, host, template; each method is one transaction | create, claim, release, mark stale, activate, finish, end, delete; events with retention | capacity, one live worker per task, state and worker row change together |
| `scheduler.py` | local variables of `tick()` | patrol: mark stale claims, claim, resolve, start in a pool, activate, compensate | every claim is activated or given back; a failed dispatch leaves no worker, handle or lease |
| `actuator.py` | `_HANDLES`, `_RETIRING` under one lock | register, unregister, `retire`, `actuate` (stop, nudge) | a worker is retired once; its lease, row and handle go together |
| `observer.py` | none (a loop over a snapshot of the handles) | observe, record, map to a task state, retire | an exit is noticed; a report is applied to the run it came from |
| `routes.py` | none | submit, actuate, delete, worker-ping; hosts, templates, SSE | a delete does not erase a worker that may be alive |
| `app.py` | none | reconciliation at start-up | after a restart every active task is observed or LOST |
| `runtime/` | the workers, their windows, `status.json` | start, observe, paste, stop | named windows are shared by the runs of one task; each call can fail half-way |
| `resource/` | `GpuResource._held` (flocks of the process) | acquire, release by uuid | one worker per GPU |
| `evaluator/` | none | score a workspace | runs on a workspace nobody writes |
| `sinks/` | `_LATEST`, subscriber queues, Feishu throttle and record id cache | publish a task view | the last view published is the last state |
| `dashboard/` | the browser's task list | merge list and stream | same |

How the parts interact: the scheduler thread, the observer thread and the threads
that serve HTTP requests share the database and, inside one process, the handle
registry and the GPU leases. A worker is driven through its runtime and answers
through `status.json`, its pane or exit code, and a heartbeat request. Between any
two transactions, lock regions or runtime calls another thread can act. A crash of
the server loses the registry, the leases and the claims in `tick()`, and keeps the
tables and the tmux workers.

What is hard: two actors retiring one task; a report of an earlier run of a task
applied to a later one (handles and windows are named by task alone); a dispatch
that fails after the worker was started; a crash between claim and activation; exits
while the server is down; leases that are released by uuid; a check in one
transaction and the action in another. `PROJECT.json` lists each at its line.

### Control planes and tools

None of these shares state with the server, except the sinks and the dashboard,
which read what it publishes.

| Part | State | Operations | What makes it correct |
|---|---|---|---|
| akctl (`install-autokaggle-control.py`) | `registry.json`, workspaces with `status.json`, tmux windows | patrol, start, batch, smoke, stop, stop-all, cleanup, monitor, orchestrator | a worker is launched once, limits of host and GPU, slots apart, no record lost |
| v2 deployer (`autokaggle-v2.py`) | `registry.json`, tmux sessions | one run: choose, start, prompt, record | a repeated run neither fills a slot twice nor records a worker without its prompt |
| generic monitor (`generic_control.py`, `generic_remote_monitor.py`) | `bundle.json`, `state.json`, the loop's window | observe, judge, nudge, record; deploy, start, stop, once | nudges a cooldown apart, in the configured pane, from one loop |
| AutoKaggle monitor (`monitor_state.py`, `local-monitor.py`) | Feishu table | init-feishu, sync-feishu, loop; observe a worker | one row for each task, rows never overwritten; alarms about the GPU that are true |
| nudging by hand (`local-monitor.py` observe-worker, verdict-prompt, actuate-worker) | observation and verdict files | observe, judge, actuate | nothing is typed into the pane of a read-only or legacy worker |
| Feishu sink (`sinks/feishu.py`) | throttle, record id cache and its file | render | one row for each task |
| stream and dashboard (`sinks/web.py`, SSE, `TaskGrid.tsx`) | `_LATEST`, queues, the page's maps | publish, replay, merge, confirm | no ghost of a deleted task, the page catches up |
| `gpu-run.sh`, `gpu_lock.sh` | the lock file, the GPU's clocks | lock, pin, run, reset | a command is measured with pinned clocks |
| `start-worker.sh`, `init_workspace.py` | prompt, `status.json`, window | prepare and start | the arm recorded is the arm of the worker |
| telemetry (`otel_receiver.py`, `otel-plugin.py`) | numbered bodies, index, local copy | store, stop, pull | every row of the index has its own body |
| `skill_hub.py` | version directories and links | sync, link | a sync that answered left a whole version behind each link |

## 2. Modules

```
TaskState <- Store <- Runtimes <- ControlState <- Actuator <- Routes --------\
                 \                            \             <- ObserverLoop --> Flotilla <- MCFlotilla
                  <- StoreProofs               <- Scheduler -----------------/

Flotilla, StoreProofs <- FlotillaProofs <- RetirementProofs <- ObservedProofs

AkctlRegistry <- Akctl <- MCAkctl          Placement <- PlacementProofs
                   \--- implements ----------/
Akctl <- AkctlProofs <- PatrolProofs (with PlacementProofs)

GenericMonitor, WorkerNudge, TaskFeed, FeishuMirror, LegacyRows, V2Deploy,
GpuLock, OtelCapture, SkillHub, WorkerStart  <- Tools <- MCTools, ToolsProofs
```

| Module | Code | State and actions |
|---|---|---|
| `TaskState` | `state.py` | `STATES`, `Allowed`, `CanMove` (= `transition` returns) |
| `Store` | `store.py`, `db.py` | `task` (state column), `queue` (QUEUED rows by `updated_at, id`), `rowTask`, `live` (worker rows, those with `ended_at` NULL). One action per method that writes; `StoreNext` calls them with any arguments a caller could pass, however old. |
| `Runtimes` | `runtime/`, `resource/gpu.py`, `observer.py` mapping | `home`, `world` (the worker processes), `status` (`status.json`), `held` (`GpuResource._held`), `faults`. What start, stop and observe do and how they fail. |
| `ControlState` | module variables and thread locals | `handles`, `retiring`, `th` (locals of the observer and request threads), `todo` (rest of the observer's snapshot), `job` (what `tick()` knows of each claim), `boot` (rest of the reconciliation) |
| `Actuator` | `actuator.py` | `retire()` as eight steps (`enter`, `read`, `stop`, `evaluate`, `commit`, `release`, `leave`, or `stick` for STUCK), `actuate()` as `halt`, `paste`, `verify` |
| `Scheduler` | `scheduler.py` | the phases of a claim: claimed, prepared, started, registered, then activated or compensated through cleanup, stopped and unclaim |
| `ObserverLoop` | `observer.py` | snapshot, one item at a time |
| `Routes` | `routes.py` | submit, stop, nudge, delete, worker-ping |
| `Flotilla` | `app.py` and the whole | crash, reconciliation, the workers, fairness, the properties of the system |
| `AkctlRegistry` | `install-autokaggle-control.py` | `registry`, `space` and `smokeSpace` (`status.json` of the workspaces), `worker` (windows); who is active, pending, which slot is free |
| `Akctl` | the same | each command a process with its own `copy` of the registry; one action for each step between two uses of tmux or of a file |
| `Placement` | what patrol promises | a place for each task, taken and given up: the abstract specification of `Akctl` |
| `GenericMonitor` | `generic_control.py`, `generic_remote_monitor.py`, `local-monitor.py` | `bundle`, `pane`, `lastNudge`, the processes, start and stop commands in steps |
| `WorkerNudge` | `local-monitor.py`, `monitor_state.py` (gates of a nudge) | `observation` and `verdict` (files that any command overwrites), the commands in two steps each, `nudges` |
| `TaskFeed` | `sinks/`, the stream of `routes.py`, `TaskGrid.tsx`, `taskState.ts`, `api.ts` | `row`, publishers in steps, `latest`, the stream's `queue`, the `page` |
| `FeishuMirror` | `sinks/feishu.py`, `local-monitor.py`, `monitor_state.py` | `table`, `cache`, `lastSync`, the sink's calls in flight, one command in steps |
| `LegacyRows` | `monitor_state.py` | the merge of a task's sources, as functions and one step |
| `V2Deploy` | `autokaggle-v2.py` | `registry`, `session`, one `run` in steps that may end anywhere |
| `GpuLock` | `gpu-run.sh`, `autokaggle-v2.py`, `monitor_state.py` | `proc` (wrappers and commands, each with its lock file and whether it could pin), `clocks`, one `observation` in three reads |
| `OtelCapture` | `otel_receiver.py`, `otel-plugin.py` | `thread` for each request, `body` files, `index`, the receiver's state, the `local` copy |
| `SkillHub` | `skill_hub.py` | `version`, `tmp`, `active`, `link`; a sync in steps that may end anywhere |
| `WorkerStart` | `start-worker.sh`, `init_workspace.py` | `prompt`, `status`, `window`, one `start` in steps, the worker |
| `Tools` | | the ten components beside the server, side by side |
| `MCFlotilla`, `MCAkctl`, `MCTools` | | TLC instances |
| `StoreProofs`, `FlotillaProofs`, `RetirementProofs`, `ObservedProofs` | | the theorems about the server |
| `PlacementProofs`, `AkctlProofs`, `PatrolProofs` | | the theorems about akctl |
| `ToolsProofs` | | the theorems about the tools |

`Store` is at once the model of `store.py` and the abstract specification of the
server: `StoreSpec` says what the tables promise whoever calls them, and the run
`everything` checks that each step of the whole server, restarts included, is a step
of `StoreNext` or leaves the tables alone (`StoreSpec` as a PROPERTY of `Flotilla`).

The second refinement is akctl's: one command at a time, `PlacementRefined` of
`Akctl` maps each record to the place its worker holds and checks that patrol,
cleanup-panes and stop-task only take free places and give them up for good. The
theorems of `PlacementProofs` about `Placement` then hold of akctl's places.

The ten tool components share nothing, so `Tools` puts them in one specification: the
variable `kind` says which component a behaviour is of, and `s1`, `s2`, ... are its
variables, under the names its module has for them. `MCTools` gives the constants
small values; the theorems of `ToolsProofs` are about `Tools`.

A step of the model is what the code does between two points where another thread
can act: a transaction, a lock region, a runtime call. `retire()` reads the worker
row and the task row in two statements; they are one step, since only the worker row
read first matters for the release and the two are adjacent.

### Abstractions

- Events, messages, published views and every column the lifecycle does not read are
  left out. `updated_at` is kept as the order of `queue`. A submitted batch is placed
  anywhere in it, because its stamps are older than its transaction.
- A worker id stands for its process. `FreshWorker` picks an unused one (uuid4).
  Claims wait while no ids are left: the bound of an instance.
- `status.json` holds one of running, success, stuck, failed: the sets `observer.py`
  names. success also stands for the end-of-session text in the pane, which maps to
  DONE too.
- When the 300 seconds of a claim's lease end is left open (`MarkStale` may take any
  claims no thread of this process works on).
- The evaluator's verdict is nondeterministic. For a remote workspace it is FAILED,
  as in the code.
- A task whose host is not configured any more is LOST at start-up without a look at
  its window: a fault of its own, since `delete_host` refuses while the host is in use.
- The order in which `tick()` resolves its claims is left open.
- Workers of the tmux runtime on this host send heartbeats; remote ones and shell
  commands do not.
- PAUSED is in the table and in every guard but no runtime has `pause` or `resume`,
  so the server never writes it. `SetCalls` of `Store` includes the calls.
- The branch of the reconciliation for an active task without a worker row is not an
  action: `ActiveHasWorker`, checked in `everything` with all faults, says that such
  a task does not exist.
- Faults: a start that fails before or after the window exists, a remote stop that
  fails, a window that vanishes, a database call that fails at activation, at the
  release of a claim or at the end of a worker, a host unreachable or no longer
  configured at start-up. Other
  exceptions (a full disk, a failing resource adapter) are not modelled.
- `Akctl` has one process that starts tasks: two starts of one task that meet in
  `create_workspace` would both pass its `exists()` test.
- A verdict of the monitor's model is any verdict; time is a small clock.
- A view of a task is the version of the row it was built from.
- Feishu lists records in the order of their ids, applies a call or not, and may
  lose its answer. People add blank records while commands run, and delete records
  while the server does. The sink and the commands do not write one table at a time.
- A member of `Procs` in `GpuLock` is a wrapper with its command. Process ids are not
  reused within one observation. `gpu-run.sh` has two lock files for one GPU, that of
  its uuid and `index-N`; which one depends on whether its query is answered. `Unnamed`
  says whose query may fail.
- `GenericMonitor` remembers whether a command took the window of a loop that was
  there for absent (`commands.misread`): ssh failed where the code tests only the
  return code of `list-windows`.
- A telemetry receiver that is told to stop takes no request any more, its threads go
  on writing, and its process stays until something kills it.
- The Feishu sink reads the time of the throttle before it takes the lock: one step
  here, since a snapshot that is published has one task. What passes between the two
  is part of the distance between the interval and the longest call.
- `V2Deploy` has one run at a time and session names of one length: tmux would take
  a shorter name for a longer one it begins.
- The text of prompts, wrappers, manifests and reports, the judgement of models and
  the decoding of telemetry are left out.

## 3. Runs

The longest take one to three minutes with two workers. In the Flotilla instances `MaxFaults` is 1: one fault is enough for
every compensation path, and the ones that need two are combinations of a fault with
a crash or a request, which are counted apart. Two tasks are enough for one to wait
for the other's GPU or slot; two or three worker ids let a task be dispatched again
after its first run. Requests are served by one thread beside the observer and the
scheduler, so up to three actors meet on one task.

| Run | Instance | Question and answer |
|---|---|---|
| `dispatch` | shell and local task, one GPU, 3 workers, one start, stop or window fault, stop, ping and nudge requests | No live row outlives its task, every active task is observed through the right handle, leases follow workers, one worker per GPU, the evaluator sees a quiet workspace. |
| `everything` | 2 remote tasks, one unfit, one with an evaluator, 3 workers, 1 slot, all faults, all requests, a crash | Each step is one the tables' specification allows, so capacity holds, a task has one live row and only legal moves are made; no active task lacks a live row. |
| `live` | shell and local task on one GPU, 3 workers, a late start, a crash, `LiveSpec` | No live row outlives its task and every active task is observed, across a restart. A queued task is served although it is released again and again while its GPU is busy; claims a crash forgot are settled; exits while the server is down are noticed. |
| `akctl` | 3 tasks, 2 GPUs, 2 places each, 5, 3 or 2 commands in three modes | One command at a time: limits kept, history kept, `Placement` implemented, across five commands. Overlapping, killed and failing commands: a worker is still launched once. |
| `tools` | ten components, see below | The properties of each. |
| `lease_leak` | 1 task | **Violated**: see below. |
| `gpu_restart` | 2 local tasks, one GPU, a crash | **Violated** |
| `delete` | 1 task, delete requests | **Violated** |
| `stale_observer` | 1 task, one database fault | **Violated** |
| `akctl_lost` | 3 tasks, 1 GPU, 2 overlapping commands | **Violated** |
| `read_only` | the component `WorkerNudge` of `tools` | **Violated** |
| `dry_run` | the component `WorkerStart` of `tools` | **Violated** |

`StoreSpec` with any arguments a caller could pass, and the two facts across a restart
with stop requests and remote workers, have no run of their own: the theorems of
`StoreProofs` and `ObservedProofs` cover them for every value of the constants, and the
runs check the same properties of the composed server.

The instances of `tools`, each the smallest in which its hazard occurs:

| Component | Bounds | Properties |
|---|---|---|
| `GenericMonitor` | 2 processes, cooldown 2; one loop with 3 commands and 3 ticks, or both overlapping with 1 and 1 | `KeepsCooldown` through restarts and new bundles of one loop; `OnlyConfiguredPane` with a pane made anew between observation and paste; `OneLoop` after any commands one at a time, each call of ssh or tmux failing with effect or without; both exclude a window check that was misread |
| `WorkerNudge` | 2 workers, 2 commands at a time, 4 in all | `ReachedIsGated` with files overwritten between any two steps; `RefusesReadOnly` is violated |
| `TaskFeed` | 1 task, 2 publishers, a queue of 2, 5 publications and disconnections | `NoGhost`, `DeletedStaysDeleted` with racing publishers, late replays, stale lists; `CaughtUp` when the system is quiet |
| `FeishuMirror` | 2 tasks, 2 threads, interval 3, calls of at most 1, 1 restart; 3 commands, lists of 3 | `OneRowPerTask`, `InitCompletes`, `RowsKept` whatever fails half-way and is repeated |
| `LegacyRows` | 2 tasks, 2 workspaces, 2 older entries, every combination | `FirstStartedWins`: the merge against a reference definition |
| `V2Deploy` | 3 tasks, 2 choices of GPUs, 2 slots each, 3 runs | `SlotsKept`, `RecordedIsPrompted` wherever runs end |
| `GpuLock` | 3 processes of 2 owners, one observed, one whose query for the uuid may fail | with fuser, tmux, ps, nvidia-smi and the pinning failing one by one: `MeasuredPinned`, `NoFalseAlarm`, `BypassReported` |
| `OtelCapture` | 2 threads, 3 requests, 2 pulls, 2 starts | `IndexedIsStored` in the run directory and in a copy begun when nothing is written any more |
| `SkillHub` | 2 versions, 2 workspaces, unbounded runs | `SyncedIsWhole` |
| `WorkerStart` | 2 arms, unbounded starts, 1 round | `LaunchedArmRecorded` where nobody gives `--dry-run`; `NeverRelabelled` is violated |

A `mode` in a module separates the conditions under which its properties hold from
those under which the code makes no promise, so that both are explored: overlapping
akctl commands lose records (`akctl_lost`), a second telemetry receiver overwrites
the bodies of the first, a dry run of `start-worker.sh` relabels a running worker,
two publishers of one task may leave the older view.

`CHECK_DEADLOCK FALSE` in the akctl and tool instances: their commands are bounded
in number and some components come to an end. In the Flotilla instances: once every submitted task has
settled and no request is made, the system may stop. The observer's snapshot of an
empty registry is a stutter.

Which faults each run leaves out, and why. A database failure at activation, and
delete requests, break `TerminalHasNoWorker` and `ActiveIsObserved` (that is what
`stale_observer` and `delete` show), so `dispatch` and `live` go without them and
`everything` has them. An unreachable host leaves tasks unobserved by design. A
vanished local window is never reported as an exit and a worker that exits after it
reported `stuck` stays STUCK until an operator acts: the liveness runs leave the
first out and exclude the second by name (`Stranded`). A GPU whose lease leaks is
never free again, so `QueuedIsServed` assumes `LeaseHasOwner`. GPU properties are
stated until the first crash, since a restart drops the leases (`gpu_restart`).

What the properties of the tools leave out, each named in its comment:

- `OneLoop` and `KeepsCooldown` hold of a remote loop and nothing else, with commands
  one at a time and no window check misread (`Orderly`). The model has the other cases
  too: ssh fails in a check and a second loop is made, by one command alone, and two
  starts that overlap each find no window. Both are reachable with two loops.
- `MeasuredPinned` speaks of commands whose wrapper could pin, and allows a reset by a
  wrapper with another lock file.
- `BypassReported` speaks of observations without an error: when tmux or ps fails the
  tree is empty, when nvidia-smi fails no other GPU is seen, and the GPU is `ok` although
  nothing was looked at. The error is in the observation; `ok` does not depend on it.
- `NoFalseAlarm` leaves out an observation whose fuser failed: everybody is reported.
- `IndexedIsStored` of a copy asks that nothing is written any more when the pull begins.
  `remote-stop` sends SIGTERM and says stopped; the handler calls `shutdown()` in the
  thread it has interrupted, so the process stays and its threads write on.

### What the violated runs show

1. `lease_leak`: the scheduler registers the handle before `activate_worker`. A
   worker that ends at once is retired by the observer, which reads its row while it
   does not exist; the activation commits in between; retirement then ends the row
   and releases nothing. The lease stays in `_held` and every later task for that
   GPU goes back to the queue until the server restarts.
2. `gpu_restart`: a task is RUNNING when the server crashes. The reconciliation attaches
   its worker and does not take its lease again; a second task of that GPU is claimed,
   started and activated. `LiveGpuExclusive` is about live rows, so that a start the
   server knew nothing of is no counterexample.
3. `delete`: `delete_task` tests the state, then deletes in another transaction. A
   task claimed, started and activated in between loses its rows, the live one included,
   while its worker runs. A start that is still to be activated is no counterexample:
   `activate_worker` would refuse it and the scheduler stop it.
4. `stale_observer`: the observer applies a report from its snapshot after the run
   it belongs to failed to activate and the task was dispatched again. The second
   run is failed, the first worker id is ended, and the second row stays live and
   counts against `max_workers`.

5. `akctl_lost`: every akctl command reads `registry.json`, works in tmux for seconds
   to minutes and writes its whole copy back without a lock. Overlapping commands
   drop each other's records, although the monitors are told that history is
   preserved. The worker runs on unrecorded and is not counted against the limits.
6. `read_only`: the help of `observe-worker --read-only` (`local-monitor.py:760`) says
   that the actuator will refuse nudges. An observation that fails is written without
   `--read-only` and `--managed-by`, what is missing is taken for its default, and
   `actuate-worker --mode active` types into the pane. `ReachedIsGated` says what holds.
7. `dry_run`: `start-worker.sh --dry-run` looks for no window and writes prompt and
   `status.json` before it stops, so the status of a worker that runs comes to name
   another arm than the one it has read.

Seen while modelling and stated by no run: `otel-plugin.py:95` joins a command that
ends in `&` to the next with ` && `, a syntax error for the shell, so the remote
receiver does not start; `otel-plugin.py:211` removes the local copy before it looks
at `--dry-run`; `gpu-run.sh:37` leaves the clocks pinned when the command fails;
`init_workspace.py:184` skips a workspace that an earlier run left half made.
`generic_control.py:1159` takes an ssh failure for an absent window.

### Fairness

`LiveSpec` assumes weak fairness of the scheduler's patrol and of each step of a
claim, of the observer, of each thread inside `retire` and `actuate`, and of the
reconciliation: the threads are loops that run for ever, and every ssh, tmux and
SQLite call in them ends (timeouts, `check=False`, busy timeout). No fairness is
assumed of requests, faults or crashes. A worker that runs eventually reports
success or failure or exits: that is the assumption about the agents, and a task
whose worker never ends rightly keeps its GPU.

## 4. Proofs

Eight modules hold theorems, and each holds for every value of the constants that its
hypotheses allow. Where a theorem states a property of a run, the run is the small
instance of it.

### The tables (`StoreProofs`)

| Theorem | Statement |
|---|---|
| `TypeCorrect` | `StoreSpec => []StoreTypeOK`: the columns are well formed and `queue` lists the QUEUED rows, each once |
| `CapacityRespected` | `StoreSpec => []WithinCapacity` |
| `NoSecondWorker` | `StoreSpec => []OneLiveRow` |
| `OnlyLegalMoves` | `StoreSpec => LifecycleLegal` |

Assumptions: `StoreAssumptions` only (finite tasks and workers, a natural number of
slots, `None` is neither).

`StoreTypeOK` is inductive because it holds `QueueOK`: without it a claim could take a
task that is not QUEUED and none of the others would follow. Keeping it needs facts
about lists: a part of a list without duplicates, two joined, an append and a removal
have no duplicates and contain what one expects (`SubSeqDistinct`, `ConcatDistinct`,
`AppendDistinct`, `RemoveFirstDistinct`). For capacity, `ClaimedFacts` bounds the tasks
taken by `ClaimCount` and an activation trades one reservation for one row. For
`OneLiveRow`, only DISPATCHING tasks return to the queue and only QUEUED ones become
DISPATCHING, and a task with a live row is neither.

### The server (`FlotillaProofs`, `RetirementProofs`, `ObservedProofs`)

| Theorem | Hypotheses | Statement |
|---|---|---|
| `ServerTypes` | none | `Spec => []FlotillaTypeOK` |
| `ImplementsStore` | none | `Spec => StoreSpec`: the refinement, with every fault and restart |
| `ServerKeepsStore` | none | so capacity, one live row and legal moves hold of the server |
| `ActiveTaskHasWorker` | none | `Spec => []ActiveHasWorker` |
| `OneRetirementAtATime` | none | one thread at a time is inside `retire()` for a task |
| `LiveRowHoldsLease` | none | `Spec => []LiveWorkerHoldsLease` |
| `SettledTaskHasNoRow` | `Undisturbed` | `Spec => []TerminalHasNoWorker` |
| `ActiveTaskIsObserved` | `Undisturbed`, no host unreachable at start-up | `Spec => []ActiveIsObserved` |
| `EvaluatorSeesQuietWorkspace` | `StopsWork` | `Spec => []EvaluatedWorkspaceIsQuiet` |
| `OneProcessPerGpu` | `StopsWork`, no late start | until a restart, `GpuExclusive` |

`Undisturbed`: no delete requests and no database failure inside a step. `StopsWork`:
that, and a stop that reports success has stopped the worker. The hypotheses are the
ones the code needs; for all but one TLC finds the counterexample when it is dropped:
deletes alone break the first three of the conditional properties (run `delete`), a
database failure at activation breaks `TerminalHasNoWorker` (`stale_observer`) and
`EvaluatedWorkspaceIsQuiet`, an unreachable host with one crash breaks
`ActiveIsObserved`, a remote stop that fails breaks `EvaluatedWorkspaceIsQuiet` and
`GpuExclusive`, a start that fails after its window is open breaks `GpuExclusive`, and
so does a restart (`gpu_restart`). That `ActiveTaskIsObserved` and `OneProcessPerGpu`
take all of `Undisturbed` is a convenience of the proof: no counterexample was found
without the database part.

The argument is one chain of inductive invariants, each on top of the one before:

- `TypeInv`: the types, and what ties the argument records of threads and claims to
  the tables: a worker id is tied to the task it was made for (`HomesAgree`), there
  are ids left for every claim under way. With it every step is a step of `StoreNext`.
- `RowsInv` adds the tables' invariants. `ActiveHasWorker` is inductive beside it: the
  point is that a row is ended only after, or together with, the state of its task.
- `OneRetirement`: the mark in `_RETIRING` is there exactly while a thread is between
  `enter` and `leave`.
- `LeaseInv`: a lease is held for every worker that a claim, a thread or a row holds,
  so that the three releases by uuid alone never free another worker's lease.
- `ObservedInv`: a live row has its task active, being claimed, or being retired by the
  one thread that is in; and a handle of an active task is that of its row. The
  scheduler registers the handle before it activates, so an observer can be ahead of
  the row: the invariant says which of them can be.
- `WorkspaceInv`: a process that runs in a workspace is that of a live row, of a claim,
  or is about to be stopped by the thread that will evaluate; after the stop it is
  gone.

### akctl (`PlacementProofs`, `AkctlProofs`, `PatrolProofs`)

| Theorem | Statement |
|---|---|
| `PlacesStayApart`, `CapacityKept`, `GpuLimitKept`, `OverForGood` | of `Placement`, the abstract scheduler: no slot has two workers, never more than `MaxActive` workers, never more than `MaxPerGpu` on a GPU, a task whose worker has ended is not placed again |
| `AkctlTypes` | `Spec => []AkctlTypeOK` |
| `WorkerLaunchedOnce` | `Spec => []LaunchedOnce`, whatever commands overlap, fail or are killed |
| `HistoryIsKept` | `Spec => HistoryKept`: one command at a time, no record is dropped (overlapping commands drop records: `akctl_lost`) |
| `LimitsKept` | `Spec => []WithinLimits`: one command at a time, the limits of host and GPU; nothing is said of commands that overlap |
| `PatrolImplementsPlacement` | `Spec => PlacementRefined`: the refinement |
| `PatrolKeepsPlaces` | so what `PlacementProofs` shows holds of akctl's places |

Assumptions: `AkctlAssumptions` (finite tasks and GPUs, limits that are natural
numbers), `CommandAssumptions` (at most one process starts tasks: with two, the test
of `exists()` in `create_workspace` is not atomic) and `NoneIsNothing`. A limit of 0
is no limit, as in the code.

`GpuLimitKept` follows from `PlacesStayApart`: the slots of the workers on one GPU are
an injection into `0 .. MaxPerGpu - 1`. `LaunchInv` behind `WorkerLaunchedOnce`: a task
that was launched has a workspace, and a command about to launch holds the one it has
made. One command at a time (`SeqInv`), the copy a command holds is what
`registry.json` was when it began plus its own changes; `LimitInv` relates what the
scheduler counts (`Active` of its working copy, the starts that failed included) to
the workers there are, and `HeldPlace` maps a record to the place its worker holds
until it is seen to have ended.

### The tools (`ToolsProofs`)

All are theorems of the specification of `Tools`: `OneBegins` and `OneActs` show that a
behaviour of a kind begins and goes on as its component does.

| Theorem | Hypotheses | Statement |
|---|---|---|
| `NudgesAreGated` | none | `ReachedIsGated` |
| `SyncIsWhole` | none | `SyncedIsWhole` |
| `ArmIsRecorded` | none | `LaunchedArmRecorded`: where nobody gives `--dry-run` |
| `MeasuresPinned` | none | `MeasuredPinned` |
| `NoAlarmIsFalse`, `BypassIsReported` | there is a worker | `NoFalseAlarm`, `BypassReported` |
| `OnlyConfiguredPaneTyped`, `OneLoopStays`, `CooldownIsKept` | `MonitorConstants` | `OnlyConfiguredPane`, `OneLoop`, `KeepsCooldown` |
| `RowsHaveTheirBodies` | none | `IndexedIsStored` |
| `DeletedIsForGood`, `NoGhostStays`, `PageCatchesUp` | `FeedConstants` | `DeletedStaysDeleted`, `NoGhost`, `CaughtUp` |
| `FirstStartedHasRow` | `RowsConstants` | `FirstStartedWins` |
| `RecordedHasPrompt`, `SlotsStayApart` | `DeployConstants` | `RecordedIsPrompted`, `SlotsKept` |
| `NoTaskHasTwoRows`, `InitLeavesRows`, `RecordsAreKept` | `FeishuConstants` | `OneRowPerTask`, `InitCompletes`, `RowsKept` |

`MonitorConstants` says that policies are policies, the cooldown is an integer and
`None` is no value; `FeedConstants` that the tasks are finite and `None` is no queue;
`RowsConstants` that the bound on a task's entries is a natural number and `None` is
none; `DeployConstants` that the lists of tasks and of GPUs name each once and that
there is a GPU to choose; `FeishuConstants` that the tasks are finite, none of them is
the mark of a blank or deleted record, the table is written by a server or by commands,
and a call of the sink ends before the next one is due (in the code 20 s and 60 s: with
a longer call two of them could make a row each).
The invariants, each with the fact that carries it: `NudgeInv` (an observation that
reached its worker tells its control and the mode), `HubInv` (what a sync has copied
and moved is whole at each of its steps), `StartInv` (prompt, window and status tell
one arm unless a dry run came between), `LockInv` (one process holds each lock file; the
clocks are those its command has pinned, or a holder of the other file reset them), `ObservationInv` (who had the file open
was wrapped or has ended; a bare command that was there is there still or has ended),
`MonitorsInv` (a monitor about to paste has seen the configured pane; with one loop in good order,
what it goes by is no earlier than the last nudge), `CaptureInv` (numbers of threads
and rows apart; a body is written before its row), `FeedInv` (a task that the page
takes for there is there, or its tombstone is under way), `SentInv` and `TruthInv` (with
ordered streams and no event missed, the last event of a task that is on its way to the
page has its row, wherever it is: queue, replay or page; a tombstone is of a task that
is gone), `RowsInv` (after `n` entries
the merge is what the reference says of the first `n`), `SlotsInv` (a session that is
not in the registry yet is that of the first task and the first place of the plan of
the run that began it, so the next run makes the same choice again), `SinkInv` (a task
has one call at a time, with the record id that is kept; every row of a task that lost
no answer has its id in the cache or in a call that is about to answer), `CommandInv`
(what an init-feishu has yet to write is of tasks without a row, each once, into records
that are blank; each task of its snapshot has a row or is among them).

`LegacyRows`, `V2Deploy` and `FeishuMirror` use functions defined by recursion on the
length of a list. `CountUp` says that a set of numbers that has 0 and is closed under
successor has all of them; with the set of lengths for which a statement holds it is
induction without an operator parameter. `MergedUnfolds` and `OnlyUnfolds` use it to
show that the recursive functions exist and obey their equations.

### What the proofs found

Two CASE expressions of the models (`AfterRetire` of `Actuator`, the stop of `Akctl`)
had guards that overlap: TLC takes the first, TLA+ leaves the choice open, and the
proof could not be made. They are IF/ELSE now, in the order of the code. The limits of
`Akctl` were stated for positive values only. `WithinLimits` is now stated for 0 too.

### Only model-checked

- Liveness (`live`): out of TLAPS's reach, as is everything with ENABLED.
- The properties that are violated (`LeaseHasOwner`, `NeverErasesLiveWorker`,
  `HistoryPreserved`, `LiveGpuExclusive`, `RefusesReadOnly`, `NeverRelabelled`) have no
  theorem, of course.

## 5. Not modelled, and the plan

Not modelled:

- `models.py`, `config.py`, `workspace.py`: record types, environment and paths.
- Events with their retention, hosts, templates and projects of `store.py` and
  `routes.py`: tables that no step of the lifecycle reads to decide, except that a
  task may name a host which is gone (`Unfit`).
- The tail of the session log, the reading of metrics, and every text that is
  generated: prompts, wrappers, dashboards, reports. Parsing, with no state of its own.
- Two server processes on one database, two deployers at once: the code has no
  means against them and does not claim any.
- `start-orchestrator.sh` and the one-shot generators and checks of workspaces.

Next, in this order:

1. The events of a task and their retention, with the order of timestamps as text.
2. The hazards that no property covers yet (`PROJECT.json`, those with a note).

## 6. Running

```
tlc -workers 2 -config MCDispatch.cfg MCFlotilla
tlc -workers 2 -config MCTools.cfg MCTools
tlapm StoreProofs.tla
tlapm ToolsProofs.tla
```
