-------------------------------- MODULE Akctl --------------------------------
(***************************************************************************)
(* The commands of akctl.  Each is a process of its own that reads         *)
(* registry.json, works in tmux and in the workspaces, and writes its copy *)
(* back: nothing locks the file in between.  The orchestrator's loop runs  *)
(* patrol, the monitor of each worker runs cleanup-panes and stop-task,    *)
(* the operator runs any of them.                                          *)
(*                                                                         *)
(* A read followed at once by the write of the same copy is one step; so   *)
(* is the creation of a workspace: it tests exists() and then makes the    *)
(* directories with exist_ok, which only tells starts apart that do not    *)
(* meet there, so the model has one process that starts tasks.             *)
(***************************************************************************)
EXTENDS AkctlRegistry

CONSTANTS
  Procs,        \* the places a command can run in
  Launchers,    \* the one of them that starts tasks
  Named,        \* the tasks a command line names
  Modes,        \* "patrols" and "batches": one command at a time;
                \* "overlapping": commands overlap, are killed, and tmux fails
  Queues,       \* the queue file of each mode: its rows
  MaxCommands   \* how many commands are run in each mode

ASSUME CommandAssumptions ==
  /\ Launchers \subseteq Procs /\ \A p, q \in Launchers : p = q
  /\ Named \subseteq Tasks
  /\ MaxCommands \in [Modes -> Nat] /\ Queues \in [Modes -> Rows]

VARIABLES mode, cmd, commands

vars == <<akctlVars, mode, cmd, commands>>

\* copy: the registry a command has read; working: patrol's own, which counts
\* the starts that failed; left: the rows or tasks a command still has to take.
Idle == [op |-> None, pc |-> "idle", copy |-> None, working |-> None,
         task |-> None, place |-> None, left |-> {}, count |-> 0]

Overlapping == mode = "overlapping"
Starting == {"patrol", "batch", "start"}

Init ==
  /\ AkctlInit
  /\ mode \in Modes
  /\ cmd = [p \in Procs |-> Idle]
  /\ commands = 0

-----------------------------------------------------------------------------
(* Steps of a command                                                      *)

At(p, pc) == cmd[p].pc = pc
Copy(p) == cmd[p].copy
Working(p) == cmd[p].working
Ends(p) == cmd' = [cmd EXCEPT ![p] = Idle]
Goes(p, pc) == cmd' = [cmd EXCEPT ![p].pc = pc]

\* load_registry into the command's copy.
Loads(p, pc) == cmd' = [cmd EXCEPT ![p].pc = pc, ![p].copy = registry]

\* write_registry: the whole file is the command's copy.
WriteRegistry(copy) == registry' = copy

Begin(p, c) ==
  /\ cmd[p] = Idle /\ commands < MaxCommands[mode]
  /\ Overlapping \/ \A q \in Procs : cmd[q] = Idle
  /\ c.op \in Starting => p \in Launchers
  /\ commands' = commands + 1
  /\ cmd' = [cmd EXCEPT ![p] = c]
  /\ UNCHANGED <<akctlVars, mode>>

-----------------------------------------------------------------------------
(* patrol                                                                  *)

Queue == Queues[mode]
Pending(p) == PendingRows(Queue, Working(p))
NextPending(p) == Queue[CHOOSE i \in Pending(p) : \A j \in Pending(p) : i <= j].task

PatrolBegin(p) ==
  /\ mode \in {"patrols", "overlapping"}
  /\ Begin(p, [Idle EXCEPT !.op = "patrol", !.pc = "load"])

\* The first load and the reload after a start.
PatrolLoad(p) ==
  /\ At(p, "load")
  /\ cmd' = [cmd EXCEPT ![p].pc = "plan", ![p].working = registry.tasks]
  /\ UNCHANGED <<akctlVars, mode, commands>>

\* Nothing more to start: the limit of the tick, the capacity, the queue.
PatrolEnd(p) ==
  /\ At(p, "plan")
  /\ \/ cmd[p].count >= MaxStarts
     \/ AtCapacity(Working(p))
     \/ Pending(p) = {}
     \/ Candidates(Working(p)) = {}
  /\ Ends(p)
  /\ UNCHANGED <<akctlVars, mode, commands>>

\* Mutant: the capacity is asked of the registry once, before the first start.
PatrolPlan_capacityOnce(p) ==
  /\ At(p, "plan") /\ cmd[p].count < MaxStarts
  /\ cmd[p].count = 0 => ~AtCapacity(Working(p))
  /\ Pending(p) # {} /\ Candidates(Working(p)) # {}
  /\ cmd' = [cmd EXCEPT ![p].pc = "check", ![p].task = NextPending(p),
                        ![p].place = ChosenPlace(Working(p))]
  /\ UNCHANGED <<akctlVars, mode, commands>>

PatrolPlan(p) ==
  /\ At(p, "plan") /\ cmd[p].count < MaxStarts
  /\ ~AtCapacity(Working(p))
  /\ Pending(p) # {} /\ Candidates(Working(p)) # {}
  /\ cmd' = [cmd EXCEPT ![p].pc = "check", ![p].task = NextPending(p),
                        ![p].place = ChosenPlace(Working(p))]
  /\ UNCHANGED <<akctlVars, mode, commands>>

-----------------------------------------------------------------------------
(* start-batch                                                             *)

\* Without --no-orchestrator the orchestrator is started first.
BatchBegin(p) ==
  /\ mode \in {"batches", "overlapping"}
  /\ \E pc \in {"orchestrator", "row"} :
       Begin(p, [Idle EXCEPT !.op = "batch", !.pc = pc, !.left = DOMAIN Queue])

NextRow(p) == CHOOSE i \in cmd[p].left : \A j \in cmd[p].left : i <= j

\* The next row is skipped, or started at the place the file gives it.
BatchRow(p) ==
  /\ At(p, "row") /\ cmd[p].left # {}
  /\ LET row == Queue[NextRow(p)]
         skipped == \/ Duplicate(registry.tasks, row.task)
                    \/ CapacityReason(registry.tasks, row.gpu)
     IN  cmd' = [cmd EXCEPT ![p].left = @ \ {NextRow(p)},
                            ![p].pc = IF skipped THEN "row" ELSE "check",
                            ![p].task = IF skipped THEN None ELSE row.task,
                            ![p].place = IF skipped THEN None
                                         ELSE [gpu |-> row.gpu, slot |-> row.slot]]
  /\ UNCHANGED <<akctlVars, mode, commands>>

BatchEnd(p) ==
  /\ At(p, "row") /\ cmd[p].left = {}
  /\ Ends(p)
  /\ UNCHANGED <<akctlVars, mode, commands>>

-----------------------------------------------------------------------------
(* start_task: for patrol, start-batch, start-task and smoke               *)

\* The operator names the GPU and the slot; slot 0 stands for any.
StartTaskBegin(p) ==
  \E t \in Named, g \in Gpus, op \in {"start", "smoke"} :
    /\ Overlapping
    /\ Begin(p, [Idle EXCEPT !.op = op, !.task = t, !.place = [gpu |-> g, slot |-> 0],
                  !.pc = IF op = "smoke" THEN "orchestrator" ELSE "check"])

Smoke(p) == cmd[p].op = "smoke"

\* start_task returns to its caller.
Returns(p, pc, working) ==
  cmd' = [cmd EXCEPT ![p] = [@ EXCEPT !.pc = pc, !.working = working, !.copy = None,
                                      !.task = None, !.place = None]]

\* An exception.  patrol --keep-going counts the task as if it were active until
\* it loads the registry again; start-batch --keep-going takes the next row.
StartFails(p) ==
  \/ Ends(p)
  \/ /\ cmd[p].op = "patrol"
     /\ Returns(p, "plan",
               [Working(p) EXCEPT ![cmd[p].task] = NewRecord(cmd[p].place, FALSE)])
  \/ /\ cmd[p].op = "batch"
     /\ Returns(p, "row", None)

\* start_task takes its own copy of the registry.
StartCheck(p) ==
  LET t == cmd[p].task
      refused == t \in Legacy \/ (registry.tasks[t] # None /\ ~Smoke(p))
  IN  /\ At(p, "check")
      /\ IF refused THEN StartFails(p) ELSE Loads(p, "space")
      /\ UNCHANGED <<akctlVars, mode, commands>>

\* Mutant: an existing workspace is written over.
StartSpace_overwrite(p) ==
  /\ At(p, "space")
  /\ IF Smoke(p)
     THEN smokeSpace' = [smokeSpace EXCEPT ![cmd[p].task] = "active"] /\ UNCHANGED space
     ELSE space' = [space EXCEPT ![cmd[p].task] = "active"] /\ UNCHANGED smokeSpace
  /\ Goes(p, "worker")
  /\ UNCHANGED <<registry, worker, launches, mode, commands>>

\* create_workspace: a smoke run replaces the workspace of the one before it.  A
\* copy or a link that fails leaves the workspace behind, which blocks the task.
StartSpace(p) ==
  LET t == cmd[p].task
  IN  /\ At(p, "space")
      /\ \/ /\ Smoke(p)
            /\ smokeSpace' = [smokeSpace EXCEPT ![t] = "active"]
            /\ Goes(p, "worker")
            /\ UNCHANGED space
         \/ /\ ~Smoke(p) /\ space[t] = None
            /\ space' = [space EXCEPT ![t] = "active"]
            /\ Goes(p, "worker")
            /\ UNCHANGED smokeSpace
         \/ /\ ~Smoke(p) /\ space[t] # None
            /\ StartFails(p)
            /\ UNCHANGED <<space, smokeSpace>>
         \/ /\ Overlapping /\ ~Smoke(p) /\ space[t] = None
            /\ space' = [space EXCEPT ![t] = "active"]
            /\ StartFails(p)
            /\ UNCHANGED smokeSpace
      /\ UNCHANGED <<registry, worker, launches, mode, commands>>

\* start_window: a window of that name is taken as it is.
WorkerStarted(t, kind) ==
  IF worker[t] # None
  THEN UNCHANGED <<worker, launches>>
  ELSE /\ worker' = [worker EXCEPT ![t] = kind]
       /\ launches' = [launches EXCEPT ![t] = IF kind = "real" THEN @ + 1 ELSE @]

\* tmux may fail before the window is there, or when its panes are listed.
StartWorker(p) ==
  /\ At(p, "worker")
  /\ \/ /\ WorkerStarted(cmd[p].task, IF Smoke(p) THEN "smoke" ELSE "real")
        /\ Goes(p, "record")
     \/ /\ Overlapping
        /\ \/ UNCHANGED <<worker, launches>>
           \/ WorkerStarted(cmd[p].task, IF Smoke(p) THEN "smoke" ELSE "real")
        /\ StartFails(p)
  /\ UNCHANGED <<registry, space, smokeSpace, mode, commands>>

StartRecord(p) ==
  /\ At(p, "record")
  /\ WriteRegistry([Copy(p) EXCEPT
       !.tasks[cmd[p].task] = NewRecord(cmd[p].place, Smoke(p))])
  /\ Goes(p, "monitor")
  /\ UNCHANGED <<space, smokeSpace, worker, launches, mode, commands>>

StartMonitor(p) ==
  /\ At(p, "monitor")
  /\ Goes(p, "loop") \/ (Overlapping /\ StartFails(p))
  /\ UNCHANGED <<akctlVars, mode, commands>>

\* The loop is submitted and the registry read again: a record another command
\* has overwritten in the meantime is a KeyError.
StartLoop(p) ==
  LET t == cmd[p].task
  IN  /\ At(p, "loop")
      /\ \/ /\ registry.tasks[t] = None
            /\ StartFails(p)
            /\ UNCHANGED registry
         \/ /\ registry.tasks[t] # None
            /\ WriteRegistry([registry EXCEPT !.tasks[t].loop = TRUE])
            /\ CASE cmd[p].op = "patrol" ->
                      cmd' = [cmd EXCEPT ![p] = [Idle EXCEPT
                                !.op = "patrol", !.pc = "load", !.count = cmd[p].count + 1]]
                 [] cmd[p].op = "batch" -> Returns(p, "row", None)
                 [] OTHER -> Ends(p)
      /\ UNCHANGED <<space, smokeSpace, worker, launches, mode, commands>>

-----------------------------------------------------------------------------
(* start-orchestrator and loop; start-batch and smoke begin with them      *)

OrchestratorBegin(p) ==
  \E op \in {"orchestrator", "orchestratorLoop"} :
    Overlapping /\ Begin(p, [Idle EXCEPT !.op = op, !.pc = "orchestrator"])

OrchestratorLoad(p) ==
  /\ At(p, "orchestrator")
  /\ Loads(p, "orchestratorWindow")
  /\ UNCHANGED <<akctlVars, mode, commands>>

\* start_window, then the record is written over the one of the copy.
OrchestratorStart(p) ==
  /\ At(p, "orchestratorWindow")
  /\ WriteRegistry([Copy(p) EXCEPT !.orchestrator = [smoke |-> Smoke(p), loop |-> FALSE]])
  /\ CASE cmd[p].op = "batch" -> Goes(p, "row")
       [] cmd[p].op = "smoke" -> Goes(p, "check")
       [] cmd[p].op = "orchestratorLoop" -> Goes(p, "orchestratorLoop")
       [] OTHER -> Ends(p)
  /\ UNCHANGED <<space, smokeSpace, worker, launches, mode, commands>>

\* The /loop is submitted; its record is put into the registry as it is then.
OrchestratorLoop(p) ==
  /\ At(p, "orchestratorLoop")
  /\ WriteRegistry([registry EXCEPT !.orchestrator =
       IF @ = None THEN [smoke |-> FALSE, loop |-> TRUE] ELSE [@ EXCEPT !.loop = TRUE]])
  /\ Ends(p)
  /\ UNCHANGED <<space, smokeSpace, worker, launches, mode, commands>>

-----------------------------------------------------------------------------
(* start-monitor-loop                                                      *)

MonitorLoopBegin(p) ==
  \E t \in Named :
    Overlapping /\ Begin(p, [Idle EXCEPT !.op = "monitorLoop", !.pc = "monitorLoop", !.task = t])

\* Without --force or --retime a monitor that has a loop is left alone.
MonitorLoopLoad(p) ==
  LET record == registry.tasks[cmd[p].task]
  IN  /\ At(p, "monitorLoop")
      /\ IF record = None THEN Ends(p)
         ELSE IF record.smoke THEN Ends(p)
         ELSE Loads(p, "monitorLoopWrite") \/ (record.loop /\ Ends(p))
      /\ UNCHANGED <<akctlVars, mode, commands>>

MonitorLoopWrite(p) ==
  /\ At(p, "monitorLoopWrite")
  /\ WriteRegistry([Copy(p) EXCEPT !.tasks[cmd[p].task].loop = TRUE])
  /\ Ends(p)
  /\ UNCHANGED <<space, smokeSpace, worker, launches, mode, commands>>

-----------------------------------------------------------------------------
(* cleanup-panes, stop-task, stop-all and stop-orchestrator                *)

\* cleanup-panes may be given one task; stop-task is given one.
StopBegin(p) ==
  \E op \in {"cleanup", "stop", "stopAll", "stopOrchestrator"}, t \in Named \cup {None} :
    /\ op \in {"stopAll", "stopOrchestrator"} => t = None
    /\ op = "stop" => t # None
    /\ Begin(p, [Idle EXCEPT !.op = op, !.pc = "stopping", !.task = t])

StopLoad(p) ==
  LET recorded == {t \in Tasks : registry.tasks[t] # None}
      tasks == IF cmd[p].op = "stopOrchestrator" THEN {}
               ELSE IF cmd[p].task = None THEN recorded ELSE {cmd[p].task} \cap recorded
  IN  /\ At(p, "stopping")
      /\ IF cmd[p].op = "stop" /\ tasks = {} THEN Ends(p)
         ELSE cmd' = [cmd EXCEPT ![p] = [@ EXCEPT !.pc = "mark", !.copy = registry,
                                                  !.task = None, !.left = tasks]]
      /\ UNCHANGED <<akctlVars, mode, commands>>

\* cleanup_task_record up to the kills: cleanup-panes skips what is not terminal
\* by its status file, the others write "cancelled" there.
StopMark(p) ==
  /\ At(p, "mark")
  /\ \E t \in cmd[p].left :
       LET ended == TaskStatus(Copy(p).tasks, t) \in TerminalStates
           marks == ~ended /\ cmd[p].op # "cleanup"
           smoke == Copy(p).tasks[t].smoke
       IN  /\ space' = IF marks /\ ~smoke THEN [space EXCEPT ![t] = "cancelled"] ELSE space
           /\ smokeSpace' = IF marks /\ smoke THEN [smokeSpace EXCEPT ![t] = "cancelled"]
                            ELSE smokeSpace
           /\ cmd' = [cmd EXCEPT ![p].left = @ \ {t},
                        ![p].task = IF ended \/ marks THEN t ELSE None,
                        ![p].pc = IF ended \/ marks THEN "kill" ELSE "mark"]
  /\ UNCHANGED <<registry, worker, launches, mode, commands>>

\* kill_tmux_target, by name; a kill that fails is only noted in the record.
StopKill(p) ==
  LET t == cmd[p].task
  IN  /\ At(p, "kill")
      /\ \/ worker' = [worker EXCEPT ![t] = None]
         \/ Overlapping /\ UNCHANGED worker
      /\ cmd' = [cmd EXCEPT ![p].pc = "mark", ![p].task = None]
      /\ UNCHANGED <<registry, space, smokeSpace, launches, mode, commands>>

\* stop_orchestrator_record of stop-orchestrator and stop-all, before the write.
StopOrchestrator(p) ==
  /\ At(p, "mark") /\ cmd[p].left = {}
  /\ cmd[p].op \in {"stopAll", "stopOrchestrator"}
  /\ cmd' = [cmd EXCEPT ![p].pc = "stopWrite", ![p].copy.orchestrator =
               IF @ = None THEN [smoke |-> FALSE, loop |-> FALSE] ELSE [@ EXCEPT !.loop = FALSE]]
  /\ UNCHANGED <<registry, space, smokeSpace, worker, launches, mode, commands>>

\* Mutant: the records that were cleaned are dropped.
StopWrite_drops(p) ==
  /\ \/ At(p, "stopWrite")
     \/ At(p, "mark") /\ cmd[p].left = {} /\ cmd[p].op \in {"cleanup", "stop"}
  /\ WriteRegistry([Copy(p) EXCEPT !.tasks =
       [t \in Tasks |-> IF worker[t] = None THEN None ELSE @[t]]])
  /\ Ends(p)
  /\ UNCHANGED <<space, smokeSpace, worker, launches, mode, commands>>

StopWrite(p) ==
  /\ \/ At(p, "stopWrite")
     \/ At(p, "mark") /\ cmd[p].left = {} /\ cmd[p].op \in {"cleanup", "stop"}
  /\ WriteRegistry(Copy(p))
  /\ Ends(p)
  /\ UNCHANGED <<space, smokeSpace, worker, launches, mode, commands>>

-----------------------------------------------------------------------------
(* smoke-clean                                                             *)

SmokeCleanBegin(p) ==
  \E t \in Named :
    Overlapping /\ Begin(p, [Idle EXCEPT !.op = "smokeClean", !.pc = "smokeClean", !.task = t])

\* The windows of the task's name go first, whatever runs in them.
SmokeCleanKill(p) ==
  LET t == cmd[p].task
  IN  /\ At(p, "smokeClean")
      /\ worker' = [worker EXCEPT ![t] = None]
      /\ smokeSpace' = [smokeSpace EXCEPT ![t] = None]
      /\ Loads(p, "smokeCleanWrite")
      /\ UNCHANGED <<registry, space, launches, mode, commands>>

SmokeCleanWrite(p) ==
  LET t == cmd[p].task
      record == Copy(p).tasks[t]
      smokeTask == record # None /\ record.smoke
      smokeOrchestrator == Copy(p).orchestrator # None /\ Copy(p).orchestrator.smoke
  IN  /\ At(p, "smokeCleanWrite")
      /\ \E windowThere \in BOOLEAN :
           IF smokeTask \/ smokeOrchestrator
           THEN WriteRegistry(
                  [tasks |-> IF smokeTask THEN [Copy(p).tasks EXCEPT ![t] = None] ELSE Copy(p).tasks,
                   orchestrator |-> IF smokeOrchestrator /\ windowThere THEN None
                                    ELSE Copy(p).orchestrator])
           ELSE UNCHANGED registry
      /\ Ends(p)
      /\ UNCHANGED <<space, smokeSpace, worker, launches, mode, commands>>

-----------------------------------------------------------------------------
(* The workers and their windows; a command that is killed                 *)

\* A worker writes its status.json.  It does not take back an end it reported;
\* it does not look for a "cancelled" of stop-task.
WorkerReports(t) ==
  \E state \in {"active", "done"} :
    /\ \/ /\ worker[t] = "real" /\ space[t] \notin {None, "done"}
          /\ space' = [space EXCEPT ![t] = state]
          /\ UNCHANGED smokeSpace
       \/ /\ worker[t] = "smoke" /\ smokeSpace[t] \notin {None, "done"} /\ state = "done"
          /\ smokeSpace' = [smokeSpace EXCEPT ![t] = state]
          /\ UNCHANGED space
    /\ UNCHANGED <<registry, worker, launches, mode, cmd, commands>>

WindowVanishes(t) ==
  /\ worker[t] # None
  /\ worker' = [worker EXCEPT ![t] = None]
  /\ UNCHANGED <<registry, space, smokeSpace, launches, mode, cmd, commands>>

\* The command is interrupted, or runs into the time limit of the tool that
\* runs it.
Killed(p) ==
  /\ Overlapping /\ cmd[p] # Idle
  /\ Ends(p)
  /\ UNCHANGED <<akctlVars, mode, commands>>

Next ==
  \/ \E p \in Procs :
       \/ PatrolBegin(p) \/ PatrolLoad(p) \/ PatrolEnd(p) \/ PatrolPlan(p)
       \/ BatchBegin(p) \/ BatchRow(p) \/ BatchEnd(p)
       \/ StartTaskBegin(p) \/ StartCheck(p) \/ StartSpace(p) \/ StartWorker(p)
       \/ StartRecord(p) \/ StartMonitor(p) \/ StartLoop(p)
       \/ OrchestratorBegin(p) \/ OrchestratorLoad(p) \/ OrchestratorStart(p)
       \/ OrchestratorLoop(p)
       \/ MonitorLoopBegin(p) \/ MonitorLoopLoad(p) \/ MonitorLoopWrite(p)
       \/ StopBegin(p) \/ StopLoad(p) \/ StopMark(p) \/ StopKill(p)
       \/ StopOrchestrator(p) \/ StopWrite(p)
       \/ SmokeCleanBegin(p) \/ SmokeCleanKill(p) \/ SmokeCleanWrite(p)
       \/ Killed(p)
  \/ \E t \in Tasks : WorkerReports(t) \/ WindowVanishes(t)

Spec == Init /\ [][Next]_vars

-----------------------------------------------------------------------------
(* Properties                                                              *)

\* The worker of a task is launched at most once, whatever commands overlap with
\* those that start tasks, are killed or fail, and whichever records they lose:
\* new_task_block_reason and create_workspace take the workspace as the evidence.
LaunchedOnce == \A t \in Tasks : launches[t] <= 1

\* One command at a time, patrols and batches keep to --max-active and
\* --max-per-gpu, with the status files changing while they work.  A limit of 0
\* is no limit.
WithinLimits ==
  ~Overlapping =>
    /\ MaxActive > 0 => Cardinality(Active(registry.tasks)) <= MaxActive
    /\ MaxPerGpu > 0 => \A g \in Gpus : OnGpu(registry.tasks, g) <= MaxPerGpu

KeepsRecords ==
  \A t \in Tasks :
    registry.tasks[t] # None /\ ~registry.tasks[t].smoke => registry'.tasks[t] # None

\* One command at a time, no command drops the record of a worker: cleanup_panes,
\* stop-task and stop-all keep it as history.
HistoryKept == [][~Overlapping => KeepsRecords]_vars

\* The same of commands that overlap, as the worker's monitor is told: "removed
\* from tmux while registry history is preserved" (monitor_loop_prompt).
HistoryPreserved == [][KeepsRecords]_vars

\* The place of a worker in the patrols' runs: from its record to its end.  One
\* that stop-task has marked holds its place until its window is closed.
HeldPlace ==
  [t \in Tasks |->
    IF /\ mode = "patrols" /\ registry.tasks[t] # None
       /\ \/ space[t] \notin TerminalStates
          \/ space[t] = "cancelled" /\ worker[t] # None
    THEN [gpu |-> registry.tasks[t].gpu, slot |-> registry.tasks[t].slot]
    ELSE None]

P == INSTANCE Placement WITH
       place <- HeldPlace,
       over <- {t \in Tasks : mode = "patrols" /\ registry.tasks[t] # None /\ HeldPlace[t] = None}

\* One command at a time, patrol, cleanup-panes and stop-task implement Placement:
\* choose_available_slot never gives a place that is held, a patrol never
\* exceeds the limits, and no task is placed a second time.
PlacementRefined == P!Spec
==============================================================================
