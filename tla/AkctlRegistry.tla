---------------------------- MODULE AkctlRegistry ----------------------------
(***************************************************************************)
(* What the commands of akctl (scripts/install-autokaggle-control.py       *)
(* writes it) share: the file registry.json, the workspaces with their     *)
(* status.json, the workers' windows of tmux; and what a command reads     *)
(* from a copy of the registry: who is active, what is pending, which      *)
(* place is free.  Nothing reads the windows of the monitors and of the    *)
(* orchestrator to decide, so they are left out.                           *)
(***************************************************************************)
EXTENDS Integers, Sequences, FiniteSets

CONSTANTS
  Tasks,        \* the tasks of tasks.yaml
  Legacy,       \* those with a workspace of the first AutoKaggle
  Gpus,         \* the indexes nvidia-smi lists
  MaxActive, MaxPerGpu, MaxStarts,
  None

ASSUME AkctlAssumptions ==
  /\ IsFiniteSet(Tasks) /\ Legacy \subseteq Tasks /\ None \notin Tasks
  /\ Gpus \subseteq Nat /\ IsFiniteSet(Gpus)
  /\ MaxActive \in Nat /\ MaxPerGpu \in Nat /\ MaxStarts \in Nat

VARIABLES
  registry,     \* registry.json: the records of the tasks and of the orchestrator
  space,        \* the state in a workspace's status.json; None: no workspace
  smokeSpace,   \* the same for the workspaces of smoke runs
  worker,       \* the window worker-T: None, or what was started in it
  launches      \* how often a worker of a real task was launched (history)

akctlVars == <<registry, space, smokeSpace, worker, launches>>

\* TERMINAL_STATES: "done" stands for the ends a worker reports itself, "active"
\* for every state that is not terminal.
TerminalStates == {"done", "cancelled"}
Statuses == {"active"} \cup TerminalStates
Record == [smoke : BOOLEAN, gpu : Gpus, slot : Nat, loop : BOOLEAN]
OrchestratorRecord == [smoke : BOOLEAN, loop : BOOLEAN]
Place == [gpu : Gpus, slot : Nat]

\* What is not there is told from what is.
ASSUME NoneIsNothing ==
  None \notin Record \cup OrchestratorRecord \cup Place \cup Statuses \cup {"real", "smoke"}

AkctlInit ==
  /\ registry = [tasks |-> [t \in Tasks |-> None], orchestrator |-> None]
  /\ space = [t \in Tasks |-> None]
  /\ smokeSpace = [t \in Tasks |-> None]
  /\ worker = [t \in Tasks |-> None]
  /\ launches = [t \in Tasks |-> 0]

-----------------------------------------------------------------------------
(* Reading a copy `tasks` of the records, with the status files as they are *)

\* task_status: without a status.json the status is "unknown", or "cancelled"
\* of a record stop-task marked, whose workspace a smoke-clean has removed:
\* neither is told apart from no status here, for such a record is a smoke one.
TaskStatus(tasks, t) == IF tasks[t].smoke THEN smokeSpace[t] ELSE space[t]

Active(tasks) ==
  {t \in Tasks : /\ tasks[t] # None /\ ~tasks[t].smoke
                 /\ TaskStatus(tasks, t) \notin TerminalStates}

OnGpu(tasks, g) == Cardinality({t \in Active(tasks) : tasks[t].gpu = g})

OccupiedSlots(tasks) == {<<tasks[t].gpu, tasks[t].slot>> : t \in Active(tasks)}

\* A limit of 0 is no limit.
AtCapacity(tasks) == MaxActive > 0 /\ Cardinality(Active(tasks)) >= MaxActive

\* capacity_reason, which start-batch asks: the row's slot is not looked at.
CapacityReason(tasks, g) ==
  AtCapacity(tasks) \/ (MaxPerGpu > 0 /\ OnGpu(tasks, g) >= MaxPerGpu)

FreeSlots(tasks, g) ==
  {s \in 0..(MaxPerGpu - 1) : <<g, s>> \notin OccupiedSlots(tasks)}

Candidates(tasks) ==
  {g \in Gpus : OnGpu(tasks, g) < MaxPerGpu /\ FreeSlots(tasks, g) # {}}

\* Mutant: the slot after the last one taken, counted instead of looked up.
ChosenPlace_byCount(tasks) ==
  LET gpu == CHOOSE g \in Candidates(tasks) : TRUE
  IN  [gpu |-> gpu, slot |-> OnGpu(tasks, gpu)]

\* choose_available_slot: the least loaded GPU, its lowest free slot.
ChosenPlace(tasks) ==
  LET lessLoaded(g, h) == \/ OnGpu(tasks, g) < OnGpu(tasks, h)
                          \/ OnGpu(tasks, g) = OnGpu(tasks, h) /\ g <= h
      gpu == CHOOSE g \in Candidates(tasks) :
               \A h \in Candidates(tasks) : lessLoaded(g, h)
  IN  [gpu |-> gpu, slot |-> CHOOSE s \in FreeSlots(tasks, gpu) :
                               \A r \in FreeSlots(tasks, gpu) : s <= r]

\* new_task_block_reason; the problem directory is taken to be there.
Blocked(t) == t \in Legacy \/ space[t] # None

\* The rows of a queue file.
Rows == Seq([task : Tasks, gpu : Gpus, slot : Nat])

\* queue_state: the rows still to start.  A later row of a task is a duplicate.
PendingRows(rows, tasks) ==
  {i \in DOMAIN rows : /\ \A j \in 1..(i - 1) : rows[j].task # rows[i].task
                       /\ tasks[rows[i].task] = None
                       /\ ~Blocked(rows[i].task)}

\* duplicate_reason, which start-batch asks.
Duplicate(tasks, t) == Blocked(t) \/ tasks[t] # None

NewRecord(place, smoke) ==
  [smoke |-> smoke, gpu |-> place.gpu, slot |-> place.slot, loop |-> FALSE]

AkctlTypeOK ==
  /\ registry.tasks \in [Tasks -> Record \cup {None}]
  /\ registry.orchestrator \in OrchestratorRecord \cup {None}
  /\ space \in [Tasks -> Statuses \cup {None}]
  /\ smokeSpace \in [Tasks -> Statuses \cup {None}]
  /\ worker \in [Tasks -> {None, "real", "smoke"}]
  /\ launches \in [Tasks -> Nat]
==============================================================================
