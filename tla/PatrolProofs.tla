----------------------------- MODULE PatrolProofs -----------------------------
(***************************************************************************)
(* What holds of the commands of akctl when they run one at a time, as in  *)
(* the loop of the orchestrator: no record is dropped, patrols and batches *)
(* keep to the limits, and patrol keeps the promise of Placement.          *)
(***************************************************************************)
EXTENDS AkctlProofs

-----------------------------------------------------------------------------
(* One command at a time                                                   *)

\* A task between the choice of its place and its record.
FreshPcs == {"check", "space", "worker", "record"}
SeqPcs == {"idle", "load", "plan", "row", "orchestrator", "orchestratorWindow", "stopping"}
            \cup StartPcs \cup StopPcs

\* There is one command; its copy is what the file holds, the task it starts has
\* no record and, until its window is there, no worker.
SeqCommand(c) ==
  /\ c.pc \in SeqPcs /\ c.op \in {"patrol", "batch"} \cup StopOps
  /\ mode = "patrols" => c.op # "batch"
  /\ c.pc \in CopyPcs => c.copy.tasks = registry.tasks
  /\ c.pc \in FreshPcs => registry.tasks[c.task] = None
  /\ c.pc \in {"check", "space"} => space[c.task] = None
  /\ c.pc \in {"check", "space", "worker"} => worker[c.task] = None
  /\ c.pc = "worker" => space[c.task] = "active"
  /\ c.pc \in {"monitor", "loop"} => registry.tasks[c.task] # None
  /\ c.op = "patrol" /\ c.pc \in {"plan"} \cup FreshPcs =>
       \A t \in Tasks : registry.tasks[t] # None => c.working[t] = registry.tasks[t]

Alone == \A p, q \in Procs : cmd[p].pc # "idle" /\ cmd[q].pc # "idle" => p = q

\* No smoke run, and no window of a cancelled task but the one that is being closed.
SeqWorld ==
  /\ \A t \in Tasks : registry.tasks[t] # None => ~registry.tasks[t].smoke
  /\ \A t \in Tasks : worker[t] # None => worker[t] = "real" /\ space[t] # None
  /\ \A t \in Tasks : space[t] = "cancelled" /\ worker[t] # None =>
       \E p \in Procs : cmd[p].pc = "kill" /\ cmd[p].task = t

OneByOne ==
  /\ Alone /\ SeqWorld
  /\ \A p \in Procs : cmd[p].pc # "idle" => SeqCommand(cmd[p])

SeqInv == ~Overlapping => OneByOne

-----------------------------------------------------------------------------
(* Places                                                                  *)

\* The tasks that hold a place.
Held ==
  {t \in Tasks : /\ registry.tasks[t] # None
                 /\ \/ space[t] \notin TerminalStates
                    \/ space[t] = "cancelled" /\ worker[t] # None}

HeldOn(g) == {t \in Held : registry.tasks[t].gpu = g}

\* Room for one more.
RoomAt(place) ==
  /\ MaxActive > 0 => Cardinality(Held) < MaxActive
  /\ MaxPerGpu > 0 => Cardinality(HeldOn(place.gpu)) < MaxPerGpu

\* A place a patrol has chosen: it exists and nobody holds it.
FreePlace(place) ==
  /\ place \in P!Places
  /\ \A t \in Held : ~(registry.tasks[t].gpu = place.gpu /\ registry.tasks[t].slot = place.slot)

LimitInv ==
  ~Overlapping =>
    /\ MaxActive > 0 => Cardinality(Held) <= MaxActive
    /\ MaxPerGpu > 0 => \A g \in Gpus : Cardinality(HeldOn(g)) <= MaxPerGpu
    /\ \A p \in Procs : cmd[p].pc \in FreshPcs =>
         RoomAt(cmd[p].place) /\ (cmd[p].op = "patrol" => FreePlace(cmd[p].place))

-----------------------------------------------------------------------------
(* The steps of the one command                                            *)

\* Commands begin where nothing runs, so the others are idle.
LEMMA OthersIdle ==
  ASSUME TypeInv, OneByOne, ~Overlapping, NEW p \in Procs, Command(p)
  PROVE  \A q \in Procs : q # p => cmd[q].pc = "idle"
<1>1. (\E c : Begin(p, c)) \/ cmd[p].pc # "idle"
  <2>1. CASE \/ PatrolBegin(p) \/ BatchBegin(p) \/ StartTaskBegin(p) \/ OrchestratorBegin(p)
             \/ MonitorLoopBegin(p) \/ StopBegin(p) \/ SmokeCleanBegin(p)
    BY <2>1 DEF PatrolBegin, BatchBegin, StartTaskBegin, OrchestratorBegin, MonitorLoopBegin,
                StopBegin, SmokeCleanBegin
  <2>2. CASE \/ PatrolLoad(p) \/ PatrolEnd(p) \/ PatrolPlan(p) \/ BatchRow(p) \/ BatchEnd(p)
             \/ StartCheck(p) \/ StartSpace(p) \/ StartWorker(p) \/ StartRecord(p)
             \/ StartMonitor(p) \/ StartLoop(p)
    BY <2>2 DEF PatrolLoad, PatrolEnd, PatrolPlan, BatchRow, BatchEnd, StartCheck, StartSpace,
                StartWorker, StartRecord, StartMonitor, StartLoop, At
  <2>3. CASE \/ OrchestratorLoad(p) \/ OrchestratorStart(p) \/ OrchestratorLoop(p)
             \/ MonitorLoopLoad(p) \/ MonitorLoopWrite(p)
             \/ StopLoad(p) \/ StopMark(p) \/ StopKill(p) \/ StopOrchestrator(p) \/ StopWrite(p)
             \/ SmokeCleanKill(p) \/ SmokeCleanWrite(p)
    BY <2>3 DEF OrchestratorLoad, OrchestratorStart, OrchestratorLoop, MonitorLoopLoad,
                MonitorLoopWrite, StopLoad, StopMark, StopKill, StopOrchestrator, StopWrite,
                SmokeCleanKill, SmokeCleanWrite, At
  <2>4. CASE Killed(p)
    BY <2>4 DEF Killed
  <2> QED
    BY <2>1, <2>2, <2>3, <2>4 DEF Command
<1>2. ASSUME NEW c, Begin(p, c)
      PROVE  \A q \in Procs : cmd[q].pc = "idle"
  BY <1>2 DEF Begin, Idle
<1>3. CASE cmd[p].pc # "idle"
  BY <1>3 DEF OneByOne, Alone
<1> QED
  BY <1>1, <1>2, <1>3

\* So it is enough to look at the command that steps.
LEMMA SeqFrame ==
  ASSUME TypeInv, OneByOne, ~Overlapping, NEW p \in Procs, Command(p), SeqWorld',
         cmd'[p].pc # "idle" => SeqCommand(cmd[p])'
  PROVE  OneByOne'
<1>1. \A q \in Procs : q # p => cmd'[q] = cmd[q] /\ cmd[q].pc = "idle"
  BY OthersAlone, OthersIdle
<1>2. Alone'
  BY <1>1 DEF Alone
<1>3. \A q \in Procs : cmd'[q].pc # "idle" => SeqCommand(cmd[q])'
  BY <1>1
<1> QED
  BY <1>2, <1>3 DEF OneByOne

\* No window of a cancelled task, unless it is being closed.
LEMMA WorldSame ==
  ASSUME TypeInv, OneByOne, ~Overlapping, NEW p \in Procs, Command(p), cmd[p].pc # "kill",
         UNCHANGED <<space, worker>>, registry'.tasks = registry.tasks
  PROVE  SeqWorld'
<1>1. \A q \in Procs : cmd[q].pc # "kill"
  BY OthersIdle
<1> QED
  BY <1>1 DEF OneByOne, SeqWorld

\* What every step of the one command starts from.
LEMMA SeqNow ==
  ASSUME TypeInv, OneByOne, ~Overlapping, NEW p \in Procs, Command(p)
  PROVE  /\ cmd \in [Procs -> Commands] /\ cmd[p] \in Commands /\ CommandOK(p, cmd[p])
         /\ cmd[p].pc # "idle" => SeqCommand(cmd[p])
         /\ cmd[p].pc \in TaskPcs => cmd[p].task \in Tasks
         /\ mode' = mode /\ mode \in Modes /\ AkctlTypeOK /\ registry \in Registries
BY OthersAlone DEF TypeInv, CommandsOK, CommandOK, OneByOne, RegistryOK

\* A command that begins finds nothing half done.
LEMMA SeqBegin ==
  ASSUME TypeInv, OneByOne, ~Overlapping, NEW p \in Procs,
         PatrolBegin(p) \/ BatchBegin(p) \/ StopBegin(p)
  PROVE  OneByOne'
<1>1. Command(p)
  BY DEF Command
<1>2. /\ cmd \in [Procs -> Commands] /\ mode' = mode
  BY <1>1, SeqNow
<1>3. cmd[p].pc # "kill" /\ UNCHANGED akctlVars
  <2>1. \E c : Begin(p, c)
    BY DEF PatrolBegin, BatchBegin, StopBegin
  <2> QED
    BY <2>1 DEF Begin, Idle
<1>4. SeqWorld'
  BY <1>1, <1>3, WorldSame DEF akctlVars
<1>5. CASE PatrolBegin(p)
  <2>1. cmd'[p].pc = "load" /\ cmd'[p].op = "patrol"
    BY <1>2, <1>5 DEF PatrolBegin, Begin, Idle
  <2>2. SeqCommand(cmd[p])'
    BY <2>1 DEF SeqCommand, SeqPcs, CopyPcs, FreshPcs
  <2> QED
    BY <1>1, <1>4, <2>2, SeqFrame
<1>6. CASE BatchBegin(p)
  <2>1. cmd'[p].pc \in {"orchestrator", "row"} /\ cmd'[p].op = "batch" /\ mode = "batches"
    BY <1>2, <1>6 DEF BatchBegin, Begin, Idle, Overlapping
  <2>2. SeqCommand(cmd[p])'
    BY <1>2, <2>1 DEF SeqCommand, SeqPcs, CopyPcs, FreshPcs
  <2> QED
    BY <1>1, <1>4, <2>2, SeqFrame
<1>7. CASE StopBegin(p)
  <2>1. cmd'[p].pc = "stopping" /\ cmd'[p].op \in StopOps
    BY <1>2, <1>7 DEF StopBegin, Begin, Idle, StopOps
  <2>2. SeqCommand(cmd[p])'
    BY <2>1 DEF SeqCommand, SeqPcs, CopyPcs, FreshPcs, StopOps
  <2> QED
    BY <1>1, <1>4, <2>2, SeqFrame
<1> QED
  BY <1>5, <1>6, <1>7

\* patrol plans with a copy that lacks no record of the file.
LEMMA SeqPatrol ==
  ASSUME TypeInv, OneByOne, ~Overlapping, NEW p \in Procs,
         PatrolLoad(p) \/ PatrolEnd(p) \/ PatrolPlan(p)
  PROVE  OneByOne'
<1>1. Command(p)
  BY DEF Command
<1>2. /\ cmd \in [Procs -> Commands] /\ cmd[p] \in Commands /\ CommandOK(p, cmd[p])
      /\ mode' = mode /\ mode \in Modes /\ AkctlTypeOK
  BY <1>1, SeqNow
<1>3. cmd[p].pc \in {"load", "plan"} /\ UNCHANGED akctlVars
  BY DEF PatrolLoad, PatrolEnd, PatrolPlan, At
<1>4. SeqWorld'
  BY <1>1, <1>3, WorldSame DEF akctlVars
<1>5. SeqCommand(cmd[p]) /\ cmd[p].op = "patrol"
  BY <1>1, <1>2, <1>3, SeqNow DEF CommandOK
<1>6. CASE PatrolLoad(p)
  <2>1. cmd'[p] = [cmd[p] EXCEPT !.pc = "plan", !.working = registry.tasks]
    BY <1>2, <1>6 DEF PatrolLoad
  <2>2. cmd'[p].pc = "plan" /\ cmd'[p].op = "patrol" /\ cmd'[p].working = registry.tasks
    BY <1>2, <1>5, <2>1 DEF Commands
  <2>3. SeqCommand(cmd[p])'
    BY <1>3, <2>2 DEF SeqCommand, SeqPcs, CopyPcs, FreshPcs, akctlVars
  <2> QED
    BY <1>1, <1>4, <2>3, SeqFrame
<1>7. CASE PatrolEnd(p)
  <2>1. cmd'[p].pc = "idle"
    BY <1>2, <1>7 DEF PatrolEnd, Ends, Idle
  <2> QED
    BY <1>1, <1>4, <2>1, SeqFrame
<1>8. CASE PatrolPlan(p)
  <2> DEFINE t == NextPending(p)
  <2>1. cmd'[p] = [cmd[p] EXCEPT !.pc = "check", !.task = t, !.place = ChosenPlace(Working(p))]
    BY <1>2, <1>8 DEF PatrolPlan
  <2>2. /\ cmd'[p].pc = "check" /\ cmd'[p].op = "patrol" /\ cmd'[p].task = t
        /\ cmd'[p].working = cmd[p].working
    BY <1>2, <1>5, <2>1 DEF Commands
  <2>3. t \in Tasks /\ Working(p)[t] = None /\ space[t] = None
    <3>1. PICK i \in Pending(p) : t = Queue[i].task /\ t \in Tasks
      BY <1>2, <1>8, NextPendingIs DEF PatrolPlan
    <3> QED
      BY <3>1 DEF Pending, PendingRows, Blocked
  <2>4. registry.tasks[t] = None
    BY <1>3, <1>5, <1>8, <2>3 DEF PatrolPlan, At, SeqCommand, Working
  <2>5. worker[t] = None
    BY <2>3 DEF OneByOne, SeqWorld
  <2>6. SeqCommand(cmd[p])'
    BY <1>3, <1>5, <1>8, <2>2, <2>3, <2>4, <2>5
    DEF PatrolPlan, At, SeqCommand, SeqPcs, CopyPcs, FreshPcs, StartPcs, akctlVars
  <2> QED
    BY <1>1, <1>4, <2>6, SeqFrame
<1> QED
  BY <1>6, <1>7, <1>8

\* start-batch takes a row whose task has no record and no workspace yet.
LEMMA SeqBatch ==
  ASSUME TypeInv, OneByOne, ~Overlapping, NEW p \in Procs, BatchRow(p) \/ BatchEnd(p)
  PROVE  OneByOne'
<1>1. Command(p)
  BY DEF Command
<1>2. /\ cmd \in [Procs -> Commands] /\ cmd[p] \in Commands /\ CommandOK(p, cmd[p])
      /\ mode' = mode /\ mode \in Modes /\ AkctlTypeOK
  BY <1>1, SeqNow
<1>3. cmd[p].pc = "row" /\ UNCHANGED akctlVars
  BY DEF BatchRow, BatchEnd, At
<1>4. SeqWorld'
  BY <1>1, <1>3, WorldSame DEF akctlVars
<1>5. SeqCommand(cmd[p]) /\ cmd[p].op = "batch"
  BY <1>1, <1>2, <1>3, SeqNow DEF CommandOK
<1>6. CASE BatchEnd(p)
  <2>1. cmd'[p].pc = "idle"
    BY <1>2, <1>6 DEF BatchEnd, Ends, Idle
  <2> QED
    BY <1>1, <1>4, <2>1, SeqFrame
<1>7. CASE BatchRow(p)
  <2> DEFINE row == Queue[NextRow(p)]
             skipped == \/ Duplicate(registry.tasks, row.task)
                        \/ CapacityReason(registry.tasks, row.gpu)
  <2>1. cmd'[p] = [cmd[p] EXCEPT !.left = @ \ {NextRow(p)},
                     !.pc = IF skipped THEN "row" ELSE "check",
                     !.task = IF skipped THEN None ELSE row.task,
                     !.place = IF skipped THEN None ELSE [gpu |-> row.gpu, slot |-> row.slot]]
    BY <1>2, <1>7 DEF BatchRow
  <2>2. row \in [task : Tasks, gpu : Gpus, slot : Nat]
    <3>1. cmd[p].left \subseteq DOMAIN Queue /\ cmd[p].left # {}
      BY <1>2, <1>3, <1>5, <1>7 DEF BatchRow, CommandOK
    <3> QED
      BY <1>2, <3>1, NextRowIs, QueueOK
  <2>3. ~skipped => /\ row.task \in Tasks /\ registry.tasks[row.task] = None
                    /\ space[row.task] = None
    BY <2>2 DEF Duplicate, Blocked
  <2>4. ~skipped => worker[row.task] = None
    BY <2>3 DEF OneByOne, SeqWorld
  <2> HIDE DEF row, skipped
  <2>5. /\ cmd'[p].op = "batch" /\ (skipped => cmd'[p].pc = "row")
        /\ ~skipped => cmd'[p].pc = "check" /\ cmd'[p].task = row.task
    BY <1>2, <1>5, <2>1 DEF Commands
  <2>6. SeqCommand(cmd[p])'
    BY <1>2, <1>3, <1>5, <2>3, <2>4, <2>5
    DEF SeqCommand, SeqPcs, CopyPcs, FreshPcs, StartPcs, akctlVars
  <2> QED
    BY <1>1, <1>4, <2>6, SeqFrame
<1> QED
  BY <1>6, <1>7

\* start_task creates a workspace and a window for a task that had neither.
LEMMA SeqStart ==
  ASSUME TypeInv, OneByOne, ~Overlapping, NEW p \in Procs,
         StartCheck(p) \/ StartSpace(p) \/ StartWorker(p)
  PROVE  OneByOne'
<1>1. Command(p)
  BY DEF Command
<1>2. /\ cmd \in [Procs -> Commands] /\ cmd[p] \in Commands /\ CommandOK(p, cmd[p])
      /\ mode' = mode /\ AkctlTypeOK /\ registry.tasks \in TaskRecords
  BY <1>1, SeqNow DEF Registries
<1> DEFINE c == cmd[p]
           t == cmd[p].task
<1>3. c.pc \in {"check", "space", "worker"} /\ registry' = registry
  BY DEF StartCheck, StartSpace, StartWorker, At, akctlVars
<1>4. SeqCommand(c) /\ t \in Tasks /\ c.op \in Starting
  BY <1>1, <1>2, <1>3, SeqNow
  DEF TaskPcs, StartPcs, CommandOK, SeqCommand, StopOps, Starting
<1>5. registry.tasks[t] = None /\ worker[t] = None
  BY <1>3, <1>4 DEF SeqCommand, FreshPcs
<1>6. ~Smoke(p)
  BY <1>4 DEF Smoke, Starting
<1>7. CASE StartCheck(p)
  <2>1. UNCHANGED akctlVars /\ c.pc = "check"
    BY <1>7 DEF StartCheck, At
  <2>2. SeqWorld'
    BY <1>1, <2>1, WorldSame DEF akctlVars
  <2>3. CASE Loads(p, "space")
    <3>1. cmd'[p] = [c EXCEPT !.pc = "space", !.copy = registry]
      BY <1>2, <2>3 DEF Loads
    <3>2. /\ cmd'[p].pc = "space" /\ cmd'[p].copy = registry /\ cmd'[p].op = c.op
          /\ cmd'[p].task = t /\ cmd'[p].working = c.working
      BY <1>2, <3>1 DEF Commands
    <3>3. SeqCommand(cmd[p])'
      BY <1>2, <1>4, <2>1, <3>2
      DEF SeqCommand, SeqPcs, CopyPcs, FreshPcs, StartPcs, akctlVars
    <3> QED
      BY <1>1, <2>2, <3>3, SeqFrame
  <2>4. CASE Ends(p)
    <3>1. cmd'[p].pc = "idle"
      BY <1>2, <2>4 DEF Ends, Idle
    <3> QED
      BY <1>1, <2>2, <3>1, SeqFrame
  <2>5. CASE c.op = "batch" /\ Returns(p, "row", None)
    <3>1. cmd'[p].pc = "row" /\ cmd'[p].op = "batch"
      BY <1>2, <2>5 DEF Returns, Commands
    <3>2. SeqCommand(cmd[p])'
      BY <1>2, <1>4, <2>5, <3>1 DEF SeqCommand, SeqPcs, CopyPcs, FreshPcs, StartPcs
    <3> QED
      BY <1>1, <2>2, <3>2, SeqFrame
  <2>6. CASE /\ c.op = "patrol"
             /\ Returns(p, "plan", [Working(p) EXCEPT ![t] = NewRecord(c.place, FALSE)])
    <3> DEFINE working == [Working(p) EXCEPT ![t] = NewRecord(c.place, FALSE)]
    <3>1. c.working \in TaskRecords
      BY <1>2, <2>1, <2>6 DEF CommandOK, StartPcs
    <3>2. \A u \in Tasks : registry.tasks[u] # None => working[u] = registry.tasks[u]
      BY <1>4, <1>5, <2>1, <2>6, <3>1 DEF SeqCommand, FreshPcs, Working, TaskRecords
    <3> HIDE DEF working
    <3>3. cmd'[p].pc = "plan" /\ cmd'[p].op = "patrol" /\ cmd'[p].working = working
      BY <1>2, <2>6 DEF Returns, Commands, working
    <3>4. SeqCommand(cmd[p])'
      BY <1>2, <1>3, <3>2, <3>3 DEF SeqCommand, SeqPcs, CopyPcs, FreshPcs
    <3> QED
      BY <1>1, <2>2, <3>4, SeqFrame
  <2> QED
    BY <1>7, <2>3, <2>4, <2>5, <2>6 DEF StartCheck, StartFails
<1>8. CASE StartSpace(p)
  <2>1. c.pc = "space" /\ space[t] = None /\ worker' = worker
    BY <1>4, <1>8 DEF StartSpace, At, SeqCommand
  <2>2. space' = [space EXCEPT ![t] = "active"] /\ Goes(p, "worker")
    BY <1>6, <1>8, <2>1 DEF StartSpace
  <2>3. space'[t] = "active" /\ \A u \in Tasks : u # t => space'[u] = space[u]
    BY <1>2, <1>4, <2>2 DEF AkctlTypeOK
  <2>4. SeqWorld'
    <3>1. \A q \in Procs : cmd[q].pc # "kill"
      BY <1>1, <2>1, OthersIdle
    <3> QED
      BY <1>3, <1>5, <2>1, <2>3, <3>1, NoneIsNothing DEF OneByOne, SeqWorld
  <2>5. /\ cmd'[p].pc = "worker" /\ cmd'[p].copy = c.copy /\ cmd'[p].op = c.op
        /\ cmd'[p].task = t /\ cmd'[p].working = c.working
    BY <1>2, <2>2 DEF Goes, Commands
  <2>6. SeqCommand(cmd[p])'
    BY <1>2, <1>3, <1>4, <1>5, <2>1, <2>3, <2>5
    DEF SeqCommand, SeqPcs, CopyPcs, FreshPcs, StartPcs
  <2> QED
    BY <1>1, <2>4, <2>6, SeqFrame
<1>9. CASE StartWorker(p)
  <2>1. c.pc = "worker" /\ space[t] = "active" /\ space' = space
    BY <1>4, <1>9 DEF StartWorker, At, SeqCommand
  <2>2. worker' = [worker EXCEPT ![t] = "real"] /\ Goes(p, "record")
    BY <1>5, <1>6, <1>9 DEF StartWorker, WorkerStarted
  <2>3. worker'[t] = "real" /\ \A u \in Tasks : u # t => worker'[u] = worker[u]
    BY <1>2, <1>4, <2>2 DEF AkctlTypeOK
  <2>4. SeqWorld'
    <3>1. \A q \in Procs : cmd[q].pc # "kill"
      BY <1>1, <2>1, OthersIdle
    <3> QED
      BY <1>3, <2>1, <2>3, <3>1, NoneIsNothing DEF OneByOne, SeqWorld, Statuses
  <2>5. /\ cmd'[p].pc = "record" /\ cmd'[p].copy = c.copy /\ cmd'[p].op = c.op
        /\ cmd'[p].task = t /\ cmd'[p].working = c.working
    BY <1>2, <2>2 DEF Goes, Commands
  <2>6. SeqCommand(cmd[p])'
    BY <1>2, <1>3, <1>4, <1>5, <2>1, <2>5
    DEF SeqCommand, SeqPcs, CopyPcs, FreshPcs, StartPcs
  <2> QED
    BY <1>1, <2>4, <2>6, SeqFrame
<1> QED
  BY <1>7, <1>8, <1>9

\* start_task adds the record of its task to a copy the file has not moved away from.
LEMMA SeqRecord ==
  ASSUME TypeInv, OneByOne, ~Overlapping, NEW p \in Procs, StartRecord(p)
  PROVE  /\ OneByOne'
         /\ registry'.tasks = [registry.tasks EXCEPT ![cmd[p].task] = NewRecord(cmd[p].place, FALSE)]
<1>1. Command(p)
  BY DEF Command
<1> DEFINE c == cmd[p]
           t == cmd[p].task
<1>2. /\ cmd \in [Procs -> Commands] /\ c \in Commands /\ CommandOK(p, c)
      /\ mode' = mode /\ AkctlTypeOK /\ registry.tasks \in TaskRecords
  BY <1>1, SeqNow DEF Registries
<1>3. c.pc = "record" /\ UNCHANGED <<space, worker>>
  BY DEF StartRecord, At
<1>4. SeqCommand(c) /\ t \in Tasks /\ c.op \in Starting
  BY <1>1, <1>2, <1>3, SeqNow
  DEF TaskPcs, StartPcs, CommandOK, SeqCommand, StopOps, Starting
<1>5. Copy(p) \in Registries /\ Copy(p).tasks = registry.tasks /\ registry.tasks[t] = None
  BY <1>2, <1>3, <1>4 DEF CommandOK, SeqCommand, CopyPcs, FreshPcs, Copy
<1>6. registry'.tasks = [registry.tasks EXCEPT ![t] = NewRecord(c.place, FALSE)]
  <2>1. Smoke(p) = FALSE
    BY <1>4 DEF Smoke, Starting
  <2>2. registry' = [Copy(p) EXCEPT !.tasks[t] = NewRecord(c.place, Smoke(p))]
    BY DEF StartRecord, WriteRegistry
  <2> HIDE DEF NewRecord
  <2> QED
    BY <1>5, <2>1, <2>2 DEF Registries
<1>7. NewRecord(c.place, FALSE) \in Record /\ ~NewRecord(c.place, FALSE).smoke
      /\ NewRecord(c.place, FALSE) # None
  <2>1. c.place \in Place
    BY <1>2, <1>3 DEF CommandOK, StartPcs
  <2> QED
    BY <2>1, NewRecordOK, NoneIsNothing DEF NewRecord
<1>8. SeqWorld'
  <2>1. \A q \in Procs : cmd[q].pc # "kill"
    BY <1>1, <1>3, OthersIdle
  <2> HIDE DEF NewRecord
  <2> QED
    BY <1>2, <1>3, <1>4, <1>6, <1>7, <2>1 DEF OneByOne, SeqWorld, TaskRecords
<1>9. cmd'[p].pc = "monitor" /\ cmd'[p].op = c.op /\ cmd'[p].task = t
  BY <1>2 DEF StartRecord, Goes, Commands
<1>10. SeqCommand(cmd[p])'
  <2>1. registry'.tasks[t] # None
    <3> HIDE DEF NewRecord
    <3> QED
      BY <1>2, <1>4, <1>6, <1>7 DEF TaskRecords
  <2> QED
    BY <1>2, <1>4, <1>9, <2>1 DEF SeqCommand, SeqPcs, CopyPcs, FreshPcs, StartPcs
<1> QED
  BY <1>1, <1>6, <1>8, <1>10, SeqFrame

\* start_task notes its monitor loop in the record it has written.
LEMMA SeqLoop ==
  ASSUME TypeInv, OneByOne, ~Overlapping, NEW p \in Procs, StartMonitor(p) \/ StartLoop(p)
  PROVE  /\ OneByOne'
         /\ \/ registry'.tasks = registry.tasks
            \/ /\ registry.tasks[cmd[p].task] # None
               /\ registry'.tasks = [registry.tasks EXCEPT ![cmd[p].task].loop = TRUE]
<1>1. Command(p)
  BY DEF Command
<1> DEFINE c == cmd[p]
           t == cmd[p].task
<1>2. /\ cmd \in [Procs -> Commands] /\ c \in Commands /\ CommandOK(p, c)
      /\ mode' = mode /\ AkctlTypeOK /\ registry \in Registries /\ registry.tasks \in TaskRecords
  BY <1>1, SeqNow DEF Registries
<1>3. c.pc \in {"monitor", "loop"} /\ UNCHANGED <<space, worker>>
  BY DEF StartMonitor, StartLoop, At, akctlVars
<1>4. SeqCommand(c) /\ t \in Tasks /\ registry.tasks[t] # None
  BY <1>1, <1>2, <1>3, SeqNow DEF TaskPcs, StartPcs, SeqCommand
<1>5. registry.tasks[t] \in Record
  BY <1>2, <1>4 DEF TaskRecords
<1>6. CASE StartMonitor(p)
  <2>1. registry' = registry /\ Goes(p, "loop")
    BY <1>6 DEF StartMonitor, akctlVars
  <2>2. SeqWorld'
    BY <1>1, <1>3, <2>1, WorldSame
  <2>3. cmd'[p].pc = "loop" /\ cmd'[p].op = c.op /\ cmd'[p].task = t
    BY <1>2, <2>1 DEF Goes, Commands
  <2>4. SeqCommand(cmd[p])'
    BY <1>2, <1>4, <2>1, <2>3 DEF SeqCommand, SeqPcs, CopyPcs, FreshPcs, StartPcs
  <2> QED
    BY <1>1, <2>1, <2>2, <2>4, SeqFrame
<1>7. CASE StartLoop(p)
  <2>1. registry' = [registry EXCEPT !.tasks[t].loop = TRUE]
    BY <1>4, <1>7 DEF StartLoop, WriteRegistry
  <2>2. registry'.tasks = [registry.tasks EXCEPT ![t].loop = TRUE]
    BY <1>2, <2>1 DEF Registries
  <2>3. SeqWorld'
    <3>1. \A u \in Tasks : registry'.tasks[u] # None => ~registry'.tasks[u].smoke
      BY <1>2, <1>4, <1>5, <2>2 DEF OneByOne, SeqWorld, TaskRecords, Record
    <3>2. \A q \in Procs : cmd[q].pc # "kill"
      BY <1>1, <1>3, OthersIdle
    <3> QED
      BY <1>3, <3>1, <3>2 DEF OneByOne, SeqWorld
  <2>4. CASE c.op = "patrol"
    <3>1. cmd'[p] = [Idle EXCEPT !.op = "patrol", !.pc = "load", !.count = cmd[p].count + 1]
      BY <1>2, <1>4, <1>7, <2>4 DEF StartLoop
    <3>2. cmd'[p].pc = "load" /\ cmd'[p].op = "patrol"
      BY <3>1 DEF Idle
    <3>3. SeqCommand(cmd[p])'
      BY <3>2 DEF SeqCommand, SeqPcs, CopyPcs, FreshPcs
    <3> QED
      BY <1>1, <1>4, <2>2, <2>3, <3>3, SeqFrame
  <2>5. CASE c.op = "batch"
    <3>1. Returns(p, "row", None)
      BY <1>4, <1>7, <2>5 DEF StartLoop
    <3>2. cmd'[p].pc = "row" /\ cmd'[p].op = "batch"
      BY <1>2, <2>5, <3>1 DEF Returns, Commands
    <3>3. SeqCommand(cmd[p])'
      BY <1>2, <1>4, <2>5, <3>2 DEF SeqCommand, SeqPcs, CopyPcs, FreshPcs, StartPcs
    <3> QED
      BY <1>1, <1>4, <2>2, <2>3, <3>3, SeqFrame
  <2>6. CASE c.op \notin {"patrol", "batch"}
    <3>1. Ends(p)
      BY <1>4, <1>7, <2>6 DEF StartLoop
    <3>2. cmd'[p].pc = "idle"
      BY <1>2, <3>1 DEF Ends, Idle
    <3> QED
      BY <1>1, <1>4, <2>2, <2>3, <3>2, SeqFrame
  <2> QED
    BY <2>4, <2>5, <2>6
<1> QED
  BY <1>6, <1>7

\* The orchestrator of a batch writes back the tasks it has read.
LEMMA SeqOrchestrator ==
  ASSUME TypeInv, OneByOne, ~Overlapping, NEW p \in Procs,
         OrchestratorLoad(p) \/ OrchestratorStart(p)
  PROVE  OneByOne' /\ registry'.tasks = registry.tasks
<1>1. Command(p)
  BY DEF Command
<1> DEFINE c == cmd[p]
<1>2. /\ cmd \in [Procs -> Commands] /\ c \in Commands /\ CommandOK(p, c) /\ mode' = mode
  BY <1>1, SeqNow
<1>3. c.pc \in {"orchestrator", "orchestratorWindow"} /\ UNCHANGED <<space, worker>>
  BY DEF OrchestratorLoad, OrchestratorStart, At, akctlVars
<1>4. SeqCommand(c)
  BY <1>1, <1>3, SeqNow
<1>5. CASE OrchestratorLoad(p)
  <2>1. registry' = registry /\ cmd'[p] = [c EXCEPT !.pc = "orchestratorWindow", !.copy = registry]
    BY <1>2, <1>5 DEF OrchestratorLoad, Loads, akctlVars
  <2>2. SeqWorld'
    BY <1>1, <1>3, <2>1, WorldSame
  <2>3. cmd'[p].pc = "orchestratorWindow" /\ cmd'[p].copy = registry /\ cmd'[p].op = c.op
    BY <1>2, <2>1 DEF Commands
  <2>4. SeqCommand(cmd[p])'
    BY <1>2, <1>4, <2>1, <2>3 DEF SeqCommand, SeqPcs, FreshPcs
  <2> QED
    BY <1>1, <2>1, <2>2, <2>4, SeqFrame
<1>6. CASE OrchestratorStart(p)
  <2>1. Copy(p) \in Registries /\ Copy(p).tasks = registry.tasks
    BY <1>2, <1>4, <1>6 DEF OrchestratorStart, At, CommandOK, SeqCommand, CopyPcs, Copy
  <2>2. registry'.tasks = registry.tasks
    BY <1>6, <2>1 DEF OrchestratorStart, WriteRegistry, Registries
  <2>3. SeqWorld'
    BY <1>1, <1>3, <2>2, WorldSame
  <2>4. CASE c.op = "batch"
    <3>1. Goes(p, "row")
      BY <1>6, <2>4 DEF OrchestratorStart
    <3>2. cmd'[p].pc = "row" /\ cmd'[p].op = "batch"
      BY <1>2, <2>4, <3>1 DEF Goes, Commands
    <3>3. SeqCommand(cmd[p])'
      BY <1>2, <1>4, <2>4, <3>2 DEF SeqCommand, SeqPcs, CopyPcs, FreshPcs, StartPcs
    <3> QED
      BY <1>1, <2>2, <2>3, <3>3, SeqFrame
  <2>5. CASE c.op # "batch"
    <3>1. Ends(p)
      BY <1>4, <1>6, <2>5 DEF OrchestratorStart, SeqCommand, StopOps
    <3>2. cmd'[p].pc = "idle"
      BY <1>2, <3>1 DEF Ends, Idle
    <3> QED
      BY <1>1, <2>2, <2>3, <3>2, SeqFrame
  <2> QED
    BY <2>4, <2>5
<1> QED
  BY <1>5, <1>6

\* The stop commands close the windows they have marked before another command begins.
LEMMA SeqStop ==
  ASSUME TypeInv, OneByOne, ~Overlapping, NEW p \in Procs,
         \/ StopLoad(p) \/ StopMark(p) \/ StopKill(p) \/ StopOrchestrator(p) \/ StopWrite(p)
  PROVE  OneByOne' /\ registry'.tasks = registry.tasks
<1>1. Command(p)
  BY DEF Command
<1> DEFINE c == cmd[p]
<1>2. /\ cmd \in [Procs -> Commands] /\ c \in Commands /\ CommandOK(p, c) /\ mode' = mode
      /\ AkctlTypeOK /\ registry \in Registries
  BY <1>1, SeqNow
<1>3. c.pc \in {"stopping"} \cup StopPcs
  BY DEF StopLoad, StopMark, StopKill, StopOrchestrator, StopWrite, At, StopPcs
<1>4. SeqCommand(c) /\ c.op \in StopOps
  BY <1>1, <1>2, <1>3, SeqNow DEF CommandOK, StopPcs
<1>5. CASE StopLoad(p)
  <2>1. UNCHANGED akctlVars /\ c.pc = "stopping"
    BY <1>5 DEF StopLoad, At
  <2>2. SeqWorld'
    BY <1>1, <2>1, WorldSame DEF akctlVars
  <2>3. CASE Ends(p)
    <3>1. cmd'[p].pc = "idle"
      BY <1>2, <2>3 DEF Ends, Idle
    <3> QED
      BY <1>1, <2>1, <2>2, <3>1, SeqFrame DEF akctlVars
  <2>4. ASSUME NEW left,
               cmd' = [cmd EXCEPT ![p] = [@ EXCEPT !.pc = "mark", !.copy = registry,
                                                   !.task = None, !.left = left]]
        PROVE  OneByOne' /\ registry'.tasks = registry.tasks
    <3>1. cmd'[p].pc = "mark" /\ cmd'[p].copy = registry /\ cmd'[p].op = c.op
      BY <1>2, <2>4 DEF Commands
    <3>2. SeqCommand(cmd[p])'
      BY <1>2, <1>4, <2>1, <3>1
      DEF SeqCommand, SeqPcs, FreshPcs, StopPcs, StopOps, akctlVars
    <3> QED
      BY <1>1, <2>1, <2>2, <3>2, SeqFrame DEF akctlVars
  <2> QED
    BY <1>5, <2>3, <2>4 DEF StopLoad
<1>6. CASE StopMark(p)
  <2>1. registry' = registry /\ worker' = worker /\ c.pc = "mark" /\ Copy(p).tasks = registry.tasks
    BY <1>4, <1>6 DEF StopMark, At, SeqCommand, CopyPcs, Copy
  <2>2. PICK t \in c.left :
          LET ended == TaskStatus(Copy(p).tasks, t) \in TerminalStates
              marks == ~ended /\ cmd[p].op # "cleanup"
              smoke == Copy(p).tasks[t].smoke
          IN  /\ space' = IF marks /\ ~smoke THEN [space EXCEPT ![t] = "cancelled"] ELSE space
              /\ cmd' = [cmd EXCEPT ![p].left = @ \ {t},
                           ![p].task = IF ended \/ marks THEN t ELSE None,
                           ![p].pc = IF ended \/ marks THEN "kill" ELSE "mark"]
    BY <1>6 DEF StopMark
  <2>3. t \in Tasks /\ registry.tasks[t] # None /\ ~registry.tasks[t].smoke
    BY <1>2, <2>1, <2>2 DEF CommandOK, StopPcs, Copy, OneByOne, SeqWorld
  <2> DEFINE ended == space[t] \in TerminalStates
             marks == ~ended /\ c.op # "cleanup"
  <2>4. (TaskStatus(Copy(p).tasks, t) \in TerminalStates) = ended
    BY <2>1, <2>3 DEF TaskStatus
  <2>5. space' = IF marks THEN [space EXCEPT ![t] = "cancelled"] ELSE space
    BY <2>1, <2>2, <2>3, <2>4
  <2>6. cmd'[p] = [c EXCEPT !.left = @ \ {t}, !.task = IF ended \/ marks THEN t ELSE None,
                            !.pc = IF ended \/ marks THEN "kill" ELSE "mark"]
    BY <1>2, <2>2, <2>4
  <2> HIDE DEF ended
  <2>7. /\ cmd'[p].copy = c.copy /\ cmd'[p].op = c.op /\ cmd'[p].pc \in {"kill", "mark"}
        /\ marks => cmd'[p].pc = "kill" /\ cmd'[p].task = t
    BY <1>2, <2>6 DEF Commands
  <2>8. SeqWorld'
    <3>1. \A q \in Procs : cmd[q].pc # "kill"
      BY <1>1, <2>1, OthersIdle
    <3>2. \A u \in Tasks : u # t => space'[u] = space[u]
      BY <1>2, <2>5 DEF AkctlTypeOK
    <3>3. (~marks => space'[t] = space[t]) /\ (marks => space'[t] = "cancelled")
      BY <1>2, <2>3, <2>5 DEF AkctlTypeOK
    <3> QED
      BY <2>1, <2>7, <3>1, <3>2, <3>3, NoneIsNothing DEF OneByOne, SeqWorld, Statuses, TerminalStates
  <2>9. SeqCommand(cmd[p])'
    BY <1>2, <1>4, <2>1, <2>7
    DEF SeqCommand, SeqPcs, FreshPcs, CopyPcs, StopPcs, StopOps, Copy
  <2> QED
    BY <1>1, <2>1, <2>8, <2>9, SeqFrame
<1>7. CASE StopKill(p)
  <2> DEFINE t == c.task
  <2>1. /\ c.pc = "kill" /\ t \in Tasks /\ UNCHANGED <<registry, space>>
        /\ worker' = [worker EXCEPT ![t] = None]
    BY <1>2, <1>7 DEF StopKill, At, CommandOK, TaskPcs
  <2>2. cmd'[p].pc = "mark" /\ cmd'[p].copy = c.copy /\ cmd'[p].op = c.op
    BY <1>2, <1>7 DEF StopKill, Commands
  <2>3. SeqWorld'
    <3>1. \A q \in Procs : cmd[q].pc = "kill" => q = p
      BY <1>1, OthersIdle
    <3>2. worker'[t] = None /\ \A u \in Tasks : u # t => worker'[u] = worker[u]
      BY <1>2, <2>1 DEF AkctlTypeOK
    <3> QED
      BY <2>1, <3>1, <3>2 DEF OneByOne, SeqWorld
  <2>4. SeqCommand(cmd[p])'
    BY <1>2, <1>4, <2>1, <2>2 DEF SeqCommand, SeqPcs, FreshPcs, CopyPcs, StopPcs, StopOps
  <2> QED
    BY <1>1, <2>1, <2>3, <2>4, SeqFrame
<1>8. CASE StopOrchestrator(p)
  <2>1. UNCHANGED <<registry, space, worker>> /\ c.pc = "mark"
    BY <1>8 DEF StopOrchestrator, At
  <2>2. SeqWorld'
    BY <1>1, <2>1, WorldSame
  <2>3. c.copy \in Registries /\ c.copy.tasks = registry.tasks
    BY <1>2, <1>4, <2>1 DEF CommandOK, SeqCommand, CopyPcs
  <2>4. cmd'[p].pc = "stopWrite" /\ cmd'[p].op = c.op /\ cmd'[p].copy.tasks = c.copy.tasks
    BY <1>2, <1>8, <2>3 DEF StopOrchestrator, Commands, Registries
  <2>5. SeqCommand(cmd[p])'
    BY <1>2, <1>4, <2>1, <2>3, <2>4 DEF SeqCommand, SeqPcs, FreshPcs, StopPcs, StopOps
  <2> QED
    BY <1>1, <2>1, <2>2, <2>5, SeqFrame
<1>9. CASE StopWrite(p)
  <2>1. UNCHANGED <<space, worker>> /\ c.pc \in {"mark", "stopWrite"} /\ registry' = c.copy
    BY <1>9 DEF StopWrite, At, WriteRegistry, Copy
  <2>2. registry'.tasks = registry.tasks
    BY <1>4, <2>1 DEF SeqCommand, CopyPcs
  <2>3. SeqWorld'
    BY <1>1, <2>1, <2>2, WorldSame
  <2>4. cmd'[p].pc = "idle"
    BY <1>2, <1>9 DEF StopWrite, Ends, Idle
  <2> QED
    BY <1>1, <2>2, <2>3, <2>4, SeqFrame
<1> QED
  BY <1>5, <1>6, <1>7, <1>8, <1>9

\* The workers and their windows, while a command runs or none does.
LEMMA SeqReport ==
  ASSUME TypeInv, OneByOne, ~Overlapping, NEW t \in Tasks, WorkerReports(t) \/ WindowVanishes(t)
  PROVE  OneByOne'
<1>1. /\ UNCHANGED <<registry, cmd, mode>> /\ AkctlTypeOK
      /\ \A p \in Procs : cmd[p].pc \in TaskPcs => cmd[p].task \in Tasks
  BY DEF WorkerReports, WindowVanishes, TypeInv, CommandsOK, CommandOK
<1>2. worker[t] = "real" /\ space[t] # None
  BY NoneIsNothing DEF WorkerReports, WindowVanishes, OneByOne, SeqWorld
<1>3. \A u \in Tasks : u # t => space'[u] = space[u] /\ worker'[u] = worker[u]
  BY <1>1 DEF WorkerReports, WindowVanishes, AkctlTypeOK
<1>4. ASSUME NEW p \in Procs, cmd[p].pc # "idle"
      PROVE  SeqCommand(cmd[p])'
  <2>1. SeqCommand(cmd[p])
    BY <1>4 DEF OneByOne
  <2>2. cmd[p].pc \in {"check", "space", "worker"} => cmd[p].task \in Tasks /\ cmd[p].task # t
    BY <1>1, <1>2, <2>1, NoneIsNothing DEF SeqCommand, TaskPcs, StartPcs
  <2> QED
    BY <1>1, <1>3, <2>1, <2>2 DEF SeqCommand
<1>5. CASE WorkerReports(t)
  <2>1. space'[t] \in {"active", "done"} /\ worker' = worker
    BY <1>1, <1>2, <1>5 DEF WorkerReports, AkctlTypeOK
  <2>2. \A u \in Tasks : space'[u] = "cancelled" => space[u] = "cancelled"
    BY <1>3, <2>1
  <2>3. \A u \in Tasks : space[u] # None => space'[u] # None
    BY <1>3, <2>1, NoneIsNothing DEF Statuses, TerminalStates
  <2> QED
    BY <1>1, <1>4, <2>1, <2>2, <2>3 DEF OneByOne, SeqWorld, Alone
<1>6. CASE WindowVanishes(t)
  <2>1. worker'[t] = None /\ space' = space
    BY <1>1, <1>6 DEF WindowVanishes, AkctlTypeOK
  <2> QED
    BY <1>1, <1>3, <1>4, <2>1 DEF OneByOne, SeqWorld, Alone
<1> QED
  BY <1>5, <1>6

\* What runs only where commands overlap.
LEMMA NotOneByOne ==
  ASSUME TypeInv, OneByOne, ~Overlapping, NEW p \in Procs
  PROVE  /\ ~StartTaskBegin(p) /\ ~OrchestratorBegin(p) /\ ~OrchestratorLoop(p)
         /\ ~MonitorLoopBegin(p) /\ ~MonitorLoopLoad(p) /\ ~MonitorLoopWrite(p)
         /\ ~SmokeCleanBegin(p) /\ ~SmokeCleanKill(p) /\ ~SmokeCleanWrite(p) /\ ~Killed(p)
<1>1. cmd[p].pc \in SeqPcs
  BY DEF OneByOne, SeqCommand, SeqPcs
<1> QED
  BY <1>1
  DEF SeqPcs, StartPcs, StopPcs, StartTaskBegin, OrchestratorBegin, OrchestratorLoop, MonitorLoopBegin,
      MonitorLoopLoad, MonitorLoopWrite, SmokeCleanBegin, SmokeCleanKill, SmokeCleanWrite, Killed, At

\* Every step keeps one command at a time what it is.
LEMMA SeqStep ==
  ASSUME TypeInv, SeqInv, [Next]_vars
  PROVE  SeqInv'
<1>1. CASE UNCHANGED vars
  BY <1>1 DEF vars, akctlVars, SeqInv, Overlapping, OneByOne, Alone, SeqWorld, SeqCommand
<1>2. ASSUME NEW p \in Procs, Command(p), ~Overlapping
      PROVE  OneByOne'
  BY <1>2, SeqBegin, SeqPatrol, SeqBatch, SeqStart, SeqRecord, SeqLoop, SeqOrchestrator, SeqStop,
     NotOneByOne DEF Command, SeqInv
<1>3. ASSUME NEW t \in Tasks, WorkerReports(t) \/ WindowVanishes(t), ~Overlapping
      PROVE  OneByOne'
  BY <1>3, SeqReport DEF SeqInv
<1>4. ASSUME Next
      PROVE  mode' = mode
  BY <1>4, OthersAlone, NextIs DEF WorkerReports, WindowVanishes
<1>5. ASSUME Next, ~Overlapping
      PROVE  OneByOne'
  BY <1>2, <1>3, <1>5, NextIs
<1> QED
  BY <1>1, <1>4, <1>5 DEF SeqInv, Overlapping

\* At first no command runs and nothing is recorded.
LEMMA SeqInit == Init => SeqInv
BY DEF Init, AkctlInit, Idle, SeqInv, OneByOne, Alone, SeqWorld

\* How a command changes the records: it leaves them, adds one, or notes a loop.
LEMMA RecordsMove ==
  ASSUME TypeInv, OneByOne, ~Overlapping, [Next]_vars
  PROVE  \/ registry'.tasks = registry.tasks
         \/ \E p \in Procs :
              /\ StartRecord(p)
              /\ registry'.tasks =
                   [registry.tasks EXCEPT ![cmd[p].task] = NewRecord(cmd[p].place, FALSE)]
         \/ \E p \in Procs :
              /\ StartLoop(p) /\ registry.tasks[cmd[p].task] # None
              /\ registry'.tasks = [registry.tasks EXCEPT ![cmd[p].task].loop = TRUE]
<1>1. CASE UNCHANGED vars
  BY <1>1 DEF vars, akctlVars
<1>2. ASSUME NEW t \in Tasks, WorkerReports(t) \/ WindowVanishes(t)
      PROVE  registry'.tasks = registry.tasks
  BY <1>2 DEF WorkerReports, WindowVanishes
<1>3. ASSUME NEW p \in Procs,
             \/ PatrolBegin(p) \/ PatrolLoad(p) \/ PatrolEnd(p) \/ PatrolPlan(p)
             \/ BatchBegin(p) \/ BatchRow(p) \/ BatchEnd(p)
             \/ StartCheck(p) \/ StartSpace(p) \/ StartWorker(p) \/ StartMonitor(p) \/ StopBegin(p)
      PROVE  registry'.tasks = registry.tasks
  BY <1>3 DEF PatrolBegin, PatrolLoad, PatrolEnd, PatrolPlan, BatchBegin, BatchRow, BatchEnd,
              StartCheck, StartSpace, StartWorker, StartMonitor, StopBegin, Begin, akctlVars
<1>4. ASSUME NEW p \in Procs,
             \/ OrchestratorLoad(p) \/ OrchestratorStart(p) \/ StopLoad(p) \/ StopMark(p)
             \/ StopKill(p) \/ StopOrchestrator(p) \/ StopWrite(p)
      PROVE  registry'.tasks = registry.tasks
  BY <1>4, SeqOrchestrator, SeqStop
<1>5. ASSUME NEW p \in Procs, StartLoop(p)
      PROVE  \/ registry'.tasks = registry.tasks
             \/ /\ registry.tasks[cmd[p].task] # None
                /\ registry'.tasks = [registry.tasks EXCEPT ![cmd[p].task].loop = TRUE]
  BY <1>5, SeqLoop
<1>6. ASSUME NEW p \in Procs, StartRecord(p)
      PROVE  registry'.tasks =
               [registry.tasks EXCEPT ![cmd[p].task] = NewRecord(cmd[p].place, FALSE)]
  BY <1>6, SeqRecord
<1>7. ASSUME NEW p \in Procs, Command(p)
      PROVE  \/ registry'.tasks = registry.tasks \/ StartRecord(p) \/ StartLoop(p)
  BY <1>3, <1>4, <1>7, NotOneByOne DEF Command
<1> QED
  BY <1>1, <1>2, <1>5, <1>6, <1>7, NextIs

\* No command drops the record of a worker: what stop-task, cleanup-panes and
\* stop-all write back is the history they have read.
THEOREM HistoryIsKept == Spec => HistoryKept
<1>1. ASSUME TypeInv, SeqInv, [Next]_vars, ~Overlapping
      PROVE  KeepsRecords
  <2>1. OneByOne
    BY <1>1 DEF SeqInv
  <2>2. registry.tasks \in TaskRecords
    BY <1>1 DEF TypeInv, RegistryOK, Registries
  <2>3. CASE registry'.tasks = registry.tasks
    BY <2>3 DEF KeepsRecords
  <2>4. ASSUME NEW p \in Procs, StartRecord(p),
               registry'.tasks =
                 [registry.tasks EXCEPT ![cmd[p].task] = NewRecord(cmd[p].place, FALSE)]
        PROVE  KeepsRecords
    <3>1. NewRecord(cmd[p].place, FALSE) # None
      <4>1. cmd[p].place \in Place
        BY <1>1, <2>4 DEF TypeInv, CommandsOK, CommandOK, StartRecord, At, StartPcs
      <4> QED
        BY <4>1, NewRecordOK, NoneIsNothing
    <3> HIDE DEF NewRecord
    <3> QED
      BY <2>2, <2>4, <3>1 DEF KeepsRecords, TaskRecords
  <2>5. ASSUME NEW p \in Procs, registry.tasks[cmd[p].task] # None, StartLoop(p),
               registry'.tasks = [registry.tasks EXCEPT ![cmd[p].task].loop = TRUE]
        PROVE  KeepsRecords
    <3>1. cmd[p].task \in Tasks
      BY <1>1, <2>5 DEF TypeInv, CommandsOK, CommandOK, StartLoop, At, StartPcs, TaskPcs
    <3>2. [registry.tasks[cmd[p].task] EXCEPT !.loop = TRUE] \in Record
      BY <2>2, <2>5, <3>1 DEF TaskRecords, Record
    <3> QED
      BY <2>2, <2>5, <3>1, <3>2, NoneIsNothing DEF KeepsRecords, TaskRecords
  <2> QED
    BY <1>1, <2>1, <2>3, <2>4, <2>5, RecordsMove
<1>2. TypeInv /\ SeqInv /\ [Next]_vars => [~Overlapping => KeepsRecords]_vars
  BY <1>1
<1> QED
  BY <1>2, TypeInit, TypeStep, SeqInit, SeqStep, PTL DEF Spec, HistoryKept

-----------------------------------------------------------------------------
(* The places that are held                                                *)

\* The places that are held can be counted, on each GPU too.
LEMMA HeldFinite ==
  /\ IsFiniteSet(Held) /\ Cardinality(Held) \in Nat
  /\ \A g : IsFiniteSet(HeldOn(g)) /\ Cardinality(HeldOn(g)) \in Nat
<1>1. IsFiniteSet(Held)
  BY AkctlAssumptions, FS_Subset DEF Held
<1>2. ASSUME NEW g
      PROVE  IsFiniteSet(HeldOn(g))
  BY <1>1, FS_Subset DEF HeldOn
<1> QED
  BY <1>1, <1>2, FS_CardinalityType

\* The worker of a task has not ended.
Holding(t) ==
  \/ space[t] \notin TerminalStates
  \/ space[t] = "cancelled" /\ worker[t] # None

\* A task with a record does not come back once it has ended.
LEMMA HoldingEnds ==
  ASSUME TypeInv, OneByOne, ~Overlapping, [Next]_vars, NEW t \in Tasks,
         registry.tasks[t] # None, Holding(t)'
  PROVE  Holding(t)
<1>1. AkctlTypeOK /\ \A p \in Procs : cmd[p].pc \in TaskPcs => cmd[p].task \in Tasks
  BY DEF TypeInv, CommandsOK, CommandOK
<1>2. CASE UNCHANGED <<space, worker>>
  BY <1>2 DEF Holding
<1>3. ASSUME NEW u \in Tasks, WorkerReports(u) \/ WindowVanishes(u)
      PROVE  Holding(t)
  <2>1. CASE t # u
    BY <1>1, <1>3, <2>1 DEF WorkerReports, WindowVanishes, AkctlTypeOK, Holding
  <2>2. CASE t = u
    BY <1>1, <1>3, <2>2, NoneIsNothing
    DEF WorkerReports, WindowVanishes, AkctlTypeOK, Holding, OneByOne, SeqWorld, TerminalStates,
       Statuses
  <2> QED
    BY <2>1, <2>2
<1>4. ASSUME NEW p \in Procs, StartSpace(p) \/ StartWorker(p)
      PROVE  Holding(t)
  <2>1. cmd[p].pc \in {"space", "worker"} /\ cmd[p].task \in Tasks
    BY <1>1, <1>4 DEF StartSpace, StartWorker, At, TaskPcs, StartPcs
  <2>2. t # cmd[p].task
    BY <2>1 DEF OneByOne, SeqCommand, FreshPcs
  <2>3. space'[t] = space[t] /\ worker'[t] = worker[t]
    BY <1>1, <1>4, <2>1, <2>2 DEF StartSpace, StartWorker, WorkerStarted, AkctlTypeOK
  <2> QED
    BY <2>3 DEF Holding
<1>5. ASSUME NEW p \in Procs, StopMark(p)
      PROVE  Holding(t)
  <2>1. cmd[p].pc = "mark" /\ Copy(p).tasks = registry.tasks
    BY <1>5 DEF StopMark, At, OneByOne, SeqCommand, CopyPcs, Copy
  <2>2. PICK u \in cmd[p].left :
          LET ended == TaskStatus(Copy(p).tasks, u) \in TerminalStates
              marks == ~ended /\ cmd[p].op # "cleanup"
              smoke == Copy(p).tasks[u].smoke
          IN  space' = IF marks /\ ~smoke THEN [space EXCEPT ![u] = "cancelled"] ELSE space
    BY <1>5 DEF StopMark
  <2>3. u \in Tasks
    BY <2>1, <2>2 DEF TypeInv, CommandsOK, CommandOK, StopPcs
  <2>4. space'[t] = space[t] \/ space[t] \notin TerminalStates
    BY <1>1, <2>1, <2>2, <2>3 DEF AkctlTypeOK, TaskStatus
  <2> QED
    BY <1>5, <2>4 DEF StopMark, Holding
<1>6. ASSUME NEW p \in Procs, StopKill(p)
      PROVE  Holding(t)
  <2>1. cmd[p].task \in Tasks
    BY <1>1, <1>6 DEF StopKill, At, TaskPcs
  <2>2. space' = space /\ (worker'[t] = worker[t] \/ worker'[t] = None)
    BY <1>1, <1>6, <2>1 DEF StopKill, AkctlTypeOK
  <2> QED
    BY <2>2 DEF Holding
<1>7. ASSUME NEW p \in Procs, Command(p), ~StartSpace(p), ~StartWorker(p), ~StopMark(p), ~StopKill(p)
      PROVE  UNCHANGED <<space, worker>>
  BY <1>7, NotOneByOne
  DEF Command, PatrolBegin, PatrolLoad, PatrolEnd, PatrolPlan, BatchBegin, BatchRow, BatchEnd,
      StartCheck, StartRecord, StartMonitor, StartLoop, OrchestratorLoad, OrchestratorStart,
      StopBegin, StopLoad, StopOrchestrator, StopWrite, Begin, akctlVars
<1>8. CASE UNCHANGED vars
  BY <1>2, <1>8 DEF vars, akctlVars
<1> QED
  BY <1>2, <1>3, <1>4, <1>5, <1>6, <1>7, <1>8, NextIs

\* What the step leaves of the places: those of the tasks that have not ended,
\* and the one a record has just been written for.
LEMMA HeldMoves ==
  ASSUME TypeInv, OneByOne, ~Overlapping, [Next]_vars
  PROVE  \/ /\ Held' \subseteq Held
            /\ \A t \in Held' : /\ registry'.tasks[t].gpu = registry.tasks[t].gpu
                                /\ registry'.tasks[t].slot = registry.tasks[t].slot
         \/ \E p \in Procs :
              /\ StartRecord(p)
              /\ Held' \subseteq Held \cup {cmd[p].task}
              /\ registry'.tasks[cmd[p].task] = NewRecord(cmd[p].place, FALSE)
              /\ \A t \in Tasks : t # cmd[p].task => registry'.tasks[t] = registry.tasks[t]
<1>1. registry.tasks \in TaskRecords /\ \A p \in Procs : cmd[p].pc \in TaskPcs => cmd[p].task \in Tasks
  BY DEF TypeInv, RegistryOK, Registries, CommandsOK, CommandOK
<1>2. Held = {t \in Tasks : registry.tasks[t] # None /\ Holding(t)}
  BY DEF Held, Holding
<1>3. Held' = {t \in Tasks : registry'.tasks[t] # None /\ Holding(t)'}
  BY DEF Held, Holding
<1>4. CASE registry'.tasks = registry.tasks
  BY <1>2, <1>3, <1>4, HoldingEnds
<1>5. ASSUME NEW p \in Procs, StartLoop(p), registry.tasks[cmd[p].task] # None,
             registry'.tasks = [registry.tasks EXCEPT ![cmd[p].task].loop = TRUE]
      PROVE  /\ Held' \subseteq Held
             /\ \A t \in Held' : /\ registry'.tasks[t].gpu = registry.tasks[t].gpu
                                 /\ registry'.tasks[t].slot = registry.tasks[t].slot
  <2>1. cmd[p].task \in Tasks
    BY <1>1, <1>5 DEF StartLoop, At, TaskPcs, StartPcs
  <2>2. \A t \in Tasks : registry'.tasks[t] # None => registry.tasks[t] # None
    BY <1>1, <1>5, <2>1 DEF TaskRecords
  <2>3. \A t \in Tasks : registry.tasks[t] # None =>
          /\ registry'.tasks[t].gpu = registry.tasks[t].gpu
          /\ registry'.tasks[t].slot = registry.tasks[t].slot
    BY <1>1, <1>5, <2>1 DEF TaskRecords, Record
  <2> QED
    BY <1>2, <1>3, <2>2, <2>3, HoldingEnds
<1>6. ASSUME NEW p \in Procs, StartRecord(p),
             registry'.tasks = [registry.tasks EXCEPT ![cmd[p].task] = NewRecord(cmd[p].place, FALSE)]
      PROVE  /\ Held' \subseteq Held \cup {cmd[p].task}
             /\ registry'.tasks[cmd[p].task] = NewRecord(cmd[p].place, FALSE)
             /\ \A t \in Tasks : t # cmd[p].task => registry'.tasks[t] = registry.tasks[t]
  <2>1. cmd[p].task \in Tasks
    BY <1>1, <1>6 DEF StartRecord, At, TaskPcs, StartPcs
  <2> HIDE DEF NewRecord
  <2>2. /\ registry'.tasks[cmd[p].task] = NewRecord(cmd[p].place, FALSE)
        /\ \A t \in Tasks : t # cmd[p].task => registry'.tasks[t] = registry.tasks[t]
    BY <1>1, <1>6, <2>1 DEF TaskRecords
  <2> QED
    BY <1>2, <1>3, <2>2, HoldingEnds
<1> QED
  BY <1>4, <1>5, <1>6, RecordsMove

\* Between stops, what is held is what is active.
LEMMA HeldIsActive ==
  ASSUME OneByOne, \A p \in Procs : cmd[p].pc # "kill"
  PROVE  Held = Active(registry.tasks)
BY DEF OneByOne, SeqWorld, Held, Active, TaskStatus, TerminalStates
\* A command that has a free place has just chosen it, or has kept it.
LEMMA FreshMoves ==
  ASSUME TypeInv, OneByOne, ~Overlapping, NEW p \in Procs, Command(p), cmd'[p].pc \in FreshPcs
  PROVE  \/ PatrolPlan(p) \/ BatchRow(p)
         \/ cmd[p].pc \in FreshPcs /\ cmd'[p].place = cmd[p].place /\ cmd'[p].op = cmd[p].op
<1>1. cmd \in [Procs -> Commands]
  BY DEF TypeInv, CommandsOK
<1>2. ASSUME NEW c, Begin(p, c)
      PROVE  cmd'[p] = c
  BY <1>1, <1>2 DEF Begin
<1>3. ~Ends(p) /\ ~StartFails(p)
  <2>1. ~StartFails(p)
    BY FailsBack DEF FreshPcs
  <2> QED
    BY <2>1 DEF StartFails
<1>4. ASSUME NEW pc, Goes(p, pc) \/ Loads(p, pc)
      PROVE  cmd'[p].pc = pc /\ cmd'[p].place = cmd[p].place /\ cmd'[p].op = cmd[p].op
  BY <1>1, <1>4 DEF Goes, Loads, Commands
<1>5. CASE PatrolBegin(p)
  BY <1>2, <1>5 DEF PatrolBegin, Idle, FreshPcs
<1>6. CASE PatrolLoad(p)
  BY <1>1, <1>3, <1>6 DEF PatrolLoad, Commands, FreshPcs
<1>7. CASE PatrolEnd(p)
  BY <1>3, <1>7 DEF PatrolEnd
<1>8. CASE BatchBegin(p)
  BY <1>2, <1>8 DEF BatchBegin, Idle, FreshPcs
<1>9. CASE BatchEnd(p)
  BY <1>3, <1>9 DEF BatchEnd
<1>10. CASE StartCheck(p)
  BY <1>3, <1>4, <1>10 DEF StartCheck, At, FreshPcs
<1>11. CASE StartSpace(p)
  BY <1>3, <1>4, <1>11 DEF StartSpace, At, FreshPcs
<1>12. CASE StartWorker(p)
  BY <1>3, <1>4, <1>12 DEF StartWorker, At, FreshPcs
<1>13. CASE StartRecord(p)
  BY <1>3, <1>4, <1>13 DEF StartRecord, FreshPcs
<1>14. CASE StartMonitor(p)
  BY <1>3, <1>4, <1>14 DEF StartMonitor, At, FreshPcs
<1>15. CASE StartLoop(p)
  <2>1. Returns(p, "row", None) => cmd'[p].pc = "row"
    BY <1>1 DEF Returns, Commands
  <2>2. cmd' = [cmd EXCEPT ![p] = [Idle EXCEPT !.op = "patrol", !.pc = "load",
                                               !.count = cmd[p].count + 1]]
          => cmd'[p].pc = "load"
    BY <1>1 DEF Idle
  <2>3. cmd'[p].pc \in {"row", "load"}
    BY <1>3, <1>15, <2>1, <2>2 DEF StartLoop
  <2> QED
    BY <2>3 DEF FreshPcs
<1>16. CASE OrchestratorLoad(p)
  BY <1>3, <1>4, <1>16 DEF OrchestratorLoad, FreshPcs
<1>17. CASE StopBegin(p)
  BY <1>2, <1>17 DEF StopBegin, Idle, FreshPcs
<1>18. CASE StopLoad(p)
  BY <1>1, <1>3, <1>18, StopLoadMarks DEF FreshPcs
<1>19. CASE StopMark(p)
  BY <1>1, <1>3, <1>19 DEF StopMark, Commands, FreshPcs
<1>20. CASE StopKill(p)
  BY <1>1, <1>3, <1>20 DEF StopKill, Commands, FreshPcs
<1>21. CASE StopOrchestrator(p)
  BY <1>1, <1>3, <1>21 DEF StopOrchestrator, Commands, FreshPcs
<1>22. CASE StopWrite(p)
  BY <1>3, <1>22 DEF StopWrite
<1>23. CASE OrchestratorStart(p)
  <2>1. cmd[p].op # "smoke"
    BY <1>23 DEF OrchestratorStart, At, OneByOne, SeqCommand, StopOps
  <2> QED
    BY <1>3, <1>4, <1>23, <2>1 DEF OrchestratorStart, FreshPcs
<1> QED
  BY NotOneByOne, <1>5, <1>6, <1>7, <1>8, <1>9, <1>10, <1>11, <1>12, <1>13, <1>14, <1>15, <1>16,
     <1>17, <1>18, <1>19, <1>20, <1>21, <1>22, <1>23 DEF Command

-----------------------------------------------------------------------------
(* The limits                                                              *)

\* patrol counts at least the places that are held.
LEMMA WorkingCounts ==
  ASSUME TypeInv, OneByOne, NEW p \in Procs, PatrolPlan(p), ~Overlapping
  PROVE  RoomAt(ChosenPlace(Working(p))) /\ FreePlace(ChosenPlace(Working(p)))
<1> DEFINE W == Working(p)
           place == ChosenPlace(W)
<1>1. Command(p) /\ cmd[p].pc = "plan"
  BY DEF Command, PatrolPlan, At
<1>2. \A q \in Procs : cmd[q].pc # "kill"
  BY <1>1, OthersIdle
<1>3. Held = Active(registry.tasks)
  BY <1>2, HeldIsActive
<1>4. \A t \in Tasks : registry.tasks[t] # None => W[t] = registry.tasks[t]
  BY <1>1, SeqNow DEF CommandOK, SeqCommand, Working
<1>5. Held \subseteq Active(W) /\ \A t \in Held : W[t] = registry.tasks[t]
  BY <1>3, <1>4 DEF Active, TaskStatus
<1>6. Candidates(W) # {} /\ ~AtCapacity(W)
  BY DEF PatrolPlan
<1>7. /\ place \in Place /\ place.gpu \in Candidates(W)
      /\ place.slot \in FreeSlots(W, place.gpu)
  BY <1>6, ChosenPlaceIs
<1> HIDE DEF place, W
<1>8. MaxActive > 0 => Cardinality(Held) < MaxActive
  <2>1. Cardinality(Held) <= Cardinality(Active(W))
    BY <1>5, ActiveFinite, FS_Subset
  <2> QED
    BY <1>6, <2>1, HeldFinite, ActiveFinite, AkctlAssumptions DEF AtCapacity
<1>9. Cardinality(HeldOn(place.gpu)) < MaxPerGpu
  <2>1. HeldOn(place.gpu) \subseteq {t \in Active(W) : W[t].gpu = place.gpu}
    BY <1>5 DEF HeldOn
  <2>2. Cardinality(HeldOn(place.gpu)) <= OnGpu(W, place.gpu)
    BY <2>1, ActiveFinite, FS_Subset DEF OnGpu
  <2>3. OnGpu(W, place.gpu) < MaxPerGpu
    BY <1>7 DEF Candidates
  <2> QED
    <3>1. /\ Cardinality(HeldOn(place.gpu)) \in Nat /\ OnGpu(W, place.gpu) \in Nat
          /\ MaxPerGpu \in Nat
      BY HeldFinite, ActiveFinite, AkctlAssumptions
    <3> QED
      BY <2>2, <2>3, <3>1
<1>10. place \in P!Places
  BY <1>7 DEF FreeSlots, P!Places, Place
<1>11. \A t \in Held : ~(registry.tasks[t].gpu = place.gpu /\ registry.tasks[t].slot = place.slot)
  BY <1>5, <1>7 DEF FreeSlots, OccupiedSlots
<1> QED
  BY <1>8, <1>9, <1>10, <1>11 DEF RoomAt, FreePlace, place, W

\* start-batch counts what is active when it comes to a row.
LEMMA RowCounts ==
  ASSUME TypeInv, OneByOne, NEW p \in Procs, BatchRow(p), ~Overlapping, cmd'[p].pc \in FreshPcs
  PROVE  RoomAt(cmd'[p].place) /\ cmd'[p].op = "batch"
<1> DEFINE row == Queue[NextRow(p)]
           skipped == \/ Duplicate(registry.tasks, row.task)
                      \/ CapacityReason(registry.tasks, row.gpu)
<1>1. Command(p) /\ cmd[p].pc = "row"
  BY DEF Command, BatchRow, At
<1>2. cmd \in [Procs -> Commands] /\ cmd[p] \in Commands /\ cmd[p].op = "batch"
  BY <1>1, SeqNow DEF CommandOK
<1>3. cmd'[p] = [cmd[p] EXCEPT !.left = @ \ {NextRow(p)},
                   !.pc = IF skipped THEN "row" ELSE "check",
                   !.task = IF skipped THEN None ELSE row.task,
                   !.place = IF skipped THEN None ELSE [gpu |-> row.gpu, slot |-> row.slot]]
  BY <1>2 DEF BatchRow
<1> HIDE DEF row, skipped
<1>4. ~skipped /\ cmd'[p].place = [gpu |-> row.gpu, slot |-> row.slot] /\ cmd'[p].op = "batch"
  BY <1>2, <1>3 DEF Commands, FreshPcs
<1>5. \A q \in Procs : cmd[q].pc # "kill"
  BY <1>1, OthersIdle
<1>6. Held = Active(registry.tasks) /\ HeldOn(row.gpu) = {t \in Active(registry.tasks) :
                                                          registry.tasks[t].gpu = row.gpu}
  BY <1>5, HeldIsActive DEF HeldOn
<1>7. ~CapacityReason(registry.tasks, row.gpu)
  BY <1>4 DEF skipped
<1>8. /\ Cardinality(Held) \in Nat /\ Cardinality(HeldOn(row.gpu)) \in Nat
      /\ MaxActive \in Nat /\ MaxPerGpu \in Nat
  BY HeldFinite, AkctlAssumptions
<1>9. /\ MaxActive > 0 => Cardinality(Held) < MaxActive
      /\ MaxPerGpu > 0 => Cardinality(HeldOn(row.gpu)) < MaxPerGpu
  BY <1>6, <1>7, <1>8 DEF CapacityReason, AtCapacity, OnGpu
<1> QED
  BY <1>4, <1>9 DEF RoomAt

\* Fewer places held, with the same records.
LEMMA LimitShrinks ==
  ASSUME TypeInv, LimitInv, ~Overlapping, Held' \subseteq Held,
         \A t \in Held' : /\ registry'.tasks[t].gpu = registry.tasks[t].gpu
                          /\ registry'.tasks[t].slot = registry.tasks[t].slot
  PROVE  /\ MaxActive > 0 => Cardinality(Held') <= MaxActive
         /\ MaxPerGpu > 0 => \A g \in Gpus : Cardinality(HeldOn(g)') <= MaxPerGpu
         /\ \A place : RoomAt(place) => RoomAt(place)'
         /\ \A place : FreePlace(place) => FreePlace(place)'
<1>1. Cardinality(Held') <= Cardinality(Held) /\ Cardinality(Held') \in Nat
  BY HeldFinite, FS_Subset, FS_CardinalityType
<1>2. ASSUME NEW g
      PROVE  Cardinality(HeldOn(g)') <= Cardinality(HeldOn(g)) /\ Cardinality(HeldOn(g)') \in Nat
  <2>1. HeldOn(g)' \subseteq HeldOn(g)
    BY DEF HeldOn
  <2> QED
    BY <2>1, HeldFinite, FS_Subset, FS_CardinalityType
<1>3. MaxActive \in Nat /\ MaxPerGpu \in Nat
  BY AkctlAssumptions
<1>4. MaxActive > 0 => Cardinality(Held') <= MaxActive
  BY <1>1, <1>3, HeldFinite DEF LimitInv
<1>5. MaxPerGpu > 0 => \A g \in Gpus : Cardinality(HeldOn(g)') <= MaxPerGpu
  BY <1>2, <1>3, HeldFinite DEF LimitInv
<1>6. \A place : RoomAt(place) => RoomAt(place)'
  BY <1>1, <1>2, <1>3, HeldFinite DEF RoomAt
<1>7. \A place : FreePlace(place) => FreePlace(place)'
  BY DEF FreePlace, P!Places
<1> QED
  BY <1>4, <1>5, <1>6, <1>7

\* A set with at most one element more.
LEMMA OneMore ==
  ASSUME NEW S, IsFiniteSet(S), NEW t, t \notin S, NEW T, T \subseteq S \cup {t}
  PROVE  Cardinality(T) \in Nat /\ Cardinality(T) <= Cardinality(S) + 1
<1>1. IsFiniteSet(S \cup {t}) /\ Cardinality(S \cup {t}) = Cardinality(S) + 1
  BY FS_AddElement
<1> QED
  BY <1>1, FS_Subset, FS_CardinalityType

\* A record for which there was room.
LEMMA LimitGrows ==
  ASSUME TypeInv, OneByOne, LimitInv, ~Overlapping, NEW p \in Procs, StartRecord(p),
         Held' \subseteq Held \cup {cmd[p].task},
         registry'.tasks[cmd[p].task] = NewRecord(cmd[p].place, FALSE),
         \A t \in Tasks : t # cmd[p].task => registry'.tasks[t] = registry.tasks[t]
  PROVE  /\ MaxActive > 0 => Cardinality(Held') <= MaxActive
         /\ MaxPerGpu > 0 => \A g \in Gpus : Cardinality(HeldOn(g)') <= MaxPerGpu
<1> DEFINE t == cmd[p].task
           place == cmd[p].place
<1>1. cmd[p].pc = "record" /\ RoomAt(place)
  BY DEF StartRecord, At, LimitInv, FreshPcs
<1>2. t \notin Held
  BY <1>1 DEF OneByOne, SeqCommand, FreshPcs, Held
<1>3. MaxActive \in Nat /\ MaxPerGpu \in Nat
  BY AkctlAssumptions
<1>4. Cardinality(Held') \in Nat /\ Cardinality(Held') <= Cardinality(Held) + 1
  BY <1>2, HeldFinite, OneMore
<1>5. MaxActive > 0 => Cardinality(Held') <= MaxActive
  BY <1>1, <1>3, <1>4, HeldFinite DEF RoomAt
<1>6. ASSUME NEW g \in Gpus, MaxPerGpu > 0
      PROVE  Cardinality(HeldOn(g)') <= MaxPerGpu
  <2>1. registry'.tasks[t].gpu = place.gpu
    BY DEF NewRecord
  <2>2. CASE g = place.gpu
    <3>1. HeldOn(g)' \subseteq HeldOn(g) \cup {t} /\ t \notin HeldOn(g)
      BY <1>2 DEF HeldOn, Held
    <3>2. /\ Cardinality(HeldOn(g)') \in Nat
          /\ Cardinality(HeldOn(g)') <= Cardinality(HeldOn(g)) + 1
      BY <3>1, HeldFinite, OneMore
    <3>3. Cardinality(HeldOn(g)) < MaxPerGpu
      BY <1>1, <1>6, <2>2 DEF RoomAt
    <3> QED
      BY <1>3, <3>2, <3>3, HeldFinite
  <2>3. CASE g # place.gpu
    <3>1. HeldOn(g)' \subseteq HeldOn(g)
      BY <2>1, <2>3 DEF HeldOn, Held
    <3>2. Cardinality(HeldOn(g)') <= Cardinality(HeldOn(g)) /\ Cardinality(HeldOn(g)') \in Nat
      BY <3>1, HeldFinite, FS_Subset, FS_CardinalityType
    <3> QED
      BY <1>3, <1>6, <3>2, HeldFinite DEF LimitInv
  <2> QED
    BY <2>2, <2>3
<1> QED
  BY <1>5, <1>6

\* Every step keeps the limits: a record is written where a plan or a row has counted room,
\* and nothing but that record has taken a place since.
LEMMA LimitStep ==
  ASSUME TypeInv, SeqInv, LimitInv, [Next]_vars
  PROVE  LimitInv'
<1> SUFFICES ASSUME ~Overlapping'
             PROVE  LimitInv'
  BY DEF LimitInv
<1>1. mode' = mode
  <2>1. CASE UNCHANGED vars
    BY <2>1 DEF vars
  <2>2. CASE Next
    BY <2>2, OthersAlone, NextIs DEF WorkerReports, WindowVanishes
  <2> QED
    BY <2>1, <2>2
<1>2. ~Overlapping /\ OneByOne
  BY <1>1 DEF Overlapping, SeqInv
<1> DEFINE Limits == /\ MaxActive > 0 => Cardinality(Held') <= MaxActive
                     /\ MaxPerGpu > 0 => \A g \in Gpus : Cardinality(HeldOn(g)') <= MaxPerGpu
           Chosen(q) == cmd'[q].pc \in FreshPcs =>
                          RoomAt(cmd[q].place)' /\ (cmd'[q].op = "patrol" => FreePlace(cmd[q].place)')
<1>3. CASE /\ Held' \subseteq Held
           /\ \A t \in Held' : /\ registry'.tasks[t].gpu = registry.tasks[t].gpu
                               /\ registry'.tasks[t].slot = registry.tasks[t].slot
  <2>1. /\ Limits
        /\ \A place : RoomAt(place) => RoomAt(place)'
        /\ \A place : FreePlace(place) => FreePlace(place)'
    BY <1>2, <1>3, LimitShrinks
  <2>2. ASSUME NEW q \in Procs, cmd'[q] = cmd[q]
        PROVE  Chosen(q)
    BY <1>2, <2>1, <2>2 DEF LimitInv
  <2>3. ASSUME NEW q \in Procs, Command(q)
        PROVE  Chosen(q)
    <3> SUFFICES ASSUME cmd'[q].pc \in FreshPcs
                 PROVE  RoomAt(cmd[q].place)' /\ (cmd'[q].op = "patrol" => FreePlace(cmd[q].place)')
      OBVIOUS
    <3>1. CASE PatrolPlan(q)
      <4>1. cmd'[q].place = ChosenPlace(Working(q))
        BY <3>1 DEF PatrolPlan, TypeInv, CommandsOK, Commands
      <4> QED
        BY <1>2, <2>1, <3>1, <4>1, WorkingCounts
    <3>2. CASE BatchRow(q)
      BY <1>2, <2>1, <3>2, RowCounts
    <3>3. CASE cmd[q].pc \in FreshPcs /\ cmd'[q].place = cmd[q].place /\ cmd'[q].op = cmd[q].op
      BY <1>2, <2>1, <3>3 DEF LimitInv
    <3> QED
      BY <1>2, <2>3, <3>1, <3>2, <3>3, FreshMoves
  <2>4. \A q \in Procs : Chosen(q)
    <3>1. CASE UNCHANGED vars
      BY <2>2, <3>1 DEF vars
    <3>2. ASSUME NEW p \in Procs, Command(p)
          PROVE  \A q \in Procs : Chosen(q)
      <4>1. \A q \in Procs : q # p => cmd'[q] = cmd[q]
        BY <3>2, OthersAlone
      <4> HIDE DEF Chosen
      <4> QED
        BY <2>2, <2>3, <3>2, <4>1
    <3>3. ASSUME NEW t \in Tasks, WorkerReports(t) \/ WindowVanishes(t)
          PROVE  \A q \in Procs : Chosen(q)
      BY <2>2, <3>3 DEF WorkerReports, WindowVanishes
    <3> QED
      BY <3>1, <3>2, <3>3, NextIs
  <2> QED
    BY <2>1, <2>4 DEF LimitInv
<1>4. ASSUME NEW p \in Procs, StartRecord(p),
             Held' \subseteq Held \cup {cmd[p].task},
             registry'.tasks[cmd[p].task] = NewRecord(cmd[p].place, FALSE),
             \A t \in Tasks : t # cmd[p].task => registry'.tasks[t] = registry.tasks[t]
      PROVE  LimitInv'
  <2>1. Limits
    BY <1>2, <1>4, LimitGrows
  <2>2. Command(p)
    BY <1>4 DEF Command
  <2>3. cmd'[p].pc = "monitor"
    BY <1>4 DEF StartRecord, Goes, TypeInv, CommandsOK, Commands
  <2>4. \A q \in Procs : q # p => cmd'[q].pc = "idle"
    BY <1>2, <2>2, OthersAlone, OthersIdle
  <2>5. \A q \in Procs : cmd'[q].pc \notin FreshPcs
    BY <2>3, <2>4 DEF FreshPcs
  <2> QED
    BY <2>1, <2>5 DEF LimitInv
<1> QED
  BY <1>2, <1>3, <1>4, HeldMoves

\* At first no place is held.
LEMMA LimitInit == Init => LimitInv
<1> SUFFICES ASSUME Init
             PROVE  LimitInv
  OBVIOUS
<1>1. Held = {} /\ \A g : HeldOn(g) = {}
  BY DEF Init, AkctlInit, Held, HeldOn
<1>2. \A p \in Procs : cmd[p].pc \notin FreshPcs
  BY DEF Init, Idle, FreshPcs
<1>3. Cardinality(Held) = 0 /\ \A g : Cardinality(HeldOn(g)) = 0
  BY <1>1, FS_EmptySet
<1>4. MaxActive \in Nat /\ MaxPerGpu \in Nat
  BY AkctlAssumptions
<1> QED
  BY <1>2, <1>3, <1>4 DEF LimitInv

\* Patrols and batches keep to --max-active and --max-per-gpu.
THEOREM LimitsKept == Spec => []WithinLimits
<1>1. ASSUME TypeInv, SeqInv, LimitInv
      PROVE  WithinLimits
  <2> SUFFICES ASSUME ~Overlapping
               PROVE  /\ MaxActive > 0 => Cardinality(Active(registry.tasks)) <= MaxActive
                      /\ MaxPerGpu > 0 => \A g \in Gpus : OnGpu(registry.tasks, g) <= MaxPerGpu
    BY DEF WithinLimits
  <2>1. Active(registry.tasks) \subseteq Held
    BY <1>1 DEF SeqInv, OneByOne, SeqWorld, Active, TaskStatus, Held
  <2>2. Cardinality(Active(registry.tasks)) <= Cardinality(Held)
    BY <2>1, HeldFinite, FS_Subset
  <2>3. ASSUME NEW g \in Gpus
        PROVE  OnGpu(registry.tasks, g) <= Cardinality(HeldOn(g))
    <3>1. {t \in Active(registry.tasks) : registry.tasks[t].gpu = g} \subseteq HeldOn(g)
      BY <2>1 DEF HeldOn
    <3> QED
      BY <3>1, HeldFinite, FS_Subset DEF OnGpu
  <2> QED
    <3>1. /\ Cardinality(Held) \in Nat /\ Cardinality(Active(registry.tasks)) \in Nat
          /\ \A g \in Gpus : /\ Cardinality(HeldOn(g)) \in Nat
                            /\ OnGpu(registry.tasks, g) \in Nat
      BY HeldFinite, ActiveFinite
    <3>2. MaxActive \in Nat /\ MaxPerGpu \in Nat
      BY AkctlAssumptions
    <3>3. /\ MaxActive > 0 => Cardinality(Held) <= MaxActive
          /\ MaxPerGpu > 0 => \A g \in Gpus : Cardinality(HeldOn(g)) <= MaxPerGpu
      BY <1>1 DEF LimitInv
    <3>4. MaxActive > 0 => Cardinality(Active(registry.tasks)) <= MaxActive
      BY <2>2, <3>1, <3>2, <3>3
    <3>5. MaxPerGpu > 0 => \A g \in Gpus : OnGpu(registry.tasks, g) <= MaxPerGpu
      BY <2>3, <3>1, <3>2, <3>3
    <3> QED
      BY <3>4, <3>5
<1> QED
  BY <1>1, TypeInit, TypeStep, SeqInit, SeqStep, LimitInit, LimitStep, PTL DEF Spec

-----------------------------------------------------------------------------
(* Patrol implements Placement                                             *)

PlaceOf(t) == [gpu |-> registry.tasks[t].gpu, slot |-> registry.tasks[t].slot]
Over == {t \in Tasks : mode = "patrols" /\ registry.tasks[t] # None /\ HeldPlace[t] = None}

\* The places of the refinement are those that are held.
LEMMA HeldPlaceIs ==
  ASSUME TypeInv, mode = "patrols"
  PROVE  /\ HeldPlace = [t \in Tasks |-> IF t \in Held THEN PlaceOf(t) ELSE None]
         /\ \A t \in Held : PlaceOf(t) \in Place /\ PlaceOf(t) # None
         /\ Over = {t \in Tasks : registry.tasks[t] # None /\ t \notin Held}
<1>1. HeldPlace = [t \in Tasks |-> IF t \in Held THEN PlaceOf(t) ELSE None]
  BY DEF HeldPlace, Held, PlaceOf
<1>2. ASSUME NEW t \in Held
      PROVE  PlaceOf(t) \in Place /\ PlaceOf(t) # None
  <2>1. registry.tasks[t] \in Record
    BY <1>2 DEF TypeInv, RegistryOK, Registries, TaskRecords, Held
  <2>2. PlaceOf(t) \in Place
    BY <2>1 DEF PlaceOf, Record, Place
  <2> QED
    BY <2>2, NoneIsNothing
<1> HIDE DEF PlaceOf
<1> QED
  BY <1>1, <1>2 DEF Over, Held

\* Whichever task ends, its place is given up for good.
LEMMA OneEnds ==
  ASSUME TypeInv, OneByOne, [Next]_vars, mode = "patrols", mode' = mode, TypeInv', NEW u \in Tasks,
         registry'.tasks = registry.tasks,
         \A t \in Tasks : t # u /\ registry.tasks[t] # None => (Holding(t)' <=> Holding(t))
  PROVE  P!Finish(u) \/ UNCHANGED <<HeldPlace, Over>>
<1>1. ~Overlapping
  BY DEF Overlapping
<1>2. /\ Held = {t \in Tasks : registry.tasks[t] # None /\ Holding(t)}
      /\ Held' = {t \in Tasks : registry.tasks[t] # None /\ Holding(t)'}
  BY DEF Held, Holding
<1>3. Held' \subseteq Held /\ Held \subseteq Held' \cup {u}
  BY <1>1, <1>2, HoldingEnds
<1>4. /\ HeldPlace = [t \in Tasks |-> IF t \in Held THEN PlaceOf(t) ELSE None]
      /\ HeldPlace' = [t \in Tasks |-> IF t \in Held' THEN PlaceOf(t) ELSE None]
      /\ Over = {t \in Tasks : registry.tasks[t] # None /\ t \notin Held}
      /\ Over' = {t \in Tasks : registry.tasks[t] # None /\ t \notin Held'}
      /\ \A t \in Tasks : PlaceOf(t)' = PlaceOf(t)
  <2>1. \A t \in Tasks : PlaceOf(t)' = PlaceOf(t)
    BY DEF PlaceOf
  <2>2. HeldPlace' = [t \in Tasks |-> IF t \in Held' THEN PlaceOf(t)' ELSE None]
    BY DEF HeldPlace, Held, PlaceOf
  <2>3. Held' \subseteq Tasks /\ \A t \in Held' : PlaceOf(t) # None
    BY <1>2, <1>3, HeldPlaceIs
  <2> HIDE DEF PlaceOf
  <2>4. HeldPlace' = [t \in Tasks |-> IF t \in Held' THEN PlaceOf(t) ELSE None]
    BY <2>1, <2>2
  <2>5. Over' = {t \in Tasks : registry.tasks[t] # None /\ t \notin Held'}
    BY <2>3, <2>4 DEF Over
  <2> QED
    BY <2>1, <2>4, <2>5, HeldPlaceIs
<1> HIDE DEF PlaceOf
<1>5. CASE u \in Held /\ u \notin Held'
  <2>1. Held' = Held \ {u} /\ registry.tasks[u] # None
    BY <1>2, <1>3, <1>5
  <2>2. u \notin Over /\ Over' = Over \cup {u}
    BY <1>4, <1>5, <2>1
  <2>3. HeldPlace' = [HeldPlace EXCEPT ![u] = None]
    BY <1>4, <2>1
  <2> QED
    BY <2>2, <2>3 DEF P!Finish, Over
<1>6. CASE ~(u \in Held /\ u \notin Held')
  <2>1. Held' = Held
    BY <1>3, <1>6
  <2> QED
    BY <1>4, <2>1
<1> QED
  BY <1>5, <1>6

\* A record: a free place is taken, or the worker has ended before it.
LEMMA RecordPlaces ==
  ASSUME TypeInv, OneByOne, LimitInv, [Next]_vars, mode = "patrols", mode' = mode, TypeInv',
         NEW p \in Procs, StartRecord(p), NEW t, t = cmd[p].task, NEW place, place = cmd[p].place
  PROVE  P!Next
<1>1. ~Overlapping /\ Command(p)
  BY DEF Overlapping, Command
<1>2. cmd[p].pc = "record" /\ UNCHANGED <<space, worker>>
  BY DEF StartRecord, At
<1>3. /\ t \in Tasks /\ registry.tasks[t] = None /\ place \in Place
      /\ cmd[p].op = "patrol" /\ registry.tasks \in TaskRecords
  <2>1. SeqCommand(cmd[p]) /\ CommandOK(p, cmd[p]) /\ registry \in Registries
    BY <1>1, <1>2, SeqNow
  <2> QED
    BY <1>2, <2>1 DEF SeqCommand, CommandOK, FreshPcs, TaskPcs, StartPcs, StopOps, Starting, Registries
<1>4. RoomAt(place) /\ FreePlace(place)
  BY <1>1, <1>2, <1>3 DEF LimitInv, FreshPcs
<1>5. registry'.tasks = [registry.tasks EXCEPT ![t] = NewRecord(place, FALSE)]
  BY <1>1, SeqRecord
<1>6. /\ \A u \in Tasks : u # t => registry'.tasks[u] = registry.tasks[u]
      /\ registry'.tasks[t] = NewRecord(place, FALSE) /\ registry'.tasks[t] # None
  <2>1. NewRecord(place, FALSE) # None
    BY <1>3, NewRecordOK, NoneIsNothing
  <2> HIDE DEF NewRecord
  <2> QED
    BY <1>3, <1>5, <2>1 DEF TaskRecords
<1>7. \A u : Holding(u)' <=> Holding(u)
  BY <1>2 DEF Holding
<1>8. /\ Held = {u \in Tasks : registry.tasks[u] # None /\ Holding(u)}
      /\ Held' = {u \in Tasks : registry'.tasks[u] # None /\ Holding(u)'}
  BY DEF Held, Holding
<1>9. t \notin Held /\ Held' = IF Holding(t) THEN Held \cup {t} ELSE Held
  BY <1>3, <1>6, <1>7, <1>8
<1>10. /\ HeldPlace = [u \in Tasks |-> IF u \in Held THEN PlaceOf(u) ELSE None]
       /\ HeldPlace' = [u \in Tasks |-> IF u \in Held' THEN PlaceOf(u)' ELSE None]
       /\ Over = {u \in Tasks : registry.tasks[u] # None /\ u \notin Held}
       /\ Over' = {u \in Tasks : registry'.tasks[u] # None /\ u \notin Held'}
  <2>1. HeldPlace' = [u \in Tasks |-> IF u \in Held' THEN PlaceOf(u)' ELSE None]
    BY DEF HeldPlace, Held, PlaceOf
  <2>2. \A u \in Held' : PlaceOf(u)' # None
    <3> SUFFICES ASSUME NEW u \in Held'
                 PROVE  PlaceOf(u)' # None
      OBVIOUS
    <3>1. registry'.tasks[u] \in Record
      BY <1>8 DEF TypeInv, RegistryOK, Registries, TaskRecords
    <3>2. PlaceOf(u)' \in Place
      BY <3>1 DEF PlaceOf, Record, Place
    <3> QED
      BY <3>2, NoneIsNothing
  <2> HIDE DEF PlaceOf
  <2>3. Over' = {u \in Tasks : registry'.tasks[u] # None /\ u \notin Held'}
    BY <2>1, <2>2 DEF Over
  <2> QED
    BY <2>1, <2>3, HeldPlaceIs
<1>11. /\ \A u \in Tasks : u # t => PlaceOf(u)' = PlaceOf(u)
       /\ PlaceOf(t)' = place
  <2>1. \A u \in Tasks : u # t => PlaceOf(u)' = PlaceOf(u)
    BY <1>6 DEF PlaceOf
  <2>2. registry'.tasks[t].gpu = place.gpu /\ registry'.tasks[t].slot = place.slot
    BY <1>6 DEF NewRecord
  <2>3. place = [gpu |-> place.gpu, slot |-> place.slot]
    BY <1>3 DEF Place
  <2> QED
    BY <2>1, <2>2, <2>3 DEF PlaceOf
<1>12. t \notin Over /\ HeldPlace[t] = None
  BY <1>3, <1>9, <1>10
<1> HIDE DEF PlaceOf
<1>13. CASE Holding(t)
  <2>1. P!Placed = Held
    BY <1>10, HeldPlaceIs DEF P!Placed, Held
  <2>2. MaxActive > 0 => Cardinality(P!Placed) < MaxActive
    BY <1>4, <2>1 DEF RoomAt
  <2>2a. P!Cardinality(P!Placed) = Cardinality(P!Placed)
    BY DEF P!Cardinality, Cardinality
  <2>3. \A u \in Tasks : HeldPlace[u] # place
    <3> SUFFICES ASSUME NEW u \in Tasks
                 PROVE  HeldPlace[u] # place
      OBVIOUS
    <3>1. CASE u \in Held
      <4>1. HeldPlace[u] = [gpu |-> registry.tasks[u].gpu, slot |-> registry.tasks[u].slot]
        BY <1>10, <3>1 DEF PlaceOf
      <4> QED
        BY <1>4, <3>1, <4>1 DEF FreePlace
    <3>2. CASE u \notin Held
      BY <1>3, <1>10, <3>2, NoneIsNothing
    <3> QED
      BY <3>1, <3>2
  <2>4. HeldPlace' = [HeldPlace EXCEPT ![t] = place]
    BY <1>9, <1>10, <1>11, <1>13
  <2>5. Over' = Over
    BY <1>3, <1>6, <1>9, <1>10, <1>13
  <2>6. place \in P!Places
    BY <1>4 DEF FreePlace
  <2>7. P!Take(t, place)
    BY <1>12, <2>2, <2>3, <2>4, <2>5, <2>2a DEF P!Take, Over
  <2> QED
    BY <1>3, <2>6, <2>7 DEF P!Next
<1>14. CASE ~Holding(t)
  <2>1. HeldPlace' = HeldPlace /\ HeldPlace = [HeldPlace EXCEPT ![t] = None]
    BY <1>3, <1>9, <1>10, <1>11, <1>14
  <2>2. Over' = Over \cup {t}
    BY <1>3, <1>6, <1>9, <1>10, <1>14
  <2>3. P!Finish(t)
    BY <1>12, <2>1, <2>2 DEF P!Finish, Over
  <2> QED
    BY <1>3, <2>3 DEF P!Next
<1> QED
  BY <1>13, <1>14

\* Only the task a step is about changes its status.
LEMMA OneHolder ==
  ASSUME TypeInv, OneByOne, ~Overlapping, [Next]_vars
  PROVE  \/ UNCHANGED <<space, worker>>
         \/ \E u \in Tasks : \A t \in Tasks :
              t # u /\ registry.tasks[t] # None => (Holding(t)' <=> Holding(t))
<1>1. AkctlTypeOK /\ \A p \in Procs : cmd[p].pc \in TaskPcs => cmd[p].task \in Tasks
  BY DEF TypeInv, CommandsOK, CommandOK
<1> DEFINE OnlyAt(u) == \A t \in Tasks : t # u => space'[t] = space[t] /\ worker'[t] = worker[t]
<1>2. ASSUME NEW u \in Tasks, OnlyAt(u)
      PROVE  \A t \in Tasks : t # u /\ registry.tasks[t] # None => (Holding(t)' <=> Holding(t))
  BY <1>2 DEF Holding
<1>3. ASSUME NEW u \in Tasks, WorkerReports(u) \/ WindowVanishes(u)
      PROVE  OnlyAt(u)
  BY <1>1, <1>3 DEF WorkerReports, WindowVanishes, AkctlTypeOK
<1>4. ASSUME NEW p \in Procs, StartSpace(p) \/ StartWorker(p) \/ StopKill(p)
      PROVE  cmd[p].task \in Tasks /\ OnlyAt(cmd[p].task)
  <2>1. cmd[p].task \in Tasks
    BY <1>1, <1>4 DEF StartSpace, StartWorker, StopKill, At, TaskPcs, StartPcs
  <2> QED
    BY <1>1, <1>4, <2>1 DEF StartSpace, StartWorker, WorkerStarted, StopKill, AkctlTypeOK
<1>5. ASSUME NEW p \in Procs, StopMark(p)
      PROVE  \E u \in Tasks : OnlyAt(u)
  <2>1. PICK u \in cmd[p].left :
          LET ended == TaskStatus(Copy(p).tasks, u) \in TerminalStates
              marks == ~ended /\ cmd[p].op # "cleanup"
              smoke == Copy(p).tasks[u].smoke
          IN  space' = IF marks /\ ~smoke THEN [space EXCEPT ![u] = "cancelled"] ELSE space
    BY <1>5 DEF StopMark
  <2>2. u \in Tasks
    BY <1>5, <2>1 DEF StopMark, At, TypeInv, CommandsOK, CommandOK, StopPcs
  <2> QED
    BY <1>1, <1>5, <2>1, <2>2 DEF StopMark, AkctlTypeOK
<1>6. ASSUME NEW p \in Procs, Command(p), ~StartSpace(p), ~StartWorker(p), ~StopMark(p), ~StopKill(p)
      PROVE  UNCHANGED <<space, worker>>
  BY <1>6, NotOneByOne
  DEF Command, PatrolBegin, PatrolLoad, PatrolEnd, PatrolPlan, BatchBegin, BatchRow, BatchEnd,
      StartCheck, StartRecord, StartMonitor, StartLoop, OrchestratorLoad, OrchestratorStart,
      StopBegin, StopLoad, StopOrchestrator, StopWrite, Begin, akctlVars
<1>7. CASE UNCHANGED vars
  BY <1>7 DEF vars, akctlVars
<1> HIDE DEF OnlyAt
<1> QED
  BY <1>2, <1>3, <1>4, <1>5, <1>6, <1>7, NextIs

\* Every step of the commands is a step of Placement, or leaves its places alone.
LEMMA PlacementStep ==
  ASSUME TypeInv, SeqInv, LimitInv, TypeInv', [Next]_vars
  PROVE  [P!Next]_<<HeldPlace, Over>>
<1>1. mode' = mode
  <2>1. CASE UNCHANGED vars
    BY <2>1 DEF vars
  <2>2. CASE Next
    BY <2>2, OthersAlone, NextIs DEF WorkerReports, WindowVanishes
  <2> QED
    BY <2>1, <2>2
<1>2. CASE mode # "patrols"
  <2>1. UNCHANGED <<HeldPlace, Over>>
    BY <1>1, <1>2 DEF HeldPlace, Over
  <2> QED
    BY <2>1
<1>3. CASE mode = "patrols"
  <2>1. ~Overlapping /\ OneByOne
    BY <1>3 DEF Overlapping, SeqInv
  <2>2. CASE registry'.tasks = registry.tasks
    <3>1. CASE UNCHANGED <<space, worker>>
      BY <1>1, <2>2, <3>1 DEF HeldPlace, Over
    <3>2. ASSUME NEW u \in Tasks,
                 \A t \in Tasks : t # u /\ registry.tasks[t] # None => (Holding(t)' <=> Holding(t))
          PROVE  [P!Next]_<<HeldPlace, Over>>
      BY <1>1, <1>3, <2>1, <2>2, <3>2, OneEnds DEF P!Next
    <3> QED
      BY <2>1, <3>1, <3>2, OneHolder
  <2>3. ASSUME NEW p \in Procs, StartRecord(p)
        PROVE  P!Next
    BY <1>1, <1>3, <2>1, <2>3, RecordPlaces
  <2>4. ASSUME NEW p \in Procs, StartLoop(p), registry.tasks[cmd[p].task] # None,
               registry'.tasks = [registry.tasks EXCEPT ![cmd[p].task].loop = TRUE]
        PROVE  UNCHANGED <<HeldPlace, Over>>
    <3>1. /\ registry.tasks \in TaskRecords /\ cmd[p].task \in Tasks
          /\ registry.tasks[cmd[p].task] \in Record
      BY <2>4 DEF TypeInv, RegistryOK, Registries, TaskRecords, CommandsOK, CommandOK, StartLoop, At,
                  StartPcs, TaskPcs
    <3>2. [registry.tasks[cmd[p].task] EXCEPT !.loop = TRUE] # None
      BY <3>1, NoneIsNothing DEF Record
    <3>3. \A t \in Tasks :
            /\ registry'.tasks[t] # None <=> registry.tasks[t] # None
            /\ registry.tasks[t] # None => /\ registry'.tasks[t].gpu = registry.tasks[t].gpu
                                           /\ registry'.tasks[t].slot = registry.tasks[t].slot
      BY <2>4, <3>1, <3>2 DEF TaskRecords, Record
    <3>4. UNCHANGED <<space, worker>>
      BY <2>4 DEF StartLoop
    <3>5. HeldPlace' = HeldPlace
      BY <1>1, <3>3, <3>4 DEF HeldPlace
    <3> QED
      BY <1>1, <3>3, <3>5 DEF Over
  <2> QED
    BY <2>1, <2>2, <2>3, <2>4, RecordsMove
<1> QED
  BY <1>2, <1>3

\* One command at a time, patrol, cleanup-panes and stop-task implement Placement:
\* what PlacementProofs proves of its places holds of the workers'.
THEOREM PatrolImplementsPlacement == Spec => PlacementRefined
<1>1. Init => P!Init
  <2> SUFFICES ASSUME Init
               PROVE  P!Init
    OBVIOUS
  <2>1. HeldPlace = [t \in Tasks |-> None]
    BY DEF Init, AkctlInit, HeldPlace
  <2>2. Over = {}
    BY DEF Init, AkctlInit, Over
  <2> QED
    BY <2>1, <2>2 DEF P!Init, Over
<1>2. TypeInv /\ SeqInv /\ LimitInv /\ TypeInv' /\ [Next]_vars => [P!Next]_P!placementVars
  BY PlacementStep DEF P!placementVars, Over
<1> QED
  BY <1>1, <1>2, TypeInit, TypeStep, SeqInit, SeqStep, LimitInit, LimitStep, PTL
  DEF Spec, PlacementRefined, P!Spec

PP == INSTANCE PlacementProofs WITH place <- HeldPlace, over <- Over

\* In the patrols' runs no two workers hold one slot of a GPU, and a task whose
\* worker has ended is not placed again: what PlacementProofs proves, of Akctl.
THEOREM PatrolKeepsPlaces == Spec => [](P!PlacesApart /\ P!OverStaysOver)
<1>1. None \notin PP!Places
  BY NoneIsNothing DEF PP!Places, Place
<1>2. P!Spec => PP!Spec
  BY DEF P!Spec, PP!Spec, P!Init, PP!Init, P!Next, PP!Next, P!Take, PP!Take, P!Finish, PP!Finish,
         P!placementVars, PP!placementVars, P!Places, PP!Places, P!Placed, PP!Placed,
         P!Cardinality, PP!Cardinality, Over
<1>3. PP!Spec => []PP!PlacesApart /\ []PP!OverStaysOver
  BY <1>1, PP!PlacesStayApart, PP!OverForGood
<1>4. PP!PlacesApart /\ PP!OverStaysOver => P!PlacesApart /\ P!OverStaysOver
  BY DEF P!PlacesApart, PP!PlacesApart, P!OverStaysOver, PP!OverStaysOver, P!Placed, PP!Placed, Over
<1> QED
  BY <1>2, <1>3, <1>4, PatrolImplementsPlacement, PTL DEF PlacementRefined
==============================================================================
