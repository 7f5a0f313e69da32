----------------------------- MODULE AkctlProofs -----------------------------
(***************************************************************************)
(* What holds of the commands of akctl for any number of tasks, GPUs and   *)
(* commands: the types, that a worker is launched once, that the records   *)
(* are kept, and, of commands that run one at a time, the limits and the   *)
(* promise of Placement.                                                   *)
(***************************************************************************)
EXTENDS Akctl, FiniteSetTheorems, WellFoundedInduction, TLAPS

-----------------------------------------------------------------------------
(* Types                                                                   *)

TaskRecords == [Tasks -> Record \cup {None}]
Registries == [tasks : TaskRecords, orchestrator : OrchestratorRecord \cup {None}]

\* Where start_task is, and where a command holds a copy of the registry.
StartPcs == {"check", "space", "worker", "record", "monitor", "loop"}
CopyPcs == {"orchestratorWindow", "space", "worker", "record", "monitorLoopWrite",
            "mark", "kill", "stopWrite", "smokeCleanWrite"}
StopPcs == {"mark", "kill", "stopWrite"}
StopOps == {"cleanup", "stop", "stopAll", "stopOrchestrator"}
TaskPcs == StartPcs \cup {"kill", "monitorLoop", "monitorLoopWrite", "smokeClean",
                          "smokeCleanWrite"}
Pcs == {"idle", "load", "plan", "row", "orchestrator", "orchestratorLoop", "stopping"}
         \cup TaskPcs \cup CopyPcs
Ops == Starting \cup {"smoke", "orchestrator", "orchestratorLoop", "monitorLoop", "smokeClean"}
         \cup StopOps

Commands ==
  [op : Ops \cup {None}, pc : Pcs, copy : Registries \cup {None},
   working : TaskRecords \cup {None}, task : Tasks \cup {None}, place : Place \cup {None},
   left : SUBSET (Tasks \cup Nat), count : Nat]

\* What is set where a command is.
CommandOK(p, c) ==
  /\ c.pc \in StartPcs => c.place \in Place /\ c.op \in Starting \cup {"smoke"}
  /\ c.op = "smoke" /\ c.pc \in {"orchestrator", "orchestratorWindow"} =>
       c.place \in Place /\ c.task \in Tasks
  /\ c.pc \in TaskPcs => c.task \in Tasks
  /\ c.pc \in CopyPcs => c.copy \in Registries
  /\ c.pc \in {"load", "plan"} => c.op = "patrol"
  /\ c.pc = "row" => c.op = "batch"
  /\ c.pc = "plan" \/ (c.pc \in StartPcs /\ c.op = "patrol") => c.working \in TaskRecords
  /\ c.op = "batch" /\ c.pc # "idle" => c.left \subseteq DOMAIN Queue
  /\ c.pc \in {"stopping"} \cup StopPcs => c.op \in StopOps
  /\ c.pc \in StopPcs => c.left \subseteq Tasks /\ \A t \in c.left : c.copy.tasks[t] # None
  /\ c.pc = "monitorLoopWrite" => c.copy.tasks[c.task] # None
  /\ c.op \in Starting /\ c.pc # "idle" => p \in Launchers

CommandsOK ==
  /\ mode \in Modes /\ commands \in Nat
  /\ cmd \in [Procs -> Commands]
  /\ \A p \in Procs : CommandOK(p, cmd[p])

RegistryOK == registry \in Registries

TypeInv == RegistryOK /\ CommandsOK /\ AkctlTypeOK

\* Where the commands that act on tasks are.
LEMMA PcsAre ==
  /\ {"row", "orchestrator", "check", "kill", "mark"} \subseteq Pcs
  /\ {"start", "smoke"} \subseteq Ops
<1>1. {"row", "orchestrator"} \subseteq Pcs
  BY DEF Pcs
<1>2. "check" \in StartPcs /\ "mark" \in CopyPcs /\ "kill" \in CopyPcs
  BY DEF StartPcs, CopyPcs
<1>3. StartPcs \subseteq Pcs /\ CopyPcs \subseteq Pcs
  BY DEF Pcs, TaskPcs
<1>4. {"start", "smoke"} \subseteq Ops
  BY DEF Ops, Starting
<1> QED
  BY <1>1, <1>2, <1>3, <1>4

\* A command that goes on with other work is still one.
LEMMA GoesOnOK ==
  ASSUME NEW c \in Commands, NEW pc \in Pcs, NEW t \in Tasks \cup {None},
         NEW place \in Place \cup {None}, NEW left \in SUBSET (Tasks \cup Nat)
  PROVE  /\ [c EXCEPT !.pc = pc, !.task = t, !.place = place] \in Commands
         /\ [c EXCEPT !.left = left, !.task = t, !.pc = pc] \in Commands
         /\ [c EXCEPT !.left = left, !.pc = pc, !.task = t, !.place = place] \in Commands
<1> HIDE DEF Pcs, Ops, Place, Registries, TaskRecords
<1>1. [c EXCEPT !.pc = pc, !.task = t, !.place = place] \in Commands
  BY DEF Commands
<1>2. [c EXCEPT !.left = left, !.task = t, !.pc = pc] \in Commands
  BY DEF Commands
<1>3. [c EXCEPT !.left = left, !.pc = pc, !.task = t, !.place = place] \in Commands
  BY DEF Commands
<1> QED
  BY <1>1, <1>2, <1>3

\* The load of a stop command goes to the marks, or ends it.
LEMMA StopLoadMarks ==
  ASSUME cmd \in [Procs -> Commands], NEW p \in Procs, StopLoad(p)
  PROVE  Ends(p) \/ cmd'[p].pc = "mark"
<1>1. \A tasks : [cmd[p] EXCEPT !.pc = "mark", !.copy = registry, !.task = None,
                                !.left = tasks].pc = "mark"
  BY DEF Commands
<1>2. \/ Ends(p)
      \/ \E tasks : cmd' = [cmd EXCEPT ![p] = [cmd[p] EXCEPT !.pc = "mark", !.copy = registry,
                                                             !.task = None, !.left = tasks]]
  BY DEF StopLoad
<1> QED
  BY <1>1, <1>2

\* A step of one command.
LEMMA CommandSteps ==
  ASSUME CommandsOK, NEW p \in Procs, NEW c \in Commands, CommandOK(p, c),
         mode' = mode, commands' \in Nat, cmd' = [cmd EXCEPT ![p] = c]
  PROVE  CommandsOK'
BY DEF CommandsOK, CommandOK, Queue

\* A command that ends.
LEMMA IdleOK ==
  ASSUME NEW p \in Procs
  PROVE  Idle \in Commands /\ CommandOK(p, Idle)
BY DEF Idle, Commands, CommandOK, StartPcs, CopyPcs, StopPcs, TaskPcs, Pcs

\* A command that has ended, whichever way, waits for nothing.
LEMMA EndsOK ==
  ASSUME CommandsOK, NEW p \in Procs, mode' = mode, commands' \in Nat, Ends(p)
  PROVE  CommandsOK'
BY IdleOK, CommandSteps DEF Ends

\* What a plan, and a row, choose.
LEMMA BeginsOK ==
  ASSUME TypeInv, NEW p \in Procs, NEW c \in Commands, CommandOK(p, c), Begin(p, c)
  PROVE  TypeInv'
<1>1. CommandsOK'
  <2>1. commands' \in Nat /\ mode' = mode
    BY DEF Begin, TypeInv, CommandsOK
  <2> QED
    BY <2>1, CommandSteps DEF Begin, TypeInv
<1> QED
  BY <1>1 DEF Begin, TypeInv, AkctlTypeOK, RegistryOK, akctlVars

\* A command that goes back to its plan or its next row has what these need.
LEMMA ReturnsOK ==
  ASSUME CommandsOK, NEW p \in Procs, mode' = mode, commands' \in Nat,
         NEW pc, NEW working \in TaskRecords \cup {None}, Returns(p, pc, working),
         \/ pc = "plan" /\ cmd[p].op = "patrol" /\ working \in TaskRecords
         \/ pc = "row" /\ cmd[p].op = "batch",
         cmd[p].pc # "idle"
  PROVE  CommandsOK'
<1> DEFINE c == [cmd[p] EXCEPT !.pc = pc, !.working = working, !.copy = None,
                               !.task = None, !.place = None]
<1>1. cmd[p] \in Commands /\ CommandOK(p, cmd[p])
  BY DEF CommandsOK
<1>2. c \in Commands
  BY <1>1 DEF Commands, Pcs
<1>3. CommandOK(p, c)
  BY <1>1, <1>2 DEF CommandOK, Commands, StartPcs, TaskPcs, CopyPcs, StopPcs, StopOps, Starting
<1> QED
  BY <1>2, <1>3, CommandSteps DEF Returns

\* What start_task writes of a task is a record.
LEMMA NewRecordOK ==
  ASSUME NEW place \in Place, NEW smoke \in BOOLEAN
  PROVE  NewRecord(place, smoke) \in Record
BY DEF NewRecord, Record, Place

\* A launch that fails leaves its command, or its patrol or batch, in a place they know.
LEMMA StartFailsOK ==
  ASSUME CommandsOK, NEW p \in Procs, mode' = mode, commands' \in Nat,
         cmd[p].pc \in StartPcs, StartFails(p)
  PROVE  CommandsOK'
<1>1. CommandOK(p, cmd[p]) /\ cmd[p].pc # "idle"
  BY DEF CommandsOK, StartPcs
<1>2. CASE Ends(p)
  BY <1>2, EndsOK
<1>3. CASE cmd[p].op = "patrol" /\
           Returns(p, "plan",
               [Working(p) EXCEPT ![cmd[p].task] = NewRecord(cmd[p].place, FALSE)])
  <2>1. cmd[p].task \in Tasks /\ Working(p) \in TaskRecords /\ cmd[p].place \in Place
    BY <1>1, <1>3 DEF CommandOK, TaskPcs, Working
  <2>2. [Working(p) EXCEPT ![cmd[p].task] = NewRecord(cmd[p].place, FALSE)] \in TaskRecords
    BY <2>1, NewRecordOK DEF TaskRecords
  <2> QED
    BY <1>1, <1>3, <2>2, ReturnsOK
<1>4. CASE cmd[p].op = "batch" /\ Returns(p, "row", None)
  BY <1>1, <1>4, ReturnsOK
<1> QED
  BY <1>2, <1>3, <1>4 DEF StartFails

-----------------------------------------------------------------------------
(* The steps of patrol and start-batch                                     *)

\* The least element of a set of numbers, which the CHOOSEs of the model take.
LEMMA LeastNat ==
  ASSUME NEW S, S \subseteq Nat, S # {}
  PROVE  \E m \in S : \A n \in S : m <= n
<1> DEFINE R == {ss \in Nat \X Nat : ss[1] < ss[2]}
<1>1. IsWellFoundedOn(R, Nat)
  BY NatLessThanWellFounded DEF OpToRel
<1>2. PICK m \in S : \A n \in S : ~ (<<n, m>> \in R)
  <2> HIDE DEF R
  <2> QED
    BY <1>1, WFMin
<1>3. ASSUME NEW n \in S
      PROVE  m <= n
  <2>1. <<n, m>> \in Nat \X Nat /\ <<n, m>>[1] = n /\ <<n, m>>[2] = m
    OBVIOUS
  <2>2. ~(n < m)
    BY <1>2, <2>1
  <2> QED
    BY <2>2
<1> QED
  BY <1>3

\* The rows of the batch are numbered from 1, and each names a task, a GPU and a slot.
LEMMA QueueOK ==
  ASSUME mode \in Modes
  PROVE  /\ DOMAIN Queue \subseteq Nat
         /\ \A i \in DOMAIN Queue : Queue[i] \in [task : Tasks, gpu : Gpus, slot : Nat]
<1> DEFINE Row == [task : Tasks, gpu : Gpus, slot : Nat]
<1>1. Queue \in Seq(Row)
  BY CommandAssumptions DEF Queue, Rows
<1>2. \A q, S : q \in Seq(S) => DOMAIN q \subseteq Nat /\ \A i \in DOMAIN q : q[i] \in S
  OBVIOUS
<1> HIDE DEF Row
<1>3. DOMAIN Queue \subseteq Nat /\ \A i \in DOMAIN Queue : Queue[i] \in Row
  BY <1>1, <1>2
<1> QED
  BY <1>3 DEF Row

\* The first pending row.
LEMMA NextPendingIs ==
  ASSUME mode \in Modes, NEW p, Pending(p) # {}
  PROVE  \E i \in Pending(p) : NextPending(p) = Queue[i].task /\ NextPending(p) \in Tasks
<1>1. Pending(p) \subseteq DOMAIN Queue
  BY DEF Pending, PendingRows
<1>2. \E i \in Pending(p) : \A j \in Pending(p) : i <= j
  BY <1>1, QueueOK, LeastNat
<1> DEFINE i == CHOOSE i \in Pending(p) : \A j \in Pending(p) : i <= j
<1>3. i \in Pending(p)
  BY <1>2
<1> QED
  BY <1>1, <1>3, QueueOK DEF NextPending

\* The next row of a batch is one of those that are left.
LEMMA NextRowIs ==
  ASSUME mode \in Modes, NEW p, cmd[p].left \subseteq DOMAIN Queue, cmd[p].left # {}
  PROVE  NextRow(p) \in cmd[p].left
<1>1. \E i \in cmd[p].left : \A j \in cmd[p].left : i <= j
  BY QueueOK, LeastNat
<1> QED
  BY <1>1 DEF NextRow

\* The tasks there are, and their numbers.
LEMMA ActiveFinite ==
  ASSUME NEW tasks
  PROVE  /\ IsFiniteSet(Active(tasks)) /\ Cardinality(Active(tasks)) \in Nat
         /\ \A g : /\ IsFiniteSet({t \in Active(tasks) : tasks[t].gpu = g})
                   /\ OnGpu(tasks, g) \in Nat
<1>1. IsFiniteSet(Active(tasks))
  BY AkctlAssumptions, FS_Subset DEF Active
<1>2. ASSUME NEW g
      PROVE  IsFiniteSet({t \in Active(tasks) : tasks[t].gpu = g})
  BY <1>1, FS_Subset
<1> QED
  BY <1>1, <1>2, FS_CardinalityType DEF OnGpu

\* choose_available_slot takes a candidate and one of its free slots.
LEMMA ChosenPlaceIs ==
  ASSUME NEW tasks, Candidates(tasks) # {}
  PROVE  /\ ChosenPlace(tasks) \in Place
         /\ ChosenPlace(tasks).gpu \in Candidates(tasks)
         /\ ChosenPlace(tasks).slot \in FreeSlots(tasks, ChosenPlace(tasks).gpu)
<1> DEFINE C == Candidates(tasks)
           Less(g, h) == \/ OnGpu(tasks, g) < OnGpu(tasks, h)
                         \/ OnGpu(tasks, g) = OnGpu(tasks, h) /\ g <= h
           gpu == CHOOSE g \in C : \A h \in C : Less(g, h)
           slot == CHOOSE s \in FreeSlots(tasks, gpu) :
                     \A r \in FreeSlots(tasks, gpu) : s <= r
<1>1. C \subseteq Nat /\ C \subseteq Gpus
  BY AkctlAssumptions DEF Candidates
<1>2. \A g : OnGpu(tasks, g) \in Nat
  BY ActiveFinite
<1>3. \E g \in C : \A h \in C : Less(g, h)
  <2> DEFINE Counts == {OnGpu(tasks, g) : g \in C}
  <2>1. PICK m \in Counts : \A n \in Counts : m <= n
    <3>1. Counts \subseteq Nat /\ Counts # {}
      BY <1>2
    <3> HIDE DEF Counts
    <3> QED
      BY <3>1, LeastNat
  <2> DEFINE Least == {g \in C : OnGpu(tasks, g) = m}
  <2>2. PICK g \in Least : \A h \in Least : g <= h
    <3>1. Least \subseteq Nat /\ Least # {}
      BY <1>1, <2>1
    <3> HIDE DEF Least
    <3> QED
      BY <3>1, LeastNat
  <2>3. \A h \in C : Less(g, h)
    BY <1>1, <1>2, <2>1, <2>2
  <2> QED
    BY <2>2, <2>3
<1>4. gpu \in C
  <2> HIDE DEF Less
  <2> QED
    BY <1>3
<1>5. FreeSlots(tasks, gpu) \subseteq Nat /\ FreeSlots(tasks, gpu) # {}
  <2> HIDE DEF gpu
  <2> QED
    BY <1>4, AkctlAssumptions DEF Candidates, FreeSlots
<1>6. slot \in FreeSlots(tasks, gpu)
  <2> HIDE DEF gpu
  <2> QED
    BY <1>5, LeastNat
<1>7. ChosenPlace(tasks) = [gpu |-> gpu, slot |-> slot]
  BY DEF ChosenPlace
<1> HIDE DEF gpu, slot
<1> QED
  BY <1>1, <1>4, <1>5, <1>6, <1>7 DEF Place

-----------------------------------------------------------------------------
(* Every step keeps the types                                              *)

\* A step that leaves the files alone.
LEMMA FilesAlone ==
  ASSUME TypeInv, CommandsOK', UNCHANGED akctlVars
  PROVE  TypeInv'
BY DEF TypeInv, AkctlTypeOK, RegistryOK, akctlVars

\* patrol_once keeps the types: it loads, plans, and begins or ends.
LEMMA PatrolTypes ==
  ASSUME TypeInv, NEW p \in Procs,
         PatrolBegin(p) \/ PatrolLoad(p) \/ PatrolEnd(p) \/ PatrolPlan(p)
  PROVE  TypeInv'
<1>1. /\ CommandsOK /\ cmd[p] \in Commands /\ CommandOK(p, cmd[p]) /\ mode \in Modes
      /\ registry \in Registries /\ registry.tasks \in TaskRecords
  BY DEF TypeInv, CommandsOK, RegistryOK, Registries
<1>2. CASE PatrolBegin(p)
  <2> DEFINE c == [Idle EXCEPT !.op = "patrol", !.pc = "load"]
  <2>1. c \in Commands
    BY IdleOK DEF Commands, Ops, Starting, Pcs
  <2>2. Begin(p, c)
    BY <1>2 DEF PatrolBegin
  <2>3. CommandOK(p, c)
    BY <2>2 DEF Begin, CommandOK, Idle, StartPcs, TaskPcs, CopyPcs, StopPcs, StopOps, Starting
  <2> QED
    BY <2>1, <2>2, <2>3, BeginsOK
<1>3. CASE PatrolLoad(p)
  <2> DEFINE c == [cmd[p] EXCEPT !.pc = "plan", !.working = registry.tasks]
  <2>1. c \in Commands /\ cmd' = [cmd EXCEPT ![p] = c]
    BY <1>1, <1>3 DEF PatrolLoad, Commands, Pcs
  <2>2. CommandOK(p, c)
    BY <1>1, <1>3 DEF PatrolLoad, At, Commands, CommandOK, StartPcs, TaskPcs, CopyPcs, StopPcs,
                      Starting
  <2>3. CommandsOK'
    BY <1>1, <1>3, <2>1, <2>2, CommandSteps DEF PatrolLoad, CommandsOK
  <2> QED
    BY <1>3, <2>3, FilesAlone DEF PatrolLoad
<1>4. CASE PatrolEnd(p)
  <2>1. CommandsOK'
    BY <1>1, <1>4, EndsOK DEF PatrolEnd, CommandsOK
  <2> QED
    BY <1>4, <2>1, FilesAlone DEF PatrolEnd
<1>5. CASE PatrolPlan(p)
  <2> DEFINE c == [cmd[p] EXCEPT !.pc = "check", !.task = NextPending(p),
                                 !.place = ChosenPlace(Working(p))]
  <2>1. NextPending(p) \in Tasks /\ ChosenPlace(Working(p)) \in Place
    BY <1>1, <1>5, NextPendingIs, ChosenPlaceIs DEF PatrolPlan
  <2>2. c \in Commands /\ cmd' = [cmd EXCEPT ![p] = c]
    <3>1. c \in Commands
      BY <1>1, <2>1, PcsAre, GoesOnOK
    <3>2. cmd' = [cmd EXCEPT ![p] = c]
      BY <1>1, <1>5 DEF PatrolPlan
    <3> QED
      BY <3>1, <3>2
  <2>3. CommandOK(p, c)
    BY <1>1, <1>5, <2>1 DEF PatrolPlan, At, Commands, CommandOK, StartPcs, TaskPcs, CopyPcs,
                            StopPcs, StopOps, Starting
  <2>4. CommandsOK'
    BY <1>1, <1>5, <2>2, <2>3, CommandSteps DEF PatrolPlan, CommandsOK
  <2> QED
    BY <1>5, <2>4, FilesAlone DEF PatrolPlan
<1> QED
  BY <1>2, <1>3, <1>4, <1>5

\* start-batch keeps the types from row to row.
LEMMA BatchTypes ==
  ASSUME TypeInv, NEW p \in Procs, BatchBegin(p) \/ BatchRow(p) \/ BatchEnd(p)
  PROVE  TypeInv'
<1>1. /\ CommandsOK /\ cmd[p] \in Commands /\ CommandOK(p, cmd[p]) /\ mode \in Modes
      /\ DOMAIN Queue \subseteq Nat
  BY QueueOK DEF TypeInv, CommandsOK
<1>2. CASE BatchBegin(p)
  <2>1. PICK pc \in {"orchestrator", "row"} :
               Begin(p, [Idle EXCEPT !.op = "batch", !.pc = pc, !.left = DOMAIN Queue])
    BY <1>2 DEF BatchBegin
  <2> DEFINE c == [Idle EXCEPT !.op = "batch", !.pc = pc, !.left = DOMAIN Queue]
  <2>2. c \in Commands
    BY <1>1, IdleOK DEF Commands, Ops, Starting, Pcs
  <2>3. CommandOK(p, c)
    BY <2>1 DEF Begin, CommandOK, Idle, StartPcs, TaskPcs, CopyPcs, StopPcs, StopOps, Starting
  <2> QED
    BY <2>1, <2>2, <2>3, BeginsOK
<1>3. CASE BatchRow(p)
  <2> DEFINE row == Queue[NextRow(p)]
             skipped == \/ Duplicate(registry.tasks, row.task)
                        \/ CapacityReason(registry.tasks, row.gpu)
             c == [cmd[p] EXCEPT !.left = @ \ {NextRow(p)},
                                 !.pc = IF skipped THEN "row" ELSE "check",
                                 !.task = IF skipped THEN None ELSE row.task,
                                 !.place = IF skipped THEN None
                                           ELSE [gpu |-> row.gpu, slot |-> row.slot]]
  <2>1. cmd[p].left \subseteq DOMAIN Queue /\ cmd[p].left # {} /\ cmd[p].op = "batch"
    BY <1>1, <1>3 DEF BatchRow, At, CommandOK
  <2>2. row \in [task : Tasks, gpu : Gpus, slot : Nat]
    BY <1>1, <2>1, NextRowIs, QueueOK
  <2>2a. row.task \in Tasks /\ [gpu |-> row.gpu, slot |-> row.slot] \in Place
    BY <2>2 DEF Place
  <2>3. cmd' = [cmd EXCEPT ![p] = c]
    BY <1>1, <1>3 DEF BatchRow
  <2> HIDE DEF row, skipped
  <2>4. c \in Commands
    <3> DEFINE left == cmd[p].left \ {NextRow(p)}
               pc == IF skipped THEN "row" ELSE "check"
               t == IF skipped THEN None ELSE row.task
               place == IF skipped THEN None ELSE [gpu |-> row.gpu, slot |-> row.slot]
    <3>1. cmd[p].left \in SUBSET (Tasks \cup Nat)
      BY <1>1 DEF Commands
    <3>2. left \in SUBSET (Tasks \cup Nat)
      BY <3>1
    <3>3. pc \in Pcs
      BY PcsAre
    <3>4. t \in Tasks \cup {None} /\ place \in Place \cup {None}
      BY <2>2a
    <3>5. c = [cmd[p] EXCEPT !.left = left, !.pc = pc, !.task = t, !.place = place]
      OBVIOUS
    <3> HIDE DEF left, pc, t, place, c
    <3> QED
      BY <1>1, <3>2, <3>3, <3>4, <3>5, GoesOnOK
  <2>5. CommandOK(p, c)
    BY <1>1, <1>3, <2>1, <2>2a DEF BatchRow, At, Commands, CommandOK, StartPcs, TaskPcs,
                                  CopyPcs, StopPcs, StopOps, Starting
  <2>6. CommandsOK'
    BY <1>1, <1>3, <2>3, <2>4, <2>5, CommandSteps DEF BatchRow, CommandsOK
  <2> QED
    BY <1>3, <2>6, FilesAlone DEF BatchRow
<1>4. CASE BatchEnd(p)
  <2>1. CommandsOK'
    BY <1>1, <1>4, EndsOK DEF BatchEnd, CommandsOK
  <2> QED
    BY <1>4, <2>1, FilesAlone DEF BatchEnd
<1> QED
  BY <1>2, <1>3, <1>4

\* start_task keeps the types up to the window of the worker.
LEMMA StartTypes ==
  ASSUME TypeInv, NEW p \in Procs,
         StartTaskBegin(p) \/ StartCheck(p) \/ StartSpace(p) \/ StartWorker(p)
  PROVE  TypeInv'
<1>1. /\ CommandsOK /\ cmd[p] \in Commands /\ CommandOK(p, cmd[p]) /\ mode \in Modes
      /\ registry \in Registries /\ registry.tasks \in TaskRecords /\ commands \in Nat
      /\ AkctlTypeOK
  BY DEF TypeInv, CommandsOK, RegistryOK, Registries
<1>2. CASE StartTaskBegin(p)
  <2>1. PICK t \in Named, g \in Gpus, op \in {"start", "smoke"} :
          Begin(p, [Idle EXCEPT !.op = op, !.task = t, !.place = [gpu |-> g, slot |-> 0],
                      !.pc = IF op = "smoke" THEN "orchestrator" ELSE "check"])
    BY <1>2 DEF StartTaskBegin
  <2> DEFINE c == [Idle EXCEPT !.op = op, !.task = t, !.place = [gpu |-> g, slot |-> 0],
                     !.pc = IF op = "smoke" THEN "orchestrator" ELSE "check"]
  <2>2. t \in Tasks /\ [gpu |-> g, slot |-> 0] \in Place
    BY CommandAssumptions DEF Place
  <2>3. c \in Commands
    <3> DEFINE i == [Idle EXCEPT !.op = op]
               pc == IF op = "smoke" THEN "orchestrator" ELSE "check"
    <3>1. i \in Commands
      BY IdleOK, PcsAre DEF Commands
    <3>2. pc \in Pcs
      BY PcsAre
    <3>3. c = [i EXCEPT !.pc = pc, !.task = t, !.place = [gpu |-> g, slot |-> 0]]
      BY DEF Idle
    <3> HIDE DEF i, pc, c
    <3>4. [i EXCEPT !.pc = pc, !.task = t, !.place = [gpu |-> g, slot |-> 0]] \in Commands
      BY <2>2, <3>1, <3>2, GoesOnOK
    <3> QED
      BY <3>3, <3>4
  <2>4. CommandOK(p, c)
    BY <2>1, <2>2 DEF Begin, CommandOK, Idle, StartPcs, TaskPcs, CopyPcs, StopPcs, StopOps, Starting
  <2> QED
    BY <2>1, <2>3, <2>4, BeginsOK
<1>3. CASE StartCheck(p)
  <2>1. CASE StartFails(p)
    BY <1>1, <1>3, <2>1, StartFailsOK, FilesAlone DEF StartCheck, At, StartPcs
  <2>2. CASE Loads(p, "space")
    <3> DEFINE c == [cmd[p] EXCEPT !.pc = "space", !.copy = registry]
    <3>1. c \in Commands /\ cmd' = [cmd EXCEPT ![p] = c]
      BY <1>1, <2>2 DEF Loads, Commands, Pcs, TaskPcs, StartPcs
    <3>2. CommandOK(p, c)
      BY <1>1, <1>3 DEF StartCheck, At, Commands, CommandOK, StartPcs, TaskPcs, CopyPcs,
                        StopPcs, StopOps, Starting
    <3>3. CommandsOK'
      BY <1>1, <1>3, <3>1, <3>2, CommandSteps DEF StartCheck
    <3> QED
      BY <1>3, <3>3, FilesAlone DEF StartCheck
  <2> QED
    BY <1>3, <2>1, <2>2 DEF StartCheck
<1>4. CASE StartSpace(p)
  <2>1. CommandsOK'
    <3>1. CASE StartFails(p)
      BY <1>1, <1>4, <3>1, StartFailsOK DEF StartSpace, At, StartPcs
    <3>2. CASE Goes(p, "worker")
      <4> DEFINE c == [cmd[p] EXCEPT !.pc = "worker"]
      <4>1. c \in Commands /\ cmd' = [cmd EXCEPT ![p] = c]
        BY <1>1, <3>2 DEF Goes, Commands, Pcs, TaskPcs, StartPcs
      <4>2. CommandOK(p, c)
        BY <1>1, <1>4 DEF StartSpace, At, Commands, CommandOK, StartPcs, TaskPcs, CopyPcs,
                          StopPcs, StopOps, Starting
      <4> QED
        BY <1>1, <1>4, <4>1, <4>2, CommandSteps DEF StartSpace
    <3> QED
      BY <1>4, <3>1, <3>2 DEF StartSpace
  <2>2. space' \in [Tasks -> Statuses \cup {None}] /\ smokeSpace' \in [Tasks -> Statuses \cup {None}]
    BY <1>1, <1>4 DEF StartSpace, AkctlTypeOK, Statuses
  <2> QED
    BY <1>4, <2>1, <2>2 DEF StartSpace, TypeInv, AkctlTypeOK, RegistryOK
<1>5. CASE StartWorker(p)
  <2>1. CommandsOK'
    <3>1. CASE StartFails(p)
      BY <1>1, <1>5, <3>1, StartFailsOK DEF StartWorker, At, StartPcs
    <3>2. CASE Goes(p, "record")
      <4> DEFINE c == [cmd[p] EXCEPT !.pc = "record"]
      <4>1. c \in Commands /\ cmd' = [cmd EXCEPT ![p] = c]
        BY <1>1, <3>2 DEF Goes, Commands, Pcs, TaskPcs, StartPcs
      <4>2. CommandOK(p, c)
        BY <1>1, <1>5 DEF StartWorker, At, Commands, CommandOK, StartPcs, TaskPcs, CopyPcs,
                          StopPcs, StopOps, Starting
      <4> QED
        BY <1>1, <1>5, <4>1, <4>2, CommandSteps DEF StartWorker
    <3> QED
      BY <1>5, <3>1, <3>2 DEF StartWorker
  <2>2. /\ worker' \in [Tasks -> {None, "real", "smoke"}] /\ launches' \in [Tasks -> Nat]
    BY <1>1, <1>5 DEF StartWorker, WorkerStarted, AkctlTypeOK
  <2> QED
    BY <1>5, <2>1, <2>2 DEF StartWorker, TypeInv, AkctlTypeOK, RegistryOK
<1> QED
  BY <1>2, <1>3, <1>4, <1>5

\* A record that is put into a registry, or taken out of one.
LEMMA RegistryWith ==
  ASSUME NEW r \in Registries, NEW t \in Tasks, NEW record \in Record \cup {None}
  PROVE  [r EXCEPT !.tasks[t] = record] \in Registries
BY DEF Registries, TaskRecords

\* A registry in which a record notes its monitor loop is a registry.
LEMMA LoopedOK ==
  ASSUME NEW r \in Registries, NEW t \in Tasks, r.tasks[t] # None
  PROVE  [r EXCEPT !.tasks[t].loop = TRUE] \in Registries
<1>1. r.tasks \in TaskRecords /\ r.tasks[t] \in Record
  BY DEF Registries, TaskRecords
<1>2. [r.tasks[t] EXCEPT !.loop = TRUE] \in Record
  BY <1>1 DEF Record
<1> QED
  BY <1>1, <1>2, RegistryWith

\* start_task keeps the types from the record of its task to the monitor loop.
LEMMA RecordTypes ==
  ASSUME TypeInv, NEW p \in Procs, StartRecord(p) \/ StartMonitor(p) \/ StartLoop(p)
  PROVE  TypeInv'
<1>1. /\ CommandsOK /\ cmd[p] \in Commands /\ CommandOK(p, cmd[p]) /\ mode \in Modes
      /\ registry \in Registries /\ registry.tasks \in TaskRecords /\ commands \in Nat
      /\ AkctlTypeOK
  BY DEF TypeInv, CommandsOK, RegistryOK, Registries
<1>2. CASE StartRecord(p)
  <2> DEFINE c == [cmd[p] EXCEPT !.pc = "monitor"]
  <2>1. c \in Commands /\ cmd' = [cmd EXCEPT ![p] = c]
    BY <1>1, <1>2 DEF StartRecord, Goes, Commands, Pcs, TaskPcs, StartPcs
  <2>2. CommandOK(p, c)
    BY <1>1, <1>2 DEF StartRecord, At, Commands, CommandOK, StartPcs, TaskPcs, CopyPcs,
                      StopPcs, StopOps, Starting
  <2>3. CommandsOK'
    BY <1>1, <1>2, <2>1, <2>2, CommandSteps DEF StartRecord
  <2>4. /\ Copy(p) \in Registries /\ cmd[p].task \in Tasks
        /\ NewRecord(cmd[p].place, Smoke(p)) \in Record
    BY <1>1, <1>2, NewRecordOK
    DEF StartRecord, At, CommandOK, StartPcs, TaskPcs, CopyPcs, Copy, Smoke
  <2>5. registry' \in Registries
    BY <1>2, <2>4, RegistryWith DEF StartRecord, WriteRegistry
  <2>6. AkctlTypeOK'
    BY <1>1, <1>2, <2>5 DEF StartRecord, AkctlTypeOK, Registries, TaskRecords
  <2> QED
    BY <2>3, <2>5, <2>6 DEF TypeInv, RegistryOK
<1>3. CASE StartMonitor(p)
  <2>1. CommandsOK'
    <3>1. CASE StartFails(p)
      BY <1>1, <1>3, <3>1, StartFailsOK DEF StartMonitor, At, StartPcs
    <3>2. CASE Goes(p, "loop")
      <4> DEFINE c == [cmd[p] EXCEPT !.pc = "loop"]
      <4>1. c \in Commands /\ cmd' = [cmd EXCEPT ![p] = c]
        BY <1>1, <3>2 DEF Goes, Commands, Pcs, TaskPcs, StartPcs
      <4>2. CommandOK(p, c)
        BY <1>1, <1>3 DEF StartMonitor, At, Commands, CommandOK, StartPcs, TaskPcs, CopyPcs,
                          StopPcs, StopOps, Starting
      <4> QED
        BY <1>1, <1>3, <4>1, <4>2, CommandSteps DEF StartMonitor
    <3> QED
      BY <1>3, <3>1, <3>2 DEF StartMonitor
  <2> QED
    BY <1>3, <2>1, FilesAlone DEF StartMonitor
<1>4. CASE StartLoop(p)
  <2>1. cmd[p].task \in Tasks /\ cmd[p].pc \in StartPcs /\ cmd[p].op \in Starting \cup {"smoke"}
    BY <1>1, <1>4 DEF StartLoop, At, CommandOK, StartPcs, TaskPcs
  <2>2. registry' \in Registries
    BY <1>1, <1>4, <2>1, LoopedOK DEF StartLoop, WriteRegistry
  <2>3. CommandsOK'
    <3>1. CASE StartFails(p)
      BY <1>1, <1>4, <2>1, <3>1, StartFailsOK DEF StartLoop
    <3>2. CASE Ends(p)
      BY <1>1, <1>4, <3>2, EndsOK DEF StartLoop
    <3>3. CASE cmd[p].op = "batch" /\ Returns(p, "row", None)
      BY <1>1, <1>4, <2>1, <3>3, ReturnsOK DEF StartLoop, StartPcs
    <3>4. CASE cmd[p].op = "patrol" /\ cmd' = [cmd EXCEPT ![p] = [Idle EXCEPT
                  !.op = "patrol", !.pc = "load", !.count = cmd[p].count + 1]]
      <4> DEFINE c == [Idle EXCEPT !.op = "patrol", !.pc = "load", !.count = cmd[p].count + 1]
      <4>1. c \in Commands
        <5>1. cmd[p].count + 1 \in Nat
          BY <1>1 DEF Commands
        <5> QED
          BY <5>1, IdleOK DEF Commands, Ops, Starting, Pcs
      <4>2. CommandOK(p, c)
        BY <1>1, <2>1, <3>4 DEF CommandOK, Idle, StartPcs, TaskPcs, CopyPcs, StopPcs, StopOps, Starting
      <4> QED
        BY <1>1, <1>4, <3>4, <4>1, <4>2, CommandSteps DEF StartLoop
    <3> QED
      BY <1>4, <3>1, <3>2, <3>3, <3>4 DEF StartLoop
  <2>4. AkctlTypeOK'
    BY <1>1, <1>4, <2>2 DEF StartLoop, AkctlTypeOK, Registries, TaskRecords
  <2> QED
    BY <2>2, <2>3, <2>4 DEF TypeInv, RegistryOK
<1> QED
  BY <1>2, <1>3, <1>4

\* start-orchestrator and its loop keep the types.
LEMMA OrchestratorTypes ==
  ASSUME TypeInv, NEW p \in Procs,
         \/ OrchestratorBegin(p) \/ OrchestratorLoad(p)
         \/ OrchestratorStart(p) \/ OrchestratorLoop(p)
  PROVE  TypeInv'
<1>1. /\ CommandsOK /\ cmd[p] \in Commands /\ CommandOK(p, cmd[p]) /\ mode \in Modes
      /\ registry \in Registries /\ commands \in Nat /\ AkctlTypeOK
  BY DEF TypeInv, CommandsOK, RegistryOK
<1>2. CASE OrchestratorBegin(p)
  <2>1. PICK op \in {"orchestrator", "orchestratorLoop"} :
               Begin(p, [Idle EXCEPT !.op = op, !.pc = "orchestrator"])
    BY <1>2 DEF OrchestratorBegin
  <2> DEFINE c == [Idle EXCEPT !.op = op, !.pc = "orchestrator"]
  <2>2. c \in Commands
    BY IdleOK DEF Commands, Ops, StopOps, Pcs
  <2>3. CommandOK(p, c)
    BY DEF CommandOK, Idle, StartPcs, TaskPcs, CopyPcs, StopPcs, StopOps, Starting
  <2> QED
    BY <2>1, <2>2, <2>3, BeginsOK
<1>3. CASE OrchestratorLoad(p)
  <2> DEFINE c == [cmd[p] EXCEPT !.pc = "orchestratorWindow", !.copy = registry]
  <2>1. c \in Commands /\ cmd' = [cmd EXCEPT ![p] = c]
    BY <1>1, <1>3 DEF OrchestratorLoad, Loads, Commands, Pcs, CopyPcs
  <2>2. CommandOK(p, c)
    BY <1>1, <1>3 DEF OrchestratorLoad, At, Commands, CommandOK, StartPcs, TaskPcs, CopyPcs,
                      StopPcs, StopOps, Starting
  <2>3. CommandsOK'
    BY <1>1, <1>3, <2>1, <2>2, CommandSteps DEF OrchestratorLoad
  <2> QED
    BY <1>3, <2>3, FilesAlone DEF OrchestratorLoad
<1>4. CASE OrchestratorStart(p)
  <2>1. Copy(p) \in Registries
    BY <1>1, <1>4 DEF OrchestratorStart, At, CommandOK, CopyPcs, Copy
  <2>2. registry' \in Registries
    BY <1>4, <2>1 DEF OrchestratorStart, WriteRegistry, Registries, OrchestratorRecord, Smoke
  <2>3. CommandsOK'
    <3>1. CASE Ends(p)
      BY <1>1, <1>4, <3>1, EndsOK DEF OrchestratorStart
    <3>2. ASSUME NEW pc \in {"row", "check", "orchestratorLoop"}, Goes(p, pc),
                 pc = "row" => cmd[p].op = "batch", pc = "check" => cmd[p].op = "smoke"
          PROVE  CommandsOK'
      <4> DEFINE c == [cmd[p] EXCEPT !.pc = pc]
      <4>1. c \in Commands /\ cmd' = [cmd EXCEPT ![p] = c]
        BY <1>1, <3>2 DEF Goes, Commands, Pcs, TaskPcs, StartPcs
      <4>2. CommandOK(p, c)
        BY <1>1, <1>4, <3>2 DEF OrchestratorStart, At, Commands, CommandOK, StartPcs, TaskPcs,
                                CopyPcs, StopPcs, StopOps, Starting
      <4> QED
        BY <1>1, <1>4, <4>1, <4>2, CommandSteps DEF OrchestratorStart
    <3> QED
      BY <1>4, <3>1, <3>2 DEF OrchestratorStart
  <2>4. AkctlTypeOK'
    BY <1>1, <1>4, <2>2 DEF OrchestratorStart, AkctlTypeOK, Registries, TaskRecords
  <2> QED
    BY <2>2, <2>3, <2>4 DEF TypeInv, RegistryOK
<1>5. CASE OrchestratorLoop(p)
  <2>1. CommandsOK'
    BY <1>1, <1>5, EndsOK DEF OrchestratorLoop
  <2>2. registry' \in Registries
    BY <1>1, <1>5 DEF OrchestratorLoop, WriteRegistry, Registries, OrchestratorRecord
  <2>3. AkctlTypeOK'
    BY <1>1, <1>5, <2>2 DEF OrchestratorLoop, AkctlTypeOK, Registries, TaskRecords
  <2> QED
    BY <2>1, <2>2, <2>3 DEF TypeInv, RegistryOK
<1> QED
  BY <1>2, <1>3, <1>4, <1>5

\* start-monitor-loop keeps the types, whatever it has read before it writes.
LEMMA MonitorLoopTypes ==
  ASSUME TypeInv, NEW p \in Procs,
         MonitorLoopBegin(p) \/ MonitorLoopLoad(p) \/ MonitorLoopWrite(p)
  PROVE  TypeInv'
<1>1. /\ CommandsOK /\ cmd[p] \in Commands /\ CommandOK(p, cmd[p]) /\ mode \in Modes
      /\ registry \in Registries /\ commands \in Nat /\ AkctlTypeOK
  BY DEF TypeInv, CommandsOK, RegistryOK
<1>2. CASE MonitorLoopBegin(p)
  <2>1. PICK t \in Named :
          Begin(p, [Idle EXCEPT !.op = "monitorLoop", !.pc = "monitorLoop", !.task = t])
    BY <1>2 DEF MonitorLoopBegin
  <2> DEFINE c == [Idle EXCEPT !.op = "monitorLoop", !.pc = "monitorLoop", !.task = t]
  <2>2. t \in Tasks
    BY CommandAssumptions
  <2>3. c \in Commands
    BY <2>2, IdleOK DEF Commands, Ops, StopOps, Pcs, TaskPcs
  <2>4. CommandOK(p, c)
    BY <2>2 DEF CommandOK, Idle, StartPcs, TaskPcs, CopyPcs, StopPcs, StopOps, Starting
  <2> QED
    BY <2>1, <2>3, <2>4, BeginsOK
<1>3. CASE MonitorLoopLoad(p)
  <2>1. CASE Ends(p)
    BY <1>1, <1>3, <2>1, EndsOK, FilesAlone DEF MonitorLoopLoad
  <2>2. CASE Loads(p, "monitorLoopWrite") /\ registry.tasks[cmd[p].task] # None
    <3> DEFINE c == [cmd[p] EXCEPT !.pc = "monitorLoopWrite", !.copy = registry]
    <3>1. c \in Commands /\ cmd' = [cmd EXCEPT ![p] = c]
      BY <1>1, <2>2 DEF Loads, Commands, Pcs, TaskPcs
    <3>2. CommandOK(p, c)
      BY <1>1, <1>3, <2>2 DEF MonitorLoopLoad, At, Commands, CommandOK, StartPcs, TaskPcs,
                              CopyPcs, StopPcs, StopOps, Starting
    <3>3. CommandsOK'
      BY <1>1, <1>3, <3>1, <3>2, CommandSteps DEF MonitorLoopLoad
    <3> QED
      BY <1>3, <3>3, FilesAlone DEF MonitorLoopLoad
  <2> QED
    BY <1>3, <2>1, <2>2 DEF MonitorLoopLoad
<1>4. CASE MonitorLoopWrite(p)
  <2>1. CommandsOK'
    BY <1>1, <1>4, EndsOK DEF MonitorLoopWrite
  <2>2. Copy(p) \in Registries /\ cmd[p].task \in Tasks /\ Copy(p).tasks[cmd[p].task] # None
    BY <1>1, <1>4 DEF MonitorLoopWrite, At, CommandOK, CopyPcs, TaskPcs, Copy
  <2>3. registry' \in Registries
    BY <1>4, <2>2, LoopedOK DEF MonitorLoopWrite, WriteRegistry
  <2>4. AkctlTypeOK'
    BY <1>1, <1>4, <2>3 DEF MonitorLoopWrite, AkctlTypeOK, Registries, TaskRecords
  <2> QED
    BY <2>1, <2>3, <2>4 DEF TypeInv, RegistryOK
<1> QED
  BY <1>2, <1>3, <1>4

\* The stop commands keep the types while they mark and kill.
LEMMA StopTypes ==
  ASSUME TypeInv, NEW p \in Procs, StopBegin(p) \/ StopLoad(p) \/ StopMark(p) \/ StopKill(p)
  PROVE  TypeInv'
<1>1. /\ CommandsOK /\ cmd[p] \in Commands /\ CommandOK(p, cmd[p]) /\ mode \in Modes
      /\ registry \in Registries /\ commands \in Nat /\ AkctlTypeOK
  BY DEF TypeInv, CommandsOK, RegistryOK
<1>2. CASE StopBegin(p)
  <2>1. PICK op \in {"cleanup", "stop", "stopAll", "stopOrchestrator"}, t \in Named \cup {None} :
               Begin(p, [Idle EXCEPT !.op = op, !.pc = "stopping", !.task = t])
    BY <1>2 DEF StopBegin
  <2> DEFINE c == [Idle EXCEPT !.op = op, !.pc = "stopping", !.task = t]
  <2>2. t \in Tasks \cup {None}
    BY CommandAssumptions
  <2>3. c \in Commands
    BY <2>2, IdleOK DEF Commands, Ops, StopOps, Pcs
  <2>4. CommandOK(p, c)
    BY DEF CommandOK, Idle, StartPcs, TaskPcs, CopyPcs, StopPcs, StopOps, Starting
  <2> QED
    BY <2>1, <2>3, <2>4, BeginsOK
<1>3. CASE StopLoad(p)
  <2> DEFINE recorded == {t \in Tasks : registry.tasks[t] # None}
             tasks == IF cmd[p].op = "stopOrchestrator" THEN {}
                      ELSE IF cmd[p].task = None THEN recorded ELSE {cmd[p].task} \cap recorded
             c == [cmd[p] EXCEPT !.pc = "mark", !.copy = registry, !.task = None, !.left = tasks]
  <2>1. CASE Ends(p)
    BY <1>1, <1>3, <2>1, EndsOK, FilesAlone DEF StopLoad
  <2>2. CASE cmd' = [cmd EXCEPT ![p] = c]
    <3>1. tasks \subseteq Tasks /\ \A t \in tasks : registry.tasks[t] # None
      OBVIOUS
    <3> HIDE DEF tasks
    <3>2. c \in Commands
      BY <1>1, <3>1 DEF Commands, Pcs, CopyPcs
    <3>3. CommandOK(p, c)
      BY <1>1, <1>3, <3>1 DEF StopLoad, At, Commands, CommandOK, StartPcs, TaskPcs,
                              CopyPcs, StopPcs, StopOps, Starting
    <3>4. CommandsOK'
      BY <1>1, <1>3, <2>2, <3>2, <3>3, CommandSteps DEF StopLoad
    <3> QED
      BY <1>3, <3>4, FilesAlone DEF StopLoad
  <2> QED
    BY <1>3, <2>1, <2>2 DEF StopLoad
<1>4. CASE StopMark(p)
  <2>1. PICK t \in cmd[p].left :
          LET ended == TaskStatus(Copy(p).tasks, t) \in TerminalStates
              marks == ~ended /\ cmd[p].op # "cleanup"
              smoke == Copy(p).tasks[t].smoke
          IN  /\ space' = IF marks /\ ~smoke THEN [space EXCEPT ![t] = "cancelled"] ELSE space
              /\ smokeSpace' = IF marks /\ smoke THEN [smokeSpace EXCEPT ![t] = "cancelled"]
                               ELSE smokeSpace
              /\ cmd' = [cmd EXCEPT ![p].left = @ \ {t},
                           ![p].task = IF ended \/ marks THEN t ELSE None,
                           ![p].pc = IF ended \/ marks THEN "kill" ELSE "mark"]
    BY <1>4 DEF StopMark
  <2> DEFINE closes == \/ TaskStatus(Copy(p).tasks, t) \in TerminalStates
                       \/ cmd[p].op # "cleanup"
             c == [cmd[p] EXCEPT !.left = @ \ {t}, !.task = IF closes THEN t ELSE None,
                                 !.pc = IF closes THEN "kill" ELSE "mark"]
  <2>2. cmd' = [cmd EXCEPT ![p] = c]
    BY <1>1, <2>1
  <2>3. cmd[p].pc = "mark" /\ t \in Tasks /\ cmd[p].left \subseteq Tasks
    BY <1>1, <1>4 DEF StopMark, At, CommandOK, StopPcs
  <2> HIDE DEF closes
  <2>4. c \in Commands
    <3> DEFINE left == cmd[p].left \ {t}
               task == IF closes THEN t ELSE None
               pc == IF closes THEN "kill" ELSE "mark"
    <3>1. left \in SUBSET (Tasks \cup Nat) /\ task \in Tasks \cup {None}
      BY <2>3
    <3>2. pc \in Pcs
      BY PcsAre
    <3>3. c = [cmd[p] EXCEPT !.left = left, !.task = task, !.pc = pc]
      OBVIOUS
    <3> HIDE DEF left, task, pc, c
    <3> QED
      BY <1>1, <3>1, <3>2, <3>3, GoesOnOK
  <2>5. CommandOK(p, c)
    BY <1>1, <2>3 DEF Commands, CommandOK, StartPcs, TaskPcs, CopyPcs, StopPcs, StopOps, Starting
  <2>6. CommandsOK'
    BY <1>1, <1>4, <2>2, <2>4, <2>5, CommandSteps DEF StopMark
  <2>7. space' \in [Tasks -> Statuses \cup {None}] /\ smokeSpace' \in [Tasks -> Statuses \cup {None}]
    BY <1>1, <2>1, <2>3 DEF AkctlTypeOK, Statuses, TerminalStates
  <2> QED
    BY <1>4, <2>6, <2>7 DEF StopMark, TypeInv, AkctlTypeOK, RegistryOK
<1>5. CASE StopKill(p)
  <2> DEFINE c == [cmd[p] EXCEPT !.pc = "mark", !.task = None]
  <2>1. c \in Commands /\ cmd' = [cmd EXCEPT ![p] = c]
    BY <1>1, <1>5 DEF StopKill, Commands, Pcs, CopyPcs
  <2>2. CommandOK(p, c)
    BY <1>1, <1>5 DEF StopKill, At, Commands, CommandOK, StartPcs, TaskPcs, CopyPcs,
                      StopPcs, StopOps, Starting
  <2>3. CommandsOK'
    BY <1>1, <1>5, <2>1, <2>2, CommandSteps DEF StopKill
  <2>4. worker' \in [Tasks -> {None, "real", "smoke"}]
    BY <1>1, <1>5 DEF StopKill, AkctlTypeOK
  <2> QED
    BY <1>5, <2>3, <2>4 DEF StopKill, TypeInv, AkctlTypeOK, RegistryOK
<1> QED
  BY <1>2, <1>3, <1>4, <1>5

\* The stop commands keep the types when they write their copy back.
LEMMA StopWriteTypes ==
  ASSUME TypeInv, NEW p \in Procs, StopOrchestrator(p) \/ StopWrite(p)
  PROVE  TypeInv'
<1>1. /\ CommandsOK /\ cmd[p] \in Commands /\ CommandOK(p, cmd[p]) /\ mode \in Modes
      /\ registry \in Registries /\ commands \in Nat /\ AkctlTypeOK
      /\ cmd[p].copy \in Registries
  BY DEF TypeInv, CommandsOK, RegistryOK, StopOrchestrator, StopWrite, At, CommandOK, CopyPcs
<1>2. CASE StopOrchestrator(p)
  <2> DEFINE copy == [cmd[p].copy EXCEPT !.orchestrator =
                        IF @ = None THEN [smoke |-> FALSE, loop |-> FALSE]
                        ELSE [@ EXCEPT !.loop = FALSE]]
             c == [cmd[p] EXCEPT !.pc = "stopWrite", !.copy = copy]
  <2>1. copy \in Registries /\ copy.tasks = cmd[p].copy.tasks
    BY <1>1 DEF Registries, OrchestratorRecord
  <2>2. cmd' = [cmd EXCEPT ![p] = c]
    BY <1>1, <1>2 DEF StopOrchestrator
  <2> HIDE DEF copy
  <2>3. c \in Commands
    BY <1>1, <2>1 DEF Commands, Pcs, CopyPcs
  <2>4. CommandOK(p, c)
    BY <1>1, <1>2, <2>1 DEF StopOrchestrator, At, Commands, CommandOK, StartPcs, TaskPcs,
                            CopyPcs, StopPcs, StopOps, Starting
  <2>5. CommandsOK'
    BY <1>1, <1>2, <2>2, <2>3, <2>4, CommandSteps DEF StopOrchestrator
  <2> QED
    BY <1>2, <2>5, FilesAlone DEF StopOrchestrator, akctlVars
<1>3. CASE StopWrite(p)
  <2>1. CommandsOK'
    BY <1>1, <1>3, EndsOK DEF StopWrite
  <2>2. registry' \in Registries
    BY <1>1, <1>3 DEF StopWrite, WriteRegistry, Copy
  <2>3. AkctlTypeOK'
    BY <1>1, <1>3, <2>2 DEF StopWrite, AkctlTypeOK, Registries, TaskRecords
  <2> QED
    BY <2>1, <2>2, <2>3 DEF TypeInv, RegistryOK
<1> QED
  BY <1>2, <1>3

\* The clean-up of a smoke run keeps the types.
LEMMA SmokeCleanTypes ==
  ASSUME TypeInv, NEW p \in Procs,
         SmokeCleanBegin(p) \/ SmokeCleanKill(p) \/ SmokeCleanWrite(p)
  PROVE  TypeInv'
<1>1. /\ CommandsOK /\ cmd[p] \in Commands /\ CommandOK(p, cmd[p]) /\ mode \in Modes
      /\ registry \in Registries /\ commands \in Nat /\ AkctlTypeOK
  BY DEF TypeInv, CommandsOK, RegistryOK
<1>2. CASE SmokeCleanBegin(p)
  <2>1. PICK t \in Named :
          Begin(p, [Idle EXCEPT !.op = "smokeClean", !.pc = "smokeClean", !.task = t])
    BY <1>2 DEF SmokeCleanBegin
  <2> DEFINE c == [Idle EXCEPT !.op = "smokeClean", !.pc = "smokeClean", !.task = t]
  <2>2. t \in Tasks
    BY CommandAssumptions
  <2>3. c \in Commands
    BY <2>2, IdleOK DEF Commands, Ops, Pcs, TaskPcs
  <2>4. CommandOK(p, c)
    BY <2>2 DEF CommandOK, Idle, StartPcs, TaskPcs, CopyPcs, StopPcs, Starting
  <2> QED
    BY <2>1, <2>3, <2>4, BeginsOK
<1>3. CASE SmokeCleanKill(p)
  <2> DEFINE c == [cmd[p] EXCEPT !.pc = "smokeCleanWrite", !.copy = registry]
  <2>1. c \in Commands /\ cmd' = [cmd EXCEPT ![p] = c]
    BY <1>1, <1>3 DEF SmokeCleanKill, Loads, Commands, Pcs, TaskPcs
  <2>2. CommandOK(p, c)
    BY <1>1, <1>3 DEF SmokeCleanKill, At, Commands, CommandOK, StartPcs, TaskPcs, CopyPcs,
                      StopPcs, StopOps, Starting
  <2>3. CommandsOK'
    BY <1>1, <1>3, <2>1, <2>2, CommandSteps DEF SmokeCleanKill
  <2>4. /\ worker' \in [Tasks -> {None, "real", "smoke"}]
        /\ smokeSpace' \in [Tasks -> Statuses \cup {None}]
    BY <1>1, <1>3 DEF SmokeCleanKill, AkctlTypeOK
  <2> QED
    BY <1>3, <2>3, <2>4 DEF SmokeCleanKill, TypeInv, AkctlTypeOK, RegistryOK
<1>4. CASE SmokeCleanWrite(p)
  <2>1. CommandsOK'
    BY <1>1, <1>4, EndsOK DEF SmokeCleanWrite
  <2>2. Copy(p) \in Registries /\ cmd[p].task \in Tasks
    BY <1>1, <1>4 DEF SmokeCleanWrite, At, CommandOK, CopyPcs, TaskPcs, Copy
  <2>3. [Copy(p).tasks EXCEPT ![cmd[p].task] = None] \in TaskRecords
    BY <2>2 DEF Registries, TaskRecords
  <2>4. registry' \in Registries
    BY <1>1, <1>4, <2>2, <2>3 DEF SmokeCleanWrite, WriteRegistry, Registries
  <2>5. AkctlTypeOK'
    BY <1>1, <1>4, <2>4 DEF SmokeCleanWrite, AkctlTypeOK, Registries, TaskRecords
  <2> QED
    BY <2>1, <2>4, <2>5 DEF TypeInv, RegistryOK
<1> QED
  BY <1>2, <1>3, <1>4

\* A worker that reports, or a window that vanishes, keeps the types.
LEMMA WorldTypes ==
  ASSUME TypeInv, NEW t \in Tasks, WorkerReports(t) \/ WindowVanishes(t)
  PROVE  TypeInv'
<1>1. CommandsOK' /\ RegistryOK'
  BY DEF TypeInv, WorkerReports, WindowVanishes, CommandsOK, CommandOK, Queue, RegistryOK
<1>2. AkctlTypeOK'
  BY DEF TypeInv, WorkerReports, WindowVanishes, AkctlTypeOK, Statuses, TerminalStates
<1> QED
  BY <1>1, <1>2 DEF TypeInv

\* A command that is killed keeps the types.
LEMMA KilledTypes ==
  ASSUME TypeInv, NEW p \in Procs, Killed(p)
  PROVE  TypeInv'
BY EndsOK, FilesAlone DEF Killed, TypeInv, CommandsOK

\* The steps of one command.
Command(p) ==
  \/ PatrolBegin(p) \/ PatrolLoad(p) \/ PatrolEnd(p) \/ PatrolPlan(p)
  \/ BatchBegin(p) \/ BatchRow(p) \/ BatchEnd(p)
  \/ StartTaskBegin(p) \/ StartCheck(p) \/ StartSpace(p) \/ StartWorker(p)
  \/ StartRecord(p) \/ StartMonitor(p) \/ StartLoop(p)
  \/ OrchestratorBegin(p) \/ OrchestratorLoad(p) \/ OrchestratorStart(p) \/ OrchestratorLoop(p)
  \/ MonitorLoopBegin(p) \/ MonitorLoopLoad(p) \/ MonitorLoopWrite(p)
  \/ StopBegin(p) \/ StopLoad(p) \/ StopMark(p) \/ StopKill(p)
  \/ StopOrchestrator(p) \/ StopWrite(p)
  \/ SmokeCleanBegin(p) \/ SmokeCleanKill(p) \/ SmokeCleanWrite(p)
  \/ Killed(p)

LEMMA NextIs ==
  Next <=> \/ \E p \in Procs : Command(p)
           \/ \E t \in Tasks : WorkerReports(t) \/ WindowVanishes(t)
BY DEF Next, Command

\* Every step keeps the types.
LEMMA TypeStep ==
  ASSUME TypeInv, [Next]_vars
  PROVE  TypeInv'
<1>1. CASE UNCHANGED vars
  BY <1>1 DEF vars, akctlVars, TypeInv, CommandsOK, CommandOK, Queue, RegistryOK, AkctlTypeOK
<1>2. ASSUME NEW p \in Procs, Command(p)
      PROVE  TypeInv'
  BY <1>2, PatrolTypes, BatchTypes, StartTypes, RecordTypes, OrchestratorTypes, MonitorLoopTypes,
     StopTypes, StopWriteTypes, SmokeCleanTypes, KilledTypes DEF Command
<1>3. ASSUME NEW t \in Tasks, WorkerReports(t) \/ WindowVanishes(t)
      PROVE  TypeInv'
  BY <1>3, WorldTypes
<1> QED
  BY <1>1, <1>2, <1>3, NextIs

\* A control plane that has just been set up has the right types.
LEMMA TypeInit == Init => TypeInv
<1> SUFFICES ASSUME Init
             PROVE  TypeInv
  OBVIOUS
<1>1. registry \in Registries
  BY DEF Init, AkctlInit, Registries, TaskRecords
<1>2. CommandsOK
  BY IdleOK DEF Init, CommandsOK
<1>3. AkctlTypeOK
  BY <1>1 DEF Init, AkctlInit, AkctlTypeOK, Registries, TaskRecords
<1> QED
  BY <1>1, <1>2, <1>3 DEF TypeInv, RegistryOK

\* Type correctness: registry.json, the workspaces and the windows stay what the
\* commands take them for, whatever copy of the file is written back.
THEOREM AkctlTypes == Spec => []AkctlTypeOK
<1>1. TypeInv => AkctlTypeOK
  BY DEF TypeInv
<1> QED
  BY <1>1, TypeInit, TypeStep, PTL DEF Spec

-----------------------------------------------------------------------------
(* Where a step takes the commands                                         *)

\* start_task fails back to its caller.
LEMMA FailsBack ==
  ASSUME TypeInv, NEW p \in Procs, StartFails(p)
  PROVE  /\ cmd'[p].pc \in {"idle", "plan", "row"}
         /\ \A q \in Procs : q # p => cmd'[q] = cmd[q]
<1>1. cmd \in [Procs -> Commands]
  BY DEF TypeInv, CommandsOK
<1>2. CASE Ends(p)
  BY <1>1, <1>2 DEF Ends, Idle
<1>3. CASE cmd[p].op = "patrol" /\
           Returns(p, "plan",
               [Working(p) EXCEPT ![cmd[p].task] = NewRecord(cmd[p].place, FALSE)])
  <2> HIDE DEF Working, NewRecord
  <2> QED
    BY <1>1, <1>3 DEF Returns, Commands
<1>4. CASE cmd[p].op = "batch" /\ Returns(p, "row", None)
  BY <1>1, <1>4 DEF Returns, Commands
<1> QED
  BY <1>2, <1>3, <1>4 DEF StartFails

\* A command's step leaves the other commands where they are.
LEMMA OthersAlone ==
  ASSUME TypeInv, NEW p \in Procs, Command(p)
  PROVE  mode' = mode /\ \A q \in Procs : q # p => cmd'[q] = cmd[q]
<1>1. cmd \in [Procs -> Commands]
  BY DEF TypeInv, CommandsOK
<1>2. CASE PatrolBegin(p)
  BY <1>1, <1>2 DEF PatrolBegin, Begin, Ends, Goes, Loads
<1>3. CASE PatrolLoad(p)
  BY <1>1, <1>3 DEF PatrolLoad, Begin, Ends, Goes, Loads
<1>4. CASE PatrolEnd(p)
  BY <1>1, <1>4 DEF PatrolEnd, Begin, Ends, Goes, Loads
<1>5. CASE PatrolPlan(p)
  BY <1>1, <1>5 DEF PatrolPlan, Begin, Ends, Goes, Loads
<1>6. CASE BatchBegin(p)
  BY <1>1, <1>6 DEF BatchBegin, Begin, Ends, Goes, Loads
<1>7. CASE BatchRow(p)
  BY <1>1, <1>7 DEF BatchRow, Begin, Ends, Goes, Loads
<1>8. CASE BatchEnd(p)
  BY <1>1, <1>8 DEF BatchEnd, Begin, Ends, Goes, Loads
<1>9. CASE StartTaskBegin(p)
  BY <1>1, <1>9 DEF StartTaskBegin, Begin, Ends, Goes, Loads
<1>10. CASE StartCheck(p)
  BY <1>1, <1>10, FailsBack DEF StartCheck, Begin, Ends, Goes, Loads
<1>11. CASE StartSpace(p)
  BY <1>1, <1>11, FailsBack DEF StartSpace, Begin, Ends, Goes, Loads
<1>12. CASE StartWorker(p)
  BY <1>1, <1>12, FailsBack DEF StartWorker, Begin, Ends, Goes, Loads
<1>13. CASE StartRecord(p)
  BY <1>1, <1>13 DEF StartRecord, Begin, Ends, Goes, Loads
<1>14. CASE StartMonitor(p)
  BY <1>1, <1>14, FailsBack DEF StartMonitor, Begin, Ends, Goes, Loads
<1>15. CASE StartLoop(p)
  BY <1>1, <1>15, FailsBack DEF StartLoop, Begin, Ends, Goes, Loads, Returns
<1>16. CASE OrchestratorBegin(p)
  BY <1>1, <1>16 DEF OrchestratorBegin, Begin, Ends, Goes, Loads
<1>17. CASE OrchestratorLoad(p)
  BY <1>1, <1>17 DEF OrchestratorLoad, Begin, Ends, Goes, Loads
<1>18. CASE OrchestratorStart(p)
  BY <1>1, <1>18 DEF OrchestratorStart, Begin, Ends, Goes, Loads
<1>19. CASE OrchestratorLoop(p)
  BY <1>1, <1>19 DEF OrchestratorLoop, Begin, Ends, Goes, Loads
<1>20. CASE MonitorLoopBegin(p)
  BY <1>1, <1>20 DEF MonitorLoopBegin, Begin, Ends, Goes, Loads
<1>21. CASE MonitorLoopLoad(p)
  BY <1>1, <1>21 DEF MonitorLoopLoad, Begin, Ends, Goes, Loads
<1>22. CASE MonitorLoopWrite(p)
  BY <1>1, <1>22 DEF MonitorLoopWrite, Begin, Ends, Goes, Loads
<1>23. CASE StopBegin(p)
  BY <1>1, <1>23 DEF StopBegin, Begin, Ends, Goes, Loads
<1>24. CASE StopLoad(p)
  BY <1>1, <1>24 DEF StopLoad, Begin, Ends, Goes, Loads
<1>25. CASE StopMark(p)
  BY <1>1, <1>25 DEF StopMark, Begin, Ends, Goes, Loads
<1>26. CASE StopKill(p)
  BY <1>1, <1>26 DEF StopKill, Begin, Ends, Goes, Loads
<1>27. CASE StopOrchestrator(p)
  BY <1>1, <1>27 DEF StopOrchestrator, Begin, Ends, Goes, Loads
<1>28. CASE StopWrite(p)
  BY <1>1, <1>28 DEF StopWrite, Begin, Ends, Goes, Loads
<1>29. CASE SmokeCleanBegin(p)
  BY <1>1, <1>29 DEF SmokeCleanBegin, Begin, Ends, Goes, Loads
<1>30. CASE SmokeCleanKill(p)
  BY <1>1, <1>30 DEF SmokeCleanKill, Begin, Ends, Goes, Loads
<1>31. CASE SmokeCleanWrite(p)
  BY <1>1, <1>31 DEF SmokeCleanWrite, Begin, Ends, Goes, Loads
<1>32. CASE Killed(p)
  BY <1>1, <1>32 DEF Killed, Begin, Ends, Goes, Loads
<1> QED
  BY <1>2, <1>3, <1>4, <1>5, <1>6, <1>7, <1>8, <1>9, <1>10, <1>11, <1>12, <1>13, <1>14, <1>15,
     <1>16, <1>17, <1>18, <1>19, <1>20, <1>21, <1>22, <1>23, <1>24, <1>25, <1>26, <1>27, <1>28,
     <1>29, <1>30, <1>31, <1>32 DEF Command

\* Only the creation of a workspace takes a command to the launch.
LEMMA SpaceThenWorker ==
  ASSUME TypeInv, NEW p \in Procs, Command(p)
  PROVE  StartSpace(p) \/ cmd'[p].pc # "worker"
<1>1. cmd \in [Procs -> Commands]
  BY DEF TypeInv, CommandsOK
<1>2. \A c : Begin(p, c) => cmd'[p] = c
  BY <1>1 DEF Begin
<1>3. Ends(p) => cmd'[p].pc = "idle"
  BY <1>1 DEF Ends, Idle
<1>4. \A pc : Goes(p, pc) \/ Loads(p, pc) => cmd'[p].pc = pc
  BY <1>1 DEF Goes, Loads, Commands
<1>5. CASE PatrolBegin(p)
  BY <1>1, <1>2, <1>5 DEF PatrolBegin, Idle
<1>6. CASE PatrolLoad(p)
  BY <1>1, <1>3, <1>4, <1>6 DEF PatrolLoad, Commands
<1>7. CASE PatrolEnd(p)
  BY <1>1, <1>3, <1>4, <1>7 DEF PatrolEnd, Commands
<1>8. CASE PatrolPlan(p)
  BY <1>1, <1>3, <1>4, <1>8 DEF PatrolPlan, Commands
<1>9. CASE BatchBegin(p)
  BY <1>1, <1>2, <1>9 DEF BatchBegin, Idle
<1>10. CASE BatchRow(p)
  BY <1>1, <1>3, <1>4, <1>10 DEF BatchRow, Commands
<1>11. CASE BatchEnd(p)
  BY <1>1, <1>3, <1>4, <1>11 DEF BatchEnd, Commands
<1>12. CASE StartTaskBegin(p)
  BY <1>1, <1>2, <1>12 DEF StartTaskBegin, Idle
<1>13. CASE StartCheck(p)
  BY <1>1, <1>3, <1>4, <1>13, FailsBack DEF StartCheck
<1>14. CASE StartWorker(p)
  BY <1>1, <1>3, <1>4, <1>14, FailsBack DEF StartWorker
<1>15. CASE StartRecord(p)
  BY <1>1, <1>3, <1>4, <1>15 DEF StartRecord, Commands
<1>16. CASE StartMonitor(p)
  BY <1>1, <1>3, <1>4, <1>16, FailsBack DEF StartMonitor
<1>17. CASE StartLoop(p)
  <2>1. Returns(p, "row", None) => cmd'[p].pc = "row"
    BY <1>1 DEF Returns, Commands
  <2>2. cmd' = [cmd EXCEPT ![p] = [Idle EXCEPT !.op = "patrol", !.pc = "load",
                                               !.count = cmd[p].count + 1]]
          => cmd'[p].pc = "load"
    BY <1>1 DEF Idle
  <2> QED
    BY <1>3, <1>17, <2>1, <2>2, FailsBack DEF StartLoop
<1>18. CASE OrchestratorBegin(p)
  BY <1>1, <1>2, <1>18 DEF OrchestratorBegin, Idle
<1>19. CASE OrchestratorLoad(p)
  BY <1>1, <1>3, <1>4, <1>19 DEF OrchestratorLoad, Commands
<1>20. CASE OrchestratorStart(p)
  BY <1>1, <1>3, <1>4, <1>20 DEF OrchestratorStart, Commands
<1>21. CASE OrchestratorLoop(p)
  BY <1>1, <1>3, <1>4, <1>21 DEF OrchestratorLoop, Commands
<1>22. CASE MonitorLoopBegin(p)
  BY <1>1, <1>2, <1>22 DEF MonitorLoopBegin, Idle
<1>23. CASE MonitorLoopLoad(p)
  BY <1>1, <1>3, <1>4, <1>23 DEF MonitorLoopLoad, Commands
<1>24. CASE MonitorLoopWrite(p)
  BY <1>1, <1>3, <1>4, <1>24 DEF MonitorLoopWrite, Commands
<1>25. CASE StopBegin(p)
  BY <1>1, <1>2, <1>25 DEF StopBegin, Idle
<1>26. CASE StopLoad(p)
  BY <1>1, <1>3, <1>26, StopLoadMarks
<1>27. CASE StopMark(p)
  BY <1>1, <1>3, <1>4, <1>27 DEF StopMark, Commands
<1>28. CASE StopKill(p)
  BY <1>1, <1>3, <1>4, <1>28 DEF StopKill, Commands
<1>29. CASE StopOrchestrator(p)
  BY <1>1, <1>3, <1>4, <1>29 DEF StopOrchestrator, Commands
<1>30. CASE StopWrite(p)
  BY <1>1, <1>3, <1>4, <1>30 DEF StopWrite, Commands
<1>31. CASE SmokeCleanBegin(p)
  BY <1>1, <1>2, <1>31 DEF SmokeCleanBegin, Idle
<1>32. CASE SmokeCleanKill(p)
  BY <1>1, <1>3, <1>4, <1>32 DEF SmokeCleanKill, Commands
<1>33. CASE SmokeCleanWrite(p)
  BY <1>1, <1>3, <1>4, <1>33 DEF SmokeCleanWrite, Commands
<1>34. CASE Killed(p)
  BY <1>1, <1>3, <1>4, <1>34 DEF Killed, Commands
<1> QED
  BY <1>5, <1>6, <1>7, <1>8, <1>9, <1>10, <1>11, <1>12, <1>13, <1>14, <1>15, <1>16, <1>17, <1>18,
     <1>19, <1>20, <1>21, <1>22, <1>23, <1>24, <1>25, <1>26, <1>27, <1>28, <1>29, <1>30, <1>31,
     <1>32, <1>33, <1>34 DEF Command

-----------------------------------------------------------------------------
(* A worker is launched once                                               *)

\* A workspace is never taken away, the only place that starts tasks launches a
\* worker in the workspace it has just created, and none was launched before.
LaunchInv ==
  /\ \A t \in Tasks : launches[t] <= 1 /\ (launches[t] # 0 => space[t] # None)
  /\ \A p \in Procs : cmd[p].pc = "worker" /\ ~Smoke(p) =>
       launches[cmd[p].task] = 0 /\ space[cmd[p].task] # None

\* A step that leaves the launches and the workspaces alone, and no command at
\* the launch that was not there.
LEMMA LaunchUndisturbed ==
  ASSUME TypeInv, LaunchInv, UNCHANGED <<space, launches>>,
         \A p \in Procs : cmd'[p] = cmd[p] \/ cmd'[p].pc # "worker"
  PROVE  LaunchInv'
BY DEF LaunchInv, Smoke

\* Only the launcher starts real tasks, and there is one launcher.
LEMMA OneLauncher ==
  ASSUME TypeInv, NEW p \in Procs, NEW q \in Procs, cmd[p].pc \in StartPcs, cmd[q].pc \in StartPcs,
         ~Smoke(p), ~Smoke(q)
  PROVE  p = q
<1>1. \A r \in Procs : cmd[r].pc \in StartPcs /\ ~Smoke(r) => r \in Launchers
  BY DEF TypeInv, CommandsOK, CommandOK, StartPcs, Smoke
<1> QED
  BY <1>1, CommandAssumptions

\* Every step keeps what tells that a launch is the first of its task: the workspace is
\* created by the one launcher, and it is what a later launch runs into.
LEMMA LaunchStep ==
  ASSUME TypeInv, LaunchInv, [Next]_vars
  PROVE  LaunchInv'
<1>1. /\ CommandsOK /\ AkctlTypeOK /\ cmd \in [Procs -> Commands]
      /\ \A p \in Procs : cmd[p].pc \in TaskPcs => cmd[p].task \in Tasks
  BY DEF TypeInv, CommandsOK, CommandOK
<1>2. CASE UNCHANGED vars
  BY <1>2, LaunchUndisturbed DEF vars, akctlVars
<1>3. ASSUME NEW t \in Tasks, WorkerReports(t) \/ WindowVanishes(t)
      PROVE  LaunchInv'
  BY <1>1, <1>3, NoneIsNothing
  DEF WorkerReports, WindowVanishes, LaunchInv, AkctlTypeOK, Statuses, TerminalStates, Smoke, TaskPcs,
      StartPcs
<1>4. ASSUME NEW p \in Procs, StartSpace(p)
      PROVE  LaunchInv'
  <2> DEFINE t == cmd[p].task
  <2>1. t \in Tasks /\ cmd[p].pc = "space"
    BY <1>1, <1>4 DEF StartSpace, At, TaskPcs, StartPcs
  <2>2. \A q \in Procs : q # p => cmd'[q] = cmd[q]
    BY <1>4, OthersAlone DEF Command
  <2>3. CASE StartFails(p)
    <3>1. cmd'[p].pc # "worker"
      BY <2>3, FailsBack
    <3>2. \A u \in Tasks : space[u] # None => space'[u] # None
      BY <1>1, <1>4, <2>1, NoneIsNothing DEF StartSpace, AkctlTypeOK, Statuses
    <3>3. launches' = launches
      BY <1>4 DEF StartSpace
    <3> QED
      BY <1>1, <2>2, <3>1, <3>2, <3>3 DEF LaunchInv, Smoke, TaskPcs, StartPcs
  <2>4. CASE Goes(p, "worker")
    <3>1. cmd'[p].task = t /\ cmd'[p].op = cmd[p].op
      BY <1>1, <2>4 DEF Goes, Commands
    <3>2. \A u \in Tasks : space[u] # None => space'[u] # None
      BY <1>1, <1>4, <2>1, NoneIsNothing DEF StartSpace, AkctlTypeOK, Statuses
    <3>3. launches' = launches /\ launches[t] \in Nat
      BY <1>1, <1>4, <2>1 DEF StartSpace, AkctlTypeOK
    <3>4. ~Smoke(p) => space'[t] # None
      BY <1>1, <1>4, <2>1, NoneIsNothing DEF StartSpace, AkctlTypeOK, Statuses
    <3>5. ~Smoke(p) => space[t] = None
      <4>1. cmd'[p].pc = "worker"
        BY <1>1, <2>4 DEF Goes, Commands
      <4>2. ~StartFails(p)
        BY <4>1, FailsBack
      <4> QED
        BY <1>4, <4>2 DEF StartSpace
    <3>6. ~Smoke(p) => launches[t] = 0
      BY <2>1, <3>5 DEF LaunchInv
    <3> QED
      BY <1>1, <2>1, <2>2, <3>1, <3>2, <3>3, <3>4, <3>6 DEF LaunchInv, Smoke, TaskPcs, StartPcs
  <2> QED
    BY <1>4, <2>3, <2>4 DEF StartSpace
<1>5. ASSUME NEW p \in Procs, StartWorker(p)
      PROVE  LaunchInv'
  <2> DEFINE t == cmd[p].task
  <2>1. t \in Tasks /\ cmd[p].pc = "worker"
    BY <1>1, <1>5 DEF StartWorker, At, TaskPcs, StartPcs
  <2>2. cmd'[p].pc # "worker" /\ \A q \in Procs : q # p => cmd'[q] = cmd[q]
    <3>1. ~StartSpace(p)
      BY <2>1 DEF StartSpace, At
    <3> QED
      BY <1>5, <3>1, OthersAlone, SpaceThenWorker DEF Command
  <2>3. space' = space
    BY <1>5 DEF StartWorker
  <2>4. CASE Smoke(p)
    <3>1. launches' = launches
      BY <1>1, <1>5, <2>1, <2>4 DEF StartWorker, WorkerStarted, AkctlTypeOK
    <3> QED
      BY <2>2, <2>3, <3>1 DEF LaunchInv, Smoke
  <2>5. CASE ~Smoke(p)
    <3>1. launches[t] = 0 /\ space[t] # None
      BY <2>1, <2>5 DEF LaunchInv
    <3>2. launches' = launches \/ launches' = [launches EXCEPT ![t] = 1]
      BY <1>5, <2>5, <3>1 DEF StartWorker, WorkerStarted
    <3>3. \A q \in Procs : q # p /\ cmd[q].pc = "worker" => Smoke(q)
      BY <2>1, <2>5, OneLauncher DEF StartPcs
    <3>4. launches \in [Tasks -> Nat]
      BY <1>1 DEF AkctlTypeOK
    <3> QED
      BY <2>1, <2>2, <2>3, <3>1, <3>2, <3>3, <3>4 DEF LaunchInv, Smoke
  <2> QED
    BY <2>4, <2>5
<1>6. ASSUME NEW p \in Procs, StopMark(p)
      PROVE  LaunchInv'
  <2>1. \A u \in Tasks : space[u] # None => space'[u] # None
    BY <1>1, <1>6, NoneIsNothing DEF StopMark, AkctlTypeOK, Statuses, TerminalStates
  <2>2. /\ launches' = launches /\ cmd'[p].pc # "worker"
        /\ \A q \in Procs : q # p => cmd'[q] = cmd[q]
    BY <1>1, <1>6 DEF StopMark, Commands
  <2> QED
    BY <1>1, <2>1, <2>2 DEF LaunchInv, Smoke, TaskPcs, StartPcs
<1>7. ASSUME NEW p \in Procs, Command(p), ~StartSpace(p), ~StartWorker(p), ~StopMark(p)
      PROVE  LaunchInv'
  <2>1. UNCHANGED <<space, launches>>
    BY <1>7
    DEF Command, PatrolBegin, PatrolLoad, PatrolEnd, PatrolPlan, BatchBegin, BatchRow, BatchEnd,
        StartTaskBegin, StartCheck, StartRecord, StartMonitor, StartLoop, OrchestratorBegin,
        OrchestratorLoad, OrchestratorStart, OrchestratorLoop, MonitorLoopBegin, MonitorLoopLoad,
        MonitorLoopWrite, StopBegin, StopLoad, StopKill, StopOrchestrator, StopWrite,
        SmokeCleanBegin, SmokeCleanKill, SmokeCleanWrite, Killed, Begin, akctlVars
  <2>2. \A q \in Procs : cmd'[q] = cmd[q] \/ cmd'[q].pc # "worker"
    BY <1>7, OthersAlone, SpaceThenWorker
  <2> QED
    BY <2>1, <2>2, LaunchUndisturbed
<1> QED
  BY <1>2, <1>3, <1>4, <1>5, <1>6, <1>7, NextIs

\* The worker of a task is launched at most once, whatever commands overlap,
\* fail or are killed, and whichever records they lose.
THEOREM WorkerLaunchedOnce == Spec => []LaunchedOnce
<1>1. Init => LaunchInv
  BY DEF Init, AkctlInit, LaunchInv, Idle
<1>2. LaunchInv => LaunchedOnce
  BY DEF LaunchInv, LaunchedOnce
<1> QED
  BY <1>1, <1>2, TypeInit, TypeStep, LaunchStep, PTL DEF Spec
==============================================================================
