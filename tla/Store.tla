-------------------------------- MODULE Store --------------------------------
(***************************************************************************)
(* The durable half of Flotilla: the task and worker tables of             *)
(* flotilla/store.py.  Every method of Store is one SQLite transaction     *)
(* (BEGIN IMMEDIATE where it reads before it writes), so every method is   *)
(* one action here.  Any thread of any process may call any method at any  *)
(* time: StoreNext takes the arguments the callers pass, in any order and  *)
(* with any worker id, however old.                                        *)
(*                                                                         *)
(* Abstracted: every column the lifecycle does not depend on.  The column  *)
(* updated_at matters only through ORDER BY updated_at, id of the queue:   *)
(* `queue' is the list of QUEUED rows in that order.                       *)
(***************************************************************************)
EXTENDS TaskState, Naturals, Sequences, FiniteSets, SequencesExt

CONSTANTS
  Tasks,       \* task ids
  Workers,     \* worker ids (fresh uuids in the code)
  MaxWorkers,  \* config.SETTINGS.max_workers, the argument of every claim
  None         \* no worker id (SQL NULL / Python None)

ASSUME StoreAssumptions ==
  /\ IsFiniteSet(Tasks) /\ IsFiniteSet(Workers)
  /\ MaxWorkers \in Nat
  /\ None \notin Workers /\ None \notin Tasks

Absent == "ABSENT"            \* no row of that id in the task table

VARIABLES
  task,      \* task table: the state column, or Absent
  queue,     \* the QUEUED rows by (updated_at, id)
  rowTask,   \* worker table: the task_id of the row, None without a row
  live       \* the worker rows whose ended_at is NULL

storeVars == <<task, queue, rowTask, live>>

\* `queue' stands for a query: it lists the QUEUED rows, each once.
QueueOK ==
  /\ \A t \in Tasks : task[t] = "QUEUED" <=> \E i \in DOMAIN queue : queue[i] = t
  /\ IsInjective(queue)

\* The columns hold what db.py lets them hold, and the queue is that query.
StoreTypeOK ==
  /\ task \in [Tasks -> STATES \cup {Absent}]
  /\ queue \in Seq(Tasks)
  /\ rowTask \in [Workers -> Tasks \cup {None}]
  /\ live \subseteq Workers
  /\ QueueOK

StoreInit ==
  /\ task = [t \in Tasks |-> Absent]
  /\ queue = <<>>
  /\ rowTask = [w \in Workers |-> None]
  /\ live = {}

-----------------------------------------------------------------------------
Dispatching == {t \in Tasks : task[t] = "DISPATCHING"}

\* What claim_queued_tasks counts against max_active.
InUse == Cardinality(live) + Cardinality(Dispatching)

\* store.active_worker_id: the newest live row of the task.  The invariant
\* OneLiveRow says there is at most one, so the choice is unique.
LiveRows(t) == {w \in live : rowTask[w] = t}
ActiveWorkerId(t) ==
  IF LiveRows(t) = {} THEN None ELSE CHOOSE w \in LiveRows(t) : TRUE

\* UPDATE task SET state=?, updated_at=now: a row that becomes QUEUED goes to
\* the back of the queue, any other row is in no queue.
PutState(t, new) ==
  /\ task' = [task EXCEPT ![t] = new]
  /\ queue' = IF new = "QUEUED" THEN Append(RemoveFirst(queue, t), t)
                                ELSE RemoveFirst(queue, t)

\* Mutant: the CAS of an expected state is dropped.
SetTaskState_noCas(t, new, expected) ==
  /\ task[t] # Absent
  /\ PutState(t, new)
  /\ UNCHANGED <<rowTask, live>>

\* set_task_state that returns True.  It returns False (no row, or a state
\* that is not expected) or raises IllegalTransition with nothing changed.
SetTaskState(t, new, expected) ==
  /\ task[t] \in expected
  /\ CanMove(task[t], new)
  /\ PutState(t, new)
  /\ UNCHANGED <<rowTask, live>>

\* create_tasks: the batch is inserted whole or, when an id exists, not at
\* all.  The rows bring the updated_at stamped while the request was being
\* validated, so they can sort before rows written in between.
CreateTasks(batch, place) ==
  /\ \A i \in DOMAIN batch : task[batch[i]] = Absent
  /\ task' = [t \in Tasks |-> IF t \in ToSet(batch) THEN "QUEUED" ELSE task[t]]
  /\ queue' = SubSeq(queue, 1, place) \o batch \o SubSeq(queue, place + 1, Len(queue))
  /\ UNCHANGED <<rowTask, live>>

\* Mutant: DISPATCHING rows are not counted against the capacity.
ClaimCount_ignoresDispatching ==
  IF Len(queue) < MaxWorkers - Cardinality(live)
  THEN Len(queue) ELSE MaxWorkers - Cardinality(live)

\* The LIMIT of the claim: the free capacity, or fewer when fewer wait.
ClaimCount ==
  IF Len(queue) < MaxWorkers - InUse THEN Len(queue) ELSE MaxWorkers - InUse

Claimed == {queue[i] : i \in 1 .. ClaimCount}

\* Mutant: the claim reads the oldest rows and does not update them.
ClaimQueuedTasks_keepsRows ==
  /\ ClaimCount > 0
  /\ queue' = SubSeq(queue, ClaimCount + 1, Len(queue))
  /\ UNCHANGED <<task, rowTask, live>>

\* claim_queued_tasks that returns at least one task.
ClaimQueuedTasks ==
  /\ ClaimCount > 0
  /\ task' = [t \in Tasks |-> IF t \in Claimed THEN "DISPATCHING" ELSE task[t]]
  /\ queue' = SubSeq(queue, ClaimCount + 1, Len(queue))
  /\ UNCHANGED <<rowTask, live>>

\* release_task_claim
ReleaseTaskClaim(t, target) == SetTaskState(t, target, {"DISPATCHING"})

\* mark_stale_dispatching_lost: S are the DISPATCHING rows older than the
\* lease.  Raw SQL, not transition().
MarkStaleDispatchingLost(S) ==
  /\ S # {} /\ S \subseteq Dispatching
  /\ task' = [t \in Tasks |-> IF t \in S THEN "LOST" ELSE task[t]]
  /\ UNCHANGED <<queue, rowTask, live>>

\* Mutant: the state is committed without the worker row.
ActivateWorker_noRow(t, w) ==
  /\ task[t] = "DISPATCHING"
  /\ PutState(t, "RUNNING")
  /\ UNCHANGED <<rowTask, live>>

\* activate_worker that returns True: the worker row and RUNNING together.
ActivateWorker(t, w) ==
  /\ task[t] = "DISPATCHING"
  /\ rowTask[w] = None
  /\ PutState(t, "RUNNING")
  /\ rowTask' = [rowTask EXCEPT ![w] = t]
  /\ live' = live \cup {w}

\* finish_worker that returns True.  w is whatever id the caller passes: the
\* row it names is ended whether or not it belongs to t.
FinishWorker(t, w, terminal) ==
  /\ task[t] # Absent
  /\ CanMove(task[t], terminal)
  /\ PutState(t, terminal)
  /\ live' = live \ {w}
  /\ UNCHANGED rowTask

\* end_worker
EndWorker(w) ==
  /\ live' = live \ {w}
  /\ UNCHANGED <<task, queue, rowTask>>

\* Mutant: the worker rows of the task stay.
DeleteTask_keepsRows(t) ==
  /\ task' = [task EXCEPT ![t] = Absent]
  /\ queue' = RemoveFirst(queue, t)
  /\ UNCHANGED <<rowTask, live>>

\* delete_task: the row and everything that references it.
DeleteTask(t) ==
  /\ task' = [task EXCEPT ![t] = Absent]
  /\ queue' = RemoveFirst(queue, t)
  /\ rowTask' = [w \in Workers |-> IF rowTask[w] = t THEN None ELSE rowTask[w]]
  /\ live' = {w \in live : rowTask[w] # t}

-----------------------------------------------------------------------------
\* The (new state, expected states) pairs set_task_state is called with:
\* release_task_claim, retire's STUCK path, nudge, pause and resume.
SetCalls ==
  ({"QUEUED", "FAILED", "LOST"} \X {{"DISPATCHING"}})
    \cup {<<"STUCK", {"RUNNING", "PAUSED", "STUCK"}>>, <<"RUNNING", {"STUCK"}>>,
          <<"PAUSED", {"RUNNING"}>>, <<"RUNNING", {"PAUSED"}>>}

\* A submitted batch: distinct ids, at least one (routes.create_tasks).
Batches ==
  {b \in UNION {[1 .. n -> Tasks] : n \in 1 .. Cardinality(Tasks)} : IsInjective(b)}

StoreNext ==
  \/ \E b \in Batches, place \in 0 .. Len(queue) : CreateTasks(b, place)
  \/ ClaimQueuedTasks
  \/ \E S \in SUBSET Tasks : MarkStaleDispatchingLost(S)
  \/ \E t \in Tasks, c \in SetCalls : SetTaskState(t, c[1], c[2])
  \/ \E t \in Tasks, w \in Workers : ActivateWorker(t, w)
  \/ \E t \in Tasks, w \in Workers \cup {None}, s \in Terminal : FinishWorker(t, w, s)
  \/ \E w \in Workers : EndWorker(w)
  \/ \E t \in Tasks : DeleteTask(t)

StoreSpec == StoreInit /\ [][StoreNext]_storeVars

-----------------------------------------------------------------------------
(* What the two tables promise, whoever calls.                             *)

\* claim_queued_tasks "while respecting global capacity": live workers and
\* reserved tasks together never exceed max_workers, however claims,
\* activations, releases, late finishes and deletions interleave.
WithinCapacity == InUse <= MaxWorkers

\* A live worker row belongs to a task that has been RUNNING: no second worker
\* can be activated for a task, because nothing returns a task with a live row
\* to the queue.
OneLiveRow ==
  \A w \in live :
    /\ rowTask[w] # None
    /\ task[rowTask[w]] \in Active \cup Terminal
    /\ LiveRows(rowTask[w]) = {w}

\* Every change of a state column, those in raw SQL included, is one that
\* transition() accepts; rows appear QUEUED and disappear from any state.
LifecycleLegal ==
  [][\A t \in Tasks :
       \/ task[t] = Absent /\ task'[t] \in {Absent, "QUEUED"}
       \/ task'[t] = Absent
       \/ CanMove(task[t], task'[t])]_storeVars
==============================================================================
