---------------------------- MODULE ObservedProofs ----------------------------
(***************************************************************************)
(* Proofs about what the server knows of its workers, for any number of    *)
(* tasks, threads, crashes and failed starts, stops and windows, as long   *)
(* as no client deletes a task and every transaction of the database       *)
(* succeeds: a settled task has no live row, and an active task has in the *)
(* registry the handle of its live row, so the observer looks at it; and   *)
(* what follows of the processes and their workspaces.                     *)
(***************************************************************************)
EXTENDS RetirementProofs

\* A deletion makes a task id free for a second life while threads still hold
\* arguments of its first, and an activation that fails after the handle was
\* registered does the same to a claim that goes back to the queue.
Undisturbed == "delete" \notin Requested /\ "database" \notin Faults

-----------------------------------------------------------------------------
(* The invariant                                                           *)

\* No thread is deleting, and no retirement finds its task settled already
\* while the row it was given is live.
NoDeletion ==
  \A p \in Threads :
    /\ th[p].pc # "idle" => th[p].op # "delete"
    /\ th[p].pc \notin {"verify", "erase"} /\ ~th[p].done

\* A task that ever had a worker is active or settled, it has one row in its
\* whole life, and the row is live as long as the task is active only.
OneLife ==
  /\ \A w \in Workers : rowTask[w] # None => task[rowTask[w]] \in Active \cup Terminal
  /\ \A v, w \in Workers : rowTask[v] # None /\ rowTask[v] = rowTask[w] => v = w
  /\ \A w \in live : task[rowTask[w]] \in Active

\* While tasks of the last process are being looked at nothing else runs.
Booting ==
  boot # {} =>
   /\ \A p \in Threads : th[p] = IdleThread
   /\ \A t \in Tasks : job[t] = NoJob
   /\ todo = {} /\ boot \subseteq {t \in Tasks : task[t] \in Active}

\* The task of a claim stays reserved until the claim ends, unless it is settled
\* behind the scheduler's back: then the dispatch is undone.
ReservedWhileClaimed ==
  \A t \in Tasks :
    /\ job[t].phase # "none" => task[t] \in {"DISPATCHING"} \cup Terminal
    /\ job[t].phase \in {"cleanup", "stopped", "stopFailed"} => task[t] \in Terminal
    /\ job[t].phase = "registered" /\ task[t] = "DISPATCHING" => handles[t] = job[t].w

\* A handle is that of the row of its task, or of the claim that will get the row.
HandlesTied ==
  \A t \in Tasks : handles[t] # None =>
    \/ rowTask[handles[t]] = t
    \/ job[t].phase = "registered" /\ job[t].w = handles[t]
    \/ task[t] \in Terminal

\* What the observer's snapshot and the arguments of retire() say of a worker is
\* still so, unless the task has been settled since.
ArgumentsCurrent ==
  /\ \A i \in todo : handles[i[1]] = i[2] \/ task[i[1]] \in Terminal
  /\ \A p \in Threads :
       /\ th[p].pc \in {"halt"} \cup RetirePcs =>
             (th[p].w # None /\ handles[th[p].t] = th[p].w) \/ task[th[p].t] \in Terminal
       /\ th[p].pc \in {"release", "leave"} => task[th[p].t] \in Terminal
       /\ th[p].pc = "target" => task[th[p].t] \in Active \cup Terminal /\ Kind[th[p].t] = "local"

\* The registry has the handle of the live row of an active task.
Reachable(t) == Kind[t] = "remote" => "unreachable" \notin Faults
Observed ==
  \A t \in Tasks : task[t] \in Active /\ t \notin boot /\ Reachable(t) => handles[t] \in LiveRows(t)

ObservedInv ==
  /\ RowsInv /\ ActiveHasWorker
  /\ NoDeletion /\ OneLife /\ Booting /\ ReservedWhileClaimed /\ HandlesTied /\ ArgumentsCurrent /\ Observed

-----------------------------------------------------------------------------
(* What every step leaves                                                  *)

\* The types and small facts every proof below starts from.
LEMMA ObservedFacts ==
  ASSUME ObservedInv
  PROVE  /\ RowsInv /\ TypeInv /\ StoreTypeOK /\ RuntimesTypeOK /\ ControlTypeOK
         /\ task \in [Tasks -> STATES \cup {Absent}] /\ queue \in Seq(Tasks)
         /\ rowTask \in [Workers -> Tasks \cup {None}] /\ live \subseteq Workers
         /\ \A p \in Threads : /\ th[p] \in ThreadRecord
                               /\ th[p].pc # "idle" => th[p].t \in Tasks
                               /\ th[p].pc = "idle" => th[p] = IdleThread
         /\ None \notin Workers /\ None \notin Tasks
BY StoreAssumptions
   DEF ObservedInv, RowsInv, TypeInv, FlotillaTypeOK, StoreTypeOK, ControlTypeOK, ThreadArgs, ArgsFit

\* With nothing being deleted, the calls of Store are these.
LEMMA UndisturbedCall ==
  ASSUME ObservedInv, [Next]_vars
  PROVE  \/ UNCHANGED storeVars
         \/ \E b \in Batches, place \in 0 .. Len(queue) : CreateTasks(b, place)
         \/ ClaimQueuedTasks
         \/ \E S \in SUBSET Tasks : Between /\ MarkStaleDispatchingLost(S)
         \/ \E t \in Tasks, c \in SetCalls :
              SetTaskState(t, c[1], c[2]) /\ (c[2] = {"DISPATCHING"} => job'[t] = NoJob)
         \/ \E t \in Tasks : Activate(t) /\ job[t].w \in Workers /\ ActivateWorker(t, job[t].w)
         \/ \E p \in Threads : RetireCommit(p) /\ Finishes(th[p].t, th[p].w, th[p].term)
         \/ \E t \in Tasks : Reconcile(t) /\ Finishes(t, ActiveWorkerId(t), "LOST")
<1>1. \A p \in Requests : ~EraseTask(p)
  BY DEF ObservedInv, NoDeletion, EraseTask, At, Threads
<1>2. \A p \in Threads : ~th[p].done
  BY DEF ObservedInv, NoDeletion
<1> QED BY <1>1, <1>2, CallStep DEF ObservedInv, RowsInv

\* The changes of the state of a task that matter: a task that has a worker keeps
\* its row until it is settled, and nothing brings a settled task back.
LEMMA TaskMoves ==
  ASSUME ObservedInv, [Next]_vars, NEW t \in Tasks
  PROVE  /\ task[t] \in Terminal => task'[t] \in Terminal
         /\ task[t] \in Active => task'[t] \in Active \cup Terminal
         /\ task[t] = "DISPATCHING" =>
              \/ task'[t] = "DISPATCHING" /\ ~\E w : ActivateWorker(t, w)
              \/ task'[t] \in Terminal
              \/ task'[t] = "QUEUED" /\ job'[t] = NoJob
              \/ task'[t] = "RUNNING" /\ Activate(t) /\ ActivateWorker(t, job[t].w)
         /\ task'[t] \in Active => task[t] \in Active \/ (Activate(t) /\ ActivateWorker(t, job[t].w))
<1> USE DEF Terminal, Active
<1> DEFINE Fit == /\ task[t] \in Terminal => task'[t] \in Terminal
                  /\ task[t] \in Active => task'[t] \in Active \cup Terminal
                  /\ task[t] = "DISPATCHING" =>
                       \/ task'[t] = "DISPATCHING" /\ ~\E w : ActivateWorker(t, w)
                       \/ task'[t] \in Terminal
                       \/ task'[t] = "QUEUED" /\ job'[t] = NoJob
                       \/ task'[t] = "RUNNING" /\ Activate(t) /\ ActivateWorker(t, job[t].w)
                  /\ task'[t] \in Active => task[t] \in Active \/ (Activate(t) /\ ActivateWorker(t, job[t].w))
<1>0. task \in [Tasks -> STATES \cup {Absent}] /\ queue \in Seq(Tasks)
  BY ObservedFacts
<1>00. ASSUME task'[t] = "DISPATCHING", NEW w, ActivateWorker(t, w) PROVE FALSE
  BY <1>0, <1>00 DEF ActivateWorker, PutState
<1>1. ASSUME UNCHANGED storeVars PROVE Fit
  BY <1>00, <1>1 DEF storeVars
<1>2. ASSUME NEW b \in Batches, NEW place, CreateTasks(b, place) PROVE Fit
  <2>1. t \in ToSet(b) => task[t] = Absent
    BY <1>2 DEF CreateTasks, ToSet
  <2> QED BY <1>0, <1>00, <1>2, <2>1 DEF CreateTasks, Absent
<1>3. CASE ClaimQueuedTasks
  <2>1. t \in Claimed => task[t] = "QUEUED"
    BY <1>3, ClaimedFacts, ObservedFacts DEF ClaimQueuedTasks
  <2> QED BY <1>0, <1>00, <1>3, <2>1 DEF ClaimQueuedTasks
<1>4. ASSUME NEW S \in SUBSET Tasks, MarkStaleDispatchingLost(S) PROVE Fit
  BY <1>0, <1>00, <1>4 DEF MarkStaleDispatchingLost, Dispatching
<1>5. ASSUME NEW u \in Tasks, NEW c \in SetCalls, SetTaskState(u, c[1], c[2]),
             c[2] = {"DISPATCHING"} => job'[u] = NoJob
      PROVE  Fit
  <2>1. \/ c[1] \in {"QUEUED", "FAILED", "LOST"} /\ c[2] = {"DISPATCHING"}
        \/ c[1] \in Active /\ c[2] \in SUBSET Active
    <3>1. CASE c \in {"QUEUED", "FAILED", "LOST"} \X {{"DISPATCHING"}}
      BY <3>1
    <3>2. CASE c \in {<<"STUCK", {"RUNNING", "PAUSED", "STUCK"}>>, <<"RUNNING", {"STUCK"}>>,
                      <<"PAUSED", {"RUNNING"}>>, <<"RUNNING", {"PAUSED"}>>}
      BY <3>2
    <3> QED BY <3>1, <3>2 DEF SetCalls
  <2>2. CASE u # t
    BY <1>0, <1>00, <1>5, <2>2 DEF SetTaskState, PutState
  <2>3. CASE u = t
    BY <1>0, <1>5, <2>1, <2>3 DEF SetTaskState, PutState
  <2> QED BY <2>2, <2>3
<1>6. ASSUME NEW u \in Tasks, Activate(u), ActivateWorker(u, job[u].w) PROVE Fit
  BY <1>0, <1>00, <1>6 DEF ActivateWorker, PutState
<1>7. ASSUME NEW u, NEW w, NEW s, Finishes(u, w, s) PROVE Fit
  BY <1>0, <1>00, <1>7 DEF Finishes, FinishWorker, PutState
<1> QED BY <1>1, <1>2, <1>3, <1>4, <1>5, <1>6, <1>7, UndisturbedCall

\* No row goes away: a row keeps its task.
LEMMA RowKept ==
  ASSUME ObservedInv, [Next]_vars, NEW w \in Workers, rowTask[w] # None
  PROVE  rowTask'[w] = rowTask[w]
<1>1. ASSUME NEW u \in Tasks, ActivateWorker(u, job[u].w) PROVE rowTask'[w] = rowTask[w]
  BY <1>1, ObservedFacts DEF ActivateWorker
<1> QED BY <1>1, UndisturbedCall
        DEF storeVars, CreateTasks, ClaimQueuedTasks, MarkStaleDispatchingLost, SetTaskState, Finishes, FinishWorker

\* A live row ends with its task.
LEMMA LiveKept ==
  ASSUME ObservedInv, [Next]_vars, NEW w \in live
  PROVE  w \in live' \/ task'[rowTask[w]] \in Terminal
<1>1. rowTask[w] # None /\ w \in Workers
  BY ObservedFacts DEF ObservedInv, RowsInv, OneLiveRow
<1> QED BY <1>1, RowSettles, RowKept DEF ObservedInv

-----------------------------------------------------------------------------
(* How a thread moves when nothing is deleted                              *)

\* A stop or a nudge begins with the handle it found.
Asks(p, t) ==
  /\ Serving /\ p \in Requests /\ t \in Tasks /\ handles[t] # None
  /\ th'[p].op \in {"stop", "nudge"} /\ th'[p].t = t /\ th'[p].w = handles[t] /\ th'[p].h = handles[t]
  /\ th'[p].pc = (IF th'[p].op = "stop" THEN "halt" ELSE "paste") /\ ~th'[p].done

\* A heartbeat is accepted for an active task.
Pings(p, t) ==
  /\ Serving /\ p \in Requests /\ t \in Tasks /\ task[t] \in Active /\ Kind[t] = "local"
  /\ th'[p].op = "ping" /\ th'[p].t = t /\ th'[p].w = None /\ th'[p].h = None
  /\ th'[p].pc = "target" /\ ~th'[p].done

\* ... and looks its worker up.
Targets(p) ==
  /\ th[p].pc = "target" /\ th'[p].pc \in {"stick", "enter"}
  /\ th'[p].op = th[p].op /\ th'[p].t = th[p].t /\ th'[p].w = ActiveWorkerId(th[p].t) /\ th'[p].h = th[p].h
  /\ th'[p].done = th[p].done

\* The observer takes an item of its snapshot.
Observes(p) ==
  /\ p = Observer /\ ObserverItem
  /\ \E i \in todo : th'[p].t = i[1] /\ th'[p].w = i[2]
  /\ th'[p].pc \in {"stick", "enter"} /\ th'[p].op = "observe" /\ th'[p].h = None /\ ~th'[p].done

\* A stop has stopped the runtime and goes on to retire().
Halts(p) ==
  /\ HaltWorker(p) /\ StopReturns(th[p].h)
  /\ th[p].pc = "halt" /\ th'[p].pc = "enter"
  /\ th'[p].op = th[p].op /\ th'[p].t = th[p].t /\ th'[p].w = th[p].w /\ th'[p].h = None
  /\ th'[p].term = "CANCELLED" /\ th'[p].done = th[p].done

\* All the moves of a thread: each of them carries its arguments on.
LEMMA UndisturbedMoves ==
  ASSUME ObservedInv, Undisturbed, [Next]_vars, NEW p \in Threads
  PROVE  \/ th'[p] = th[p]
         \/ th'[p] = IdleThread
         \/ \E t \in Tasks : Asks(p, t) \/ Pings(p, t)
         \/ Targets(p) \/ Observes(p) \/ Halts(p)
         \/ Enters(p) \/ ReadsOn(p) \/ LateStep(p)
<1>0. TypeInv /\ RowsInv /\ th \in [Threads -> ThreadRecord] /\ th[p] \in ThreadRecord
  BY ObservedFacts DEF ControlTypeOK
<1>1. ASSUME NEW r, Becomes(p, r) PROVE th'[p] = r
  BY <1>0, <1>1 DEF Becomes
<1>2. /\ th[p].pc # "idle" => th[p].op # "delete"
      /\ th[p].pc \notin {"verify", "erase"}
  BY DEF ObservedInv, NoDeletion
<1>3. ASSUME p \in Requests, RequestStep(p)
      PROVE  (\E t \in Tasks : Asks(p, t) \/ Pings(p, t)) \/ Targets(p)
  <2>1. ASSUME NEW op \in {"stop", "nudge"}, NEW t \in Tasks, handles[t] # None,
               Begin(p, op, t, IF op = "stop" THEN "halt" ELSE "paste")
        PROVE  Asks(p, t)
    <3> DEFINE pc == IF op = "stop" THEN "halt" ELSE "paste"
               r == [IdleThread EXCEPT !.pc = pc, !.op = op, !.t = t, !.w = handles[t], !.h = handles[t]]
    <3>1. Serving /\ th'[p] = r
      BY <1>1, <2>1 DEF Begin
    <3>2. r.op = op /\ r.t = t /\ r.w = handles[t] /\ r.h = handles[t] /\ r.pc = pc /\ ~r.done
      BY DEF IdleThread
    <3> QED BY <1>3, <2>1, <3>1, <3>2 DEF Asks
  <2>2. ASSUME NEW t \in Tasks, WorkerPing(p, t) PROVE Pings(p, t)
    <3> DEFINE r == [IdleThread EXCEPT !.pc = "target", !.op = "ping", !.t = t,
                                       !.term = MapTerminal(status[t], FALSE)]
    <3>1. th'[p] = r
      BY <1>1, <2>2 DEF WorkerPing
    <3>2. r.op = "ping" /\ r.t = t /\ r.w = None /\ r.h = None /\ r.pc = "target" /\ ~r.done
      BY DEF IdleThread
    <3> QED BY <1>3, <2>2, <3>1, <3>2 DEF Pings, WorkerPing
  <2>3. ASSUME PingTarget(p) PROVE Targets(p)
    <3> DEFINE r == [th[p] EXCEPT !.pc = IF th[p].term = "STUCK" THEN "stick" ELSE "enter",
                                  !.w = ActiveWorkerId(th[p].t)]
    <3>1. th'[p] = r
      BY <1>1, <2>3 DEF PingTarget
    <3>2. /\ r.op = th[p].op /\ r.t = th[p].t /\ r.w = ActiveWorkerId(th[p].t) /\ r.h = th[p].h
          /\ r.done = th[p].done /\ r.pc \in {"stick", "enter"}
      BY <1>0 DEF ThreadRecord
    <3> QED BY <2>3, <3>1, <3>2 DEF Targets, PingTarget, At
  <2>4. ~EraseTask(p)
    BY <1>2 DEF EraseTask, At
  <2>5. \A t \in Tasks : ~RequestDelete(p, t)
    BY DEF RequestDelete, Begin, Undisturbed
  <2> QED BY <1>3, <2>1, <2>2, <2>3, <2>4, <2>5 DEF RequestStep, RequestStop, RequestNudge
<1>4. ASSUME p = Observer, ObserverItem PROVE th'[p] = IdleThread \/ Observes(p)
  <2>1. PICK i, term :
          /\ i \in todo
          /\ Becomes(Observer, IF term = None THEN IdleThread
                               ELSE [IdleThread EXCEPT
                                       !.pc = IF term = "STUCK" THEN "stick" ELSE "enter",
                                       !.op = "observe", !.t = i[1], !.w = i[2], !.term = term])
    BY <1>4 DEF ObserverItem
  <2> DEFINE r == [IdleThread EXCEPT !.pc = IF term = "STUCK" THEN "stick" ELSE "enter",
                                     !.op = "observe", !.t = i[1], !.w = i[2], !.term = term]
  <2>2. r.t = i[1] /\ r.w = i[2] /\ r.pc \in {"stick", "enter"} /\ r.op = "observe" /\ r.h = None /\ ~r.done
    BY DEF IdleThread
  <2>3. th'[p] = IdleThread \/ th'[p] = r
    BY <1>1, <1>4, <2>1
  <2> HIDE DEF r
  <2> QED BY <1>4, <2>1, <2>2, <2>3 DEF Observes
<1>5. ASSUME ActuateStep(p) PROVE th'[p] = IdleThread \/ Halts(p)
  <2>1. ASSUME HaltWorker(p), StopReturns(th[p].h),
               Becomes(p, [th[p] EXCEPT !.pc = "enter", !.term = "CANCELLED", !.h = None])
        PROVE  Halts(p)
    <3> DEFINE r == [th[p] EXCEPT !.pc = "enter", !.term = "CANCELLED", !.h = None]
    <3>1. th'[p] = r
      BY <1>1, <2>1
    <3>2. /\ r.op = th[p].op /\ r.t = th[p].t /\ r.w = th[p].w /\ r.h = None /\ r.term = "CANCELLED"
          /\ r.done = th[p].done /\ r.pc = "enter"
      BY <1>0 DEF ThreadRecord
    <3> QED BY <2>1, <3>1, <3>2 DEF Halts, HaltWorker, At
  <2> QED BY <1>1, <1>2, <1>5, <2>1 DEF ActuateStep, HaltWorker, VerifyCancelled, NudgeWorker, At
<1>6. ASSUME RetireStep(p) PROVE th'[p] = IdleThread \/ th'[p].pc \in InsidePcs
  <2>1. ASSUME NEW result, Becomes(p, AfterRetire(p, result)) PROVE th'[p] = IdleThread
    <3>1. th[p].pc # "idle"
      BY <1>6 DEF RetireStep, RetireStuck, RetireEnter, RetireRead, RetireStop, RetireEvaluate, RetireCommit,
                  RetireRelease, RetireLeave, At
    <3> QED BY <1>1, <1>2, <2>1, <3>1 DEF AfterRetire
  <2>2. ASSUME NEW pc \in InsidePcs, Goto(p, pc) PROVE th'[p].pc \in InsidePcs
    BY <1>0, <1>1, <2>2 DEF Goto, ThreadRecord
  <2>3. CASE RetireStuck(p)
    BY <1>1, <2>3 DEF RetireStuck
  <2>4. CASE RetireEnter(p)
    <3>1. [th[p] EXCEPT !.pc = "read", !.h = handles[th[p].t]].pc \in InsidePcs
      BY <1>0 DEF ThreadRecord, InsidePcs
    <3> QED BY <1>1, <2>1, <2>4, <3>1 DEF RetireEnter
  <2>5. CASE RetireRead(p)
    <3>1. ASSUME NEW d, NEW l
          PROVE  [th[p] EXCEPT !.pc = AfterRead(th[p], d), !.done = d, !.lock = l].pc \in InsidePcs
      BY <1>0 DEF ThreadRecord, InsidePcs, AfterRead, AfterStop
    <3> QED BY <1>1, <2>1, <2>5, <3>1 DEF RetireRead
  <2>6. CASE RetireStop(p) \/ RetireRelease(p)
    BY <2>2, <2>6 DEF RetireStop, RetireRelease, AfterStop, InsidePcs
  <2>7. CASE RetireEvaluate(p)
    <3>1. \A verdict : [th[p] EXCEPT !.pc = "commit", !.term = verdict].pc \in InsidePcs
      BY <1>0 DEF ThreadRecord, InsidePcs
    <3> QED BY <1>1, <2>7, <3>1 DEF RetireEvaluate
  <2>8. CASE RetireCommit(p)
    BY <2>1, <2>2, <2>8 DEF RetireCommit, InsidePcs
  <2>9. CASE RetireLeave(p)
    BY <2>1, <2>9 DEF RetireLeave
  <2> QED BY <1>6, <2>3, <2>4, <2>5, <2>6, <2>7, <2>8, <2>9 DEF RetireStep
<1>7. CASE th'[p].pc \in InsidePcs
  BY <1>0, <1>7, InsideMoves
<1> QED BY <1>0, <1>3, <1>4, <1>5, <1>6, <1>7, ThreadMoves

-----------------------------------------------------------------------------
(* The parts of the invariant, one after the other                         *)

\* The worker id a retirement passes on is that of the live row, if there is one.
LEMMA FinishesOwn ==
  ASSUME ObservedInv, NEW p \in Threads, RetireCommit(p), NEW w \in live, rowTask[w] = th[p].t
  PROVE  th[p].w = w
<1> DEFINE t == th[p].t
<1>1. /\ th[p].pc \in RetirePcs /\ t \in Tasks /\ w \in Workers /\ rowTask[w] # None
  BY ObservedFacts DEF RetireCommit, At, RetirePcs, InsidePcs
<1>2. task[t] \in Active /\ task[t] \notin Terminal
  BY DEF ObservedInv, OneLife, Active, Terminal
<1>3. th[p].w # None /\ handles[t] = th[p].w
  BY <1>1, <1>2 DEF ObservedInv, ArgumentsCurrent
<1>4. rowTask[th[p].w] = t
  BY <1>1, <1>2, <1>3 DEF ObservedInv, HandlesTied, ReservedWhileClaimed, Active, Terminal
<1> QED BY <1>1, <1>3, <1>4, ObservedFacts DEF ObservedInv, OneLife, ThreadRecord

\* A task that has a row is never queued again and never gets a second one.
LEMMA OneLifeStep ==
  ASSUME ObservedInv, [Next]_vars
  PROVE  OneLife'
<1>0. /\ OneLife /\ RowsInv /\ RowsInv'
  BY RowsInvStep DEF ObservedInv
<1>1. ASSUME NEW w \in Workers, rowTask'[w] # None
      PROVE  \/ rowTask[w] = rowTask'[w]
             \/ \E t \in Tasks : /\ ActivateWorker(t, w) /\ rowTask'[w] = t /\ task[t] = "DISPATCHING"
                                 /\ task' = [task EXCEPT ![t] = "RUNNING"]
  BY <1>1, RowOrigin DEF ActivateWorker, PutState, ObservedInv, RowsInv
<1>2. ASSUME NEW w \in Workers, rowTask'[w] # None PROVE task'[rowTask'[w]] \in Active \cup Terminal
  <2>1. CASE rowTask[w] = rowTask'[w]
    BY <1>0, <1>2, <2>1, TaskMoves, ObservedFacts DEF OneLife
  <2>2. ASSUME NEW t \in Tasks, rowTask'[w] = t, task' = [task EXCEPT ![t] = "RUNNING"]
        PROVE  task'[rowTask'[w]] \in Active \cup Terminal
    BY <2>2, ObservedFacts DEF Active
  <2> QED BY <1>1, <1>2, <2>1, <2>2
<1>3. ASSUME NEW v \in Workers, NEW w \in Workers, rowTask'[v] # None, rowTask'[v] = rowTask'[w] PROVE v = w
  <2>1. ASSUME NEW t \in Tasks, NEW x \in Workers, task[t] = "DISPATCHING", rowTask[x] = t PROVE FALSE
    BY <1>0, <2>1, ObservedFacts DEF OneLife, Active, Terminal
  <2>2. ASSUME NEW t \in Tasks, ActivateWorker(t, v), ActivateWorker(t, w) PROVE v = w
    <3>1. rowTask'[w] = t /\ rowTask[w] = None
      BY <2>2, ObservedFacts DEF ActivateWorker
    <3> QED BY <2>2, <3>1, ObservedFacts DEF ActivateWorker
  <2> QED BY <1>0, <1>1, <1>3, <2>1, <2>2 DEF OneLife
<1>4. ASSUME NEW w \in live' PROVE task'[rowTask'[w]] \in Active
  <2>0. w \in Workers /\ rowTask'[w] # None
    BY <1>0, RowFacts, TypeInvStep DEF RowsInv, TypeInv, FlotillaTypeOK, StoreTypeOK, OneLiveRow
  <2>1. ASSUME NEW t \in Tasks, rowTask'[w] = t, task' = [task EXCEPT ![t] = "RUNNING"]
        PROVE  task'[rowTask'[w]] \in Active
    BY <2>1, ObservedFacts DEF Active
  <2>2. CASE rowTask[w] = rowTask'[w]
    <3>1. w \in live
      BY <1>0, <2>0, <2>2, LiveOrigin, ObservedFacts DEF RowsInv, JobRowless
    <3>2. task[rowTask[w]] \in Active /\ rowTask[w] \in Tasks
      BY <1>0, <2>0, <2>2, <3>1, ObservedFacts DEF OneLife
    <3>3. ASSUME task'[rowTask[w]] \in Terminal PROVE FALSE
      <4>1. ASSUME NEW p \in Threads, RetireCommit(p), Finishes(th[p].t, th[p].w, th[p].term) PROVE FALSE
        <5>1. th[p].t = rowTask[w]
          BY <3>2, <3>3, <4>1, ObservedFacts DEF Finishes, FinishWorker, PutState, Active, Terminal
        <5>2. th[p].w = w
          BY <3>1, <4>1, <5>1, FinishesOwn
        <5> QED BY <4>1, <5>2 DEF Finishes, FinishWorker
      <4>2. ASSUME NEW t \in Tasks, Finishes(t, ActiveWorkerId(t), "LOST") PROVE FALSE
        <5>1. t = rowTask[w]
          BY <3>2, <3>3, <4>2, ObservedFacts DEF Finishes, FinishWorker, PutState, Active, Terminal
        <5>2. LiveRows(t) = {w}
          BY <1>0, <3>1, <5>1 DEF RowsInv, OneLiveRow
        <5>3. ActiveWorkerId(t) = w
          BY <5>2 DEF ActiveWorkerId
        <5> QED BY <4>2, <5>3 DEF Finishes, FinishWorker
      <4>3. ASSUME UNCHANGED storeVars PROVE FALSE
        BY <3>2, <3>3, <4>3 DEF storeVars, Active, Terminal
      <4>4. ASSUME NEW b, NEW place, CreateTasks(b, place) PROVE FALSE
        BY <3>2, <3>3, <4>4 DEF CreateTasks, Active, Terminal
      <4>5. CASE ClaimQueuedTasks
        BY <3>2, <3>3, <4>5 DEF ClaimQueuedTasks, Active, Terminal
      <4>6. ASSUME NEW S, MarkStaleDispatchingLost(S) PROVE FALSE
        BY <3>2, <3>3, <4>6 DEF MarkStaleDispatchingLost, Dispatching, Active, Terminal
      <4>7. ASSUME NEW u \in Tasks, NEW c \in SetCalls, SetTaskState(u, c[1], c[2]) PROVE FALSE
        <5>1. u = rowTask[w]
          BY <3>2, <3>3, <4>7, ObservedFacts DEF SetTaskState, PutState, Active, Terminal
        <5>2. c \in {"QUEUED", "FAILED", "LOST"} \X {{"DISPATCHING"}} \/ c[1] \in Active
          BY DEF SetCalls, Active
        <5> QED BY <3>2, <3>3, <4>7, <5>1, <5>2, ObservedFacts DEF SetTaskState, PutState, Active, Terminal
      <4>8. ASSUME NEW u \in Tasks, ActivateWorker(u, job[u].w) PROVE FALSE
        BY <3>2, <3>3, <4>8, ObservedFacts DEF ActivateWorker, PutState, Active, Terminal
      <4> QED BY <4>1, <4>2, <4>3, <4>4, <4>5, <4>6, <4>7, <4>8, UndisturbedCall
    <3> QED BY <2>2, <3>2, <3>3, TaskMoves
  <2> QED BY <1>1, <2>0, <2>1, <2>2
<1> QED BY <1>2, <1>3, <1>4 DEF OneLife

\* At start-up only the reconciliation and the workers move.
\* ... the server only reconciles, and the workers go on.
LEMMA BootingMoves ==
  ASSUME ObservedInv, [Next]_vars, boot # {}
  PROVE  (\E t \in Tasks : Reconcile(t)) \/ (\E w \in Workers : WorkerStep(w)) \/ UNCHANGED vars
<1>0. /\ \A p \in Threads : th[p] = IdleThread
      /\ \A t \in Tasks : job[t] = NoJob
      /\ todo = {} /\ ~Serving
  BY DEF ObservedInv, Booting, Serving
<1>1. ~SubmitTasks /\ ~ObserverSnapshot /\ ~ObserverItem /\ ~MarkStale /\ ~Claim /\ ~Crash
  BY <1>0 DEF SubmitTasks, ObserverSnapshot, ObserverItem, MarkStale, Claim, Crash
<1>2. ASSUME NEW p \in Requests, RequestStep(p) PROVE FALSE
  <2>1. th[p].pc = "idle"
    BY <1>0 DEF IdleThread, Threads
  <2> QED BY <1>0, <1>2, <2>1 DEF RequestStep, RequestStop, RequestNudge, RequestDelete, Begin, WorkerPing,
                                 EraseTask, PingTarget, At
<1>3. \A p \in Threads : ~RetireStep(p) /\ ~ActuateStep(p)
  BY <1>0 DEF RetireStep, ActuateStep, RetireStuck, RetireEnter, RetireRead, RetireStop, RetireEvaluate,
              RetireCommit, RetireRelease, RetireLeave, HaltWorker, VerifyCancelled, NudgeWorker, At, IdleThread
<1>4. \A t \in Tasks : ~DispatchStep(t)
  BY <1>0 DEF DispatchStep, ResolveBusy, ResolveUnfit, Resolve, Launch, LaunchFailed, RegisterHandle,
              Activate, CleanupStop, CleanupRegistry, Unclaim, InPhase, NoJob
<1> QED BY <1>1, <1>2, <1>3, <1>4, Steps

\* Nothing starts before the last active task has been looked at.
LEMMA BootingStep ==
  ASSUME ObservedInv, [Next]_vars
  PROVE  Booting'
<1>0. Booting
  BY DEF ObservedInv
<1> SUFFICES ASSUME boot' # {}
             PROVE  /\ \A p \in Threads : th'[p] = IdleThread
                    /\ \A t \in Tasks : job'[t] = NoJob
                    /\ todo' = {} /\ boot' \subseteq {t \in Tasks : task'[t] \in Active}
  BY DEF Booting
<1>1. CASE Crash
  BY <1>1 DEF Crash, storeVars
<1>2. CASE ~Crash
  <2>1. boot' \subseteq boot
    <3>1. ASSUME NEW t \in Tasks, Reconcile(t) PROVE boot' \subseteq boot
      BY <3>1 DEF Reconcile
    <3>2. CASE UNCHANGED vars
      BY <3>2 DEF vars, controlVars, bootVars
    <3> QED BY <1>2, <3>1, <3>2, Steps, WorkerFrame, RequestFrame, ThreadFrame, DispatchFrame, OtherFrames
            DEF controlVars, bootVars
  <2>2. /\ boot # {} /\ \A p \in Threads : th[p] = IdleThread
        /\ \A t \in Tasks : job[t] = NoJob
        /\ todo = {} /\ boot \subseteq {t \in Tasks : task[t] \in Active}
    BY <1>0, <2>1 DEF Booting
  <2>3. ASSUME NEW t \in Tasks, Reconcile(t)
        PROVE  /\ UNCHANGED <<th, job, todo>> /\ boot' = boot \ {t}
               /\ \A u \in Tasks \ {t} : task'[u] = task[u]
    BY <2>3, ObservedFacts DEF Reconcile, FinishWorker, PutState, storeVars
  <2>4. ASSUME UNCHANGED <<storeVars, th, job, todo, bootVars>>
        PROVE  UNCHANGED <<task, th, job, todo, boot>>
    BY <2>4 DEF storeVars, bootVars
  <2>5. CASE UNCHANGED vars
    BY <2>2, <2>5 DEF vars, storeVars, controlVars, bootVars
  <2> QED BY <2>2, <2>3, <2>4, <2>5, BootingMoves, WorkerFrame DEF controlVars
<1> QED BY <1>1, <1>2

\* How a claim advances.
LEMMA ClaimMoves ==
  ASSUME ObservedInv, Undisturbed, [Next]_vars, NEW t \in Tasks
  PROVE  \/ job'[t] = job[t] \/ job'[t] = NoJob
         \/ Claim /\ task'[t] = "DISPATCHING" /\ job'[t].phase = "claimed" /\ job'[t].w = None
         \/ Resolve(t) /\ job'[t].phase = "prepared"
         \/ Launch(t) /\ job'[t].phase \in {"started", "startFailed"} /\ job'[t].w = job[t].w
         \/ LaunchFailed(t) /\ job'[t].phase \in {"unclaim", "unclaimFailed"} /\ job'[t].w = job[t].w
         \/ RegisterHandle(t) /\ job'[t].phase = "registered" /\ job'[t].w = job[t].w
         \/ /\ Activate(t) /\ job'[t].phase = "cleanup" /\ job'[t].w = job[t].w
            /\ task[t] # "DISPATCHING" /\ UNCHANGED storeVars
         \/ CleanupStop(t) /\ job'[t].phase \in {"stopped", "stopFailed"} /\ job'[t].w = job[t].w
         \/ CleanupRegistry(t) /\ job'[t].phase \in {"unclaim", "unclaimLost"} /\ job'[t].w = job[t].w
<1>0. job \in [Tasks -> [phase : Phases, w : Workers \cup {None}]] /\ "database" \notin Faults
  BY ObservedFacts DEF ControlTypeOK, Undisturbed
<1>1. ASSUME NEW u \in Tasks, DispatchStep(u), u # t PROVE job'[t] = job[t]
  BY <1>0, <1>1 DEF DispatchStep, ResolveBusy, ResolveUnfit, Resolve, Launch, LaunchFailed, RegisterHandle,
     Activate, CleanupStop, CleanupRegistry, Unclaim, Advance, EndJob
<1>2. CASE ResolveBusy(t) \/ ResolveUnfit(t) \/ Unclaim(t)
  BY <1>0, <1>2 DEF ResolveBusy, ResolveUnfit, Unclaim, EndJob
<1>3. CASE Resolve(t) \/ Launch(t) \/ LaunchFailed(t) \/ RegisterHandle(t)
  BY <1>0, <1>3 DEF Resolve, Launch, LaunchFailed, RegisterHandle, Advance
<1>4. CASE Activate(t)
  BY <1>0, <1>4 DEF Activate, Advance, EndJob, Fault
<1>5. CASE CleanupStop(t) \/ CleanupRegistry(t)
  BY <1>0, <1>5 DEF CleanupStop, CleanupRegistry, Advance
<1>6. CASE Claim
  <2>1. t \in Claimed => task'[t] = "DISPATCHING"
    BY <1>6, ObservedFacts DEF Claim, ClaimQueuedTasks
  <2> QED BY <1>6, <2>1 DEF Claim
<1>7. CASE Crash
  BY <1>7 DEF Crash
<1>8. CASE UNCHANGED vars
  BY <1>8 DEF vars, controlVars
<1> QED BY <1>1, <1>2, <1>3, <1>4, <1>5, <1>6, <1>7, <1>8, Steps, WorkerFrame, RequestFrame, ThreadFrame, OtherFrames
        DEF controlVars, DispatchStep

\* A handle in the registry is replaced or removed only when its task is settled.
LEMMA HandleKept ==
  ASSUME ObservedInv, [Next]_vars, NEW t \in Tasks, handles[t] # None, boot = {}
  PROVE  handles'[t] = handles[t] \/ task'[t] \in Terminal \/ Crash
<1>0. handles \in [Tasks -> Workers \cup {None}]
  BY ObservedFacts DEF ControlTypeOK
<1>1. task[t] \in Terminal => task'[t] \in Terminal
  BY TaskMoves
<1>2. ASSUME job[t].phase # "registered", job[t].phase # "none" PROVE task[t] \in Terminal
  BY <1>0, <1>2, ObservedFacts DEF ObservedInv, HandlesTied, ReservedWhileClaimed, OneLife, Active, Terminal
<1>3. ASSUME NEW p \in Threads, RetireRead(p) PROVE handles'[t] = handles[t] \/ task'[t] \in Terminal
  <2>1. ASSUME t = th[p].t, task[t] = Absent PROVE FALSE
    BY <1>0, <2>1, ObservedFacts DEF ObservedInv, HandlesTied, ReservedWhileClaimed, OneLife, Active, Terminal, Absent
  <2> QED BY <1>0, <1>1, <1>3, <2>1 DEF RetireRead, Unregister
<1>4. ASSUME NEW p \in Threads, RetireLeave(p) PROVE handles'[t] = handles[t] \/ task'[t] \in Terminal
  <2>1. task[th[p].t] \in Terminal
    BY <1>4 DEF ObservedInv, ArgumentsCurrent, RetireLeave, At
  <2> QED BY <1>0, <1>1, <1>4, <2>1 DEF RetireLeave, Unregister
<1>5. ASSUME NEW u \in Tasks, RegisterHandle(u) \/ CleanupRegistry(u)
      PROVE  handles'[t] = handles[t] \/ task'[t] \in Terminal
  BY <1>0, <1>1, <1>2, <1>5 DEF RegisterHandle, Register, CleanupRegistry, Unregister, InPhase
<1>6. \A u \in Tasks : ~Reconcile(u)
  BY DEF Reconcile
<1>7. CASE UNCHANGED vars
  BY <1>7 DEF vars, controlVars, registryVars
<1> QED BY <1>3, <1>4, <1>5, <1>6, <1>7, Steps, WorkerFrame, RequestFrame, ThreadFrame, DispatchFrame, OtherFrames
        DEF controlVars, registryVars

\* A claim under way has its task reserved, or settled by another thread.
LEMMA ReservedStep ==
  ASSUME ObservedInv, Undisturbed, [Next]_vars
  PROVE  ReservedWhileClaimed'
<1>0. job \in [Tasks -> [phase : Phases, w : Workers \cup {None}]] /\ ReservedWhileClaimed
  BY ObservedFacts DEF ControlTypeOK, ObservedInv
<1> SUFFICES ASSUME NEW t \in Tasks
             PROVE  /\ job'[t].phase # "none" => task'[t] \in {"DISPATCHING"} \cup Terminal
                    /\ job'[t].phase \in {"cleanup", "stopped", "stopFailed"} => task'[t] \in Terminal
                    /\ job'[t].phase = "registered" /\ task'[t] = "DISPATCHING" => handles'[t] = job'[t].w
  BY DEF ReservedWhileClaimed
<1>1. task[t] \in Terminal => task'[t] \in Terminal
  BY TaskMoves
<1>2. job'[t].phase # "none" => job[t].phase # "none" \/ (Claim /\ task'[t] = "DISPATCHING")
  BY <1>0, ClaimMoves
     DEF NoJob, Resolve, Launch, LaunchFailed, RegisterHandle, Activate, CleanupStop, CleanupRegistry, InPhase
<1>3. ASSUME Activate(t), ActivateWorker(t, job[t].w), task[t] = "DISPATCHING" PROVE job'[t] = NoJob
  BY <1>0, <1>3 DEF Activate, EndJob, Undisturbed, Fault
<1>4. job'[t].phase # "none" => task'[t] \in {"DISPATCHING"} \cup Terminal
  BY <1>0, <1>1, <1>2, <1>3, TaskMoves DEF ReservedWhileClaimed, NoJob
<1>5. ASSUME job'[t].phase \in {"cleanup", "stopped", "stopFailed"} PROVE task'[t] \in Terminal
  <2>1. job[t].phase \in {"cleanup", "stopped", "stopFailed"} => task[t] \in Terminal
    BY <1>0 DEF ReservedWhileClaimed
  <2>2. ASSUME Activate(t), task[t] # "DISPATCHING" PROVE task[t] \in Terminal
    BY <1>0, <2>2 DEF Activate, InPhase, ReservedWhileClaimed
  <2> QED BY <1>1, <1>5, <2>1, <2>2, ClaimMoves DEF NoJob, CleanupStop, InPhase
<1>6. ASSUME job'[t].phase = "registered", task'[t] = "DISPATCHING" PROVE handles'[t] = job'[t].w
  <2>1. CASE RegisterHandle(t) /\ job'[t].w = job[t].w
    BY <2>1, ObservedFacts DEF RegisterHandle, Register, ControlTypeOK
  <2>2. CASE job'[t] = job[t]
    <3>1. task[t] = "DISPATCHING"
      BY <1>0, <1>1, <1>6, <2>2 DEF ReservedWhileClaimed, Terminal
    <3>2. handles[t] = job[t].w /\ handles[t] # None
      BY <1>0, <1>6, <2>2, <3>1 DEF ReservedWhileClaimed, ObservedInv, RowsInv, TypeInv, JobArgs
    <3>3. boot = {} /\ ~Crash
      BY <1>6, <2>2 DEF ObservedInv, Booting, NoJob, Crash
    <3>4. task'[t] \notin Terminal
      BY <1>6 DEF Terminal
    <3> QED BY <2>2, <3>2, <3>3, <3>4, HandleKept
  <2> QED BY <1>6, <2>1, <2>2, ClaimMoves DEF NoJob
<1> QED BY <1>4, <1>5, <1>6

\* A claim whose handle is registered ends by its activation, unless the server does.
LEMMA RegisteredEnds ==
  ASSUME ObservedInv, Undisturbed, [Next]_vars, ~Crash,
         NEW t \in Tasks, job[t].phase = "registered", task[t] = "DISPATCHING", job'[t] = NoJob
  PROVE  Activate(t) /\ ActivateWorker(t, job[t].w)
<1>0. job \in [Tasks -> [phase : Phases, w : Workers \cup {None}]]
  BY ObservedFacts DEF ControlTypeOK
<1>1. ASSUME NEW u \in Tasks, DispatchStep(u), u # t PROVE job'[t] = job[t]
  BY <1>0, <1>1 DEF DispatchStep, ResolveBusy, ResolveUnfit, Resolve, Launch, LaunchFailed, RegisterHandle,
     Activate, CleanupStop, CleanupRegistry, Unclaim, Advance, EndJob
<1>2. job'[t] # job[t]
  BY DEF NoJob
<1>3. ~Claim
  BY DEF Claim, Between, NoJob
<1>4. ~UNCHANGED vars
  BY <1>2 DEF vars, controlVars
<1>5. DispatchStep(t)
  BY <1>1, <1>2, <1>3, <1>4, Steps, WorkerFrame, RequestFrame, ThreadFrame, OtherFrames DEF controlVars
<1> QED BY <1>0, <1>5
        DEF DispatchStep, ResolveBusy, ResolveUnfit, Resolve, Launch, LaunchFailed, RegisterHandle,
            Activate, CleanupStop, CleanupRegistry, Unclaim, InPhase, Undisturbed, Fault, Advance, NoJob

\* A handle comes from a claim that is activated, or from a live row.
LEMMA HandlesTiedStep ==
  ASSUME ObservedInv, Undisturbed, [Next]_vars
  PROVE  HandlesTied'
<1> SUFFICES ASSUME NEW t \in Tasks, handles'[t] # None, task'[t] \notin Terminal
             PROVE  rowTask'[handles'[t]] = t \/ (job'[t].phase = "registered" /\ job'[t].w = handles'[t])
  BY DEF HandlesTied
<1>0. /\ TypeInv /\ RowsInv
      /\ handles \in [Tasks -> Workers \cup {None}] /\ job \in [Tasks -> [phase : Phases, w : Workers \cup {None}]]
  BY ObservedFacts DEF ControlTypeOK
<1>1. CASE handles'[t] = handles[t]
  <2>1. CASE rowTask[handles[t]] = t
    BY <1>0, <1>1, <2>1, RowKept, ObservedFacts
  <2>2. CASE job[t].phase = "registered" /\ job[t].w = handles[t]
    <3>1. CASE Activate(t) /\ ActivateWorker(t, job[t].w)
      BY <1>0, <1>1, <2>2, <3>1, ObservedFacts DEF ActivateWorker
    <3>2. CASE job'[t] = job[t]
      BY <1>1, <2>2, <3>2
    <3>3. ~Crash
      BY DEF Crash
    <3>4. task[t] \in {"DISPATCHING"} \cup Terminal
      BY <2>2 DEF ObservedInv, ReservedWhileClaimed
    <3>5. task[t] = "DISPATCHING"
      BY <3>4, TaskMoves
    <3>6. ASSUME job'[t] = NoJob PROVE Activate(t) /\ ActivateWorker(t, job[t].w)
      BY <2>2, <3>3, <3>5, <3>6, RegisteredEnds
    <3> QED BY <2>2, <3>1, <3>2, <3>5, <3>6, ClaimMoves
            DEF Claim, Between, NoJob, Resolve, Launch, LaunchFailed, RegisterHandle, CleanupStop, CleanupRegistry,
                InPhase
  <2>3. task[t] \notin Terminal
    BY TaskMoves
  <2> QED BY <1>1, <2>1, <2>2, <2>3 DEF ObservedInv, HandlesTied
<1>2. CASE RegisterHandle(t) /\ handles'[t] = job[t].w
  BY <1>0, <1>2 DEF RegisterHandle, Advance
<1>3. CASE Reconcile(t) /\ handles'[t] = ActiveWorkerId(t)
  <2>1. ActiveWorkerId(t) \in live /\ rowTask[ActiveWorkerId(t)] = t
    BY <1>3, ActiveWorkerIdType, ObservedFacts DEF LiveRows
  <2> QED BY <1>3, <2>1, RowKept, ObservedFacts
<1> QED BY <1>0, <1>1, <1>2, <1>3, HandleOrigin

\* What was known of a worker stays known while nothing restarts.
LEMMA KnownKept ==
  ASSUME ObservedInv, [Next]_vars, NEW t \in Tasks, NEW w \in Workers, boot = {}, ~Crash,
         handles[t] = w \/ task[t] \in Terminal
  PROVE  handles'[t] = w \/ task'[t] \in Terminal
BY HandleKept, TaskMoves, ObservedFacts

\* The arguments a thread carries along stay those of the registry, or the task is settled.
LEMMA ArgumentsStep ==
  ASSUME ObservedInv, Undisturbed, [Next]_vars
  PROVE  ArgumentsCurrent'
<1>0. /\ ArgumentsCurrent /\ TypeInv /\ None \notin Workers
      /\ todo \subseteq Tasks \X Workers /\ handles \in [Tasks -> Workers \cup {None}]
      /\ \A p \in Threads : th[p] \in ThreadRecord /\ (th[p].pc # "idle" => th[p].t \in Tasks)
      /\ \A p \in Threads : th[p].pc = "idle" => th[p] = IdleThread
  BY ObservedFacts DEF ControlTypeOK, ObservedInv
<1>1. ASSUME NEW i \in todo' PROVE handles'[i[1]] = i[2] \/ task'[i[1]] \in Terminal
  <2>1. i \in todo \/ (ObserverSnapshot /\ i \in Tasks \X Workers /\ handles[i[1]] = i[2])
    <3>1. CASE ObserverSnapshot \/ ObserverItem
      BY <1>1, <3>1 DEF ObserverSnapshot, ObserverItem
    <3>2. CASE Crash
      BY <1>1, <3>2 DEF Crash
    <3>3. CASE UNCHANGED vars
      BY <1>1, <3>3 DEF vars, controlVars
    <3> QED BY <1>1, <3>1, <3>2, <3>3, Steps, WorkerFrame, RequestFrame, ThreadFrame, DispatchFrame, OtherFrames
            DEF controlVars
  <2>2. i[1] \in Tasks /\ i[2] \in Workers /\ (handles[i[1]] = i[2] \/ task[i[1]] \in Terminal)
    BY <1>0, <2>1 DEF ArgumentsCurrent
  <2>3. boot = {} /\ ~Crash
    BY <1>1, <2>1 DEF ObservedInv, Booting, ObserverSnapshot, Serving, Crash
  <2> QED BY <2>2, <2>3, KnownKept
<1> SUFFICES ASSUME NEW p \in Threads, th'[p].pc # "idle"
             PROVE  /\ th'[p].pc \in {"halt"} \cup RetirePcs =>
                         (th'[p].w # None /\ handles'[th'[p].t] = th'[p].w) \/ task'[th'[p].t] \in Terminal
                    /\ th'[p].pc \in {"release", "leave"} => task'[th'[p].t] \in Terminal
                    /\ th'[p].pc = "target" => task'[th'[p].t] \in Active \cup Terminal /\ Kind[th'[p].t] = "local"
  BY <1>1 DEF ArgumentsCurrent, RetirePcs, InsidePcs
<1> DEFINE t == th'[p].t
           w == th'[p].w
           Known == (w # None /\ handles'[t] = w) \/ task'[t] \in Terminal
           Knew == (w # None /\ handles[t] = w) \/ task[t] \in Terminal
<1>2. /\ t \in Tasks /\ w \in Workers \cup {None} /\ th'[p] # IdleThread
      /\ ~Crash /\ boot = {}
  <2>1. TypeInv'
    BY TypeInvStep, ObservedFacts
  <2>2. t \in Tasks /\ w \in Workers \cup {None} /\ th'[p] # IdleThread /\ ~Crash
    BY <2>1 DEF TypeInv, FlotillaTypeOK, ControlTypeOK, ThreadArgs, ArgsFit, ThreadRecord, IdleThread, Crash
  <2>3. boot' = {}
    BY <2>2, BootingStep DEF Booting
  <2>4. boot = {}
    <3>1. ASSUME boot # {} PROVE th'[p] = th[p] /\ th[p] = IdleThread
      <4>1. th[p] = IdleThread /\ th[p].pc = "idle" /\ ~Serving /\ todo = {}
        <5>1. Booting
          BY DEF ObservedInv
        <5>2. th[p] = IdleThread /\ ~Serving /\ todo = {}
          BY <3>1, <5>1 DEF Booting, Serving
        <5> QED BY <5>2 DEF IdleThread
      <4>2. ~\E u \in Tasks : Asks(p, u) \/ Pings(p, u)
        BY <4>1 DEF Asks, Pings
      <4>3. ~Targets(p) /\ ~Observes(p) /\ ~Halts(p)
        BY <4>1 DEF Targets, Observes, Halts
      <4>4. ~Enters(p) /\ ~ReadsOn(p) /\ ~LateStep(p)
        BY <4>1 DEF Enters, RetireEnter, ReadsOn, RetireRead, LateStep, LatePcs, At
      <4> QED BY <2>2, <4>1, <4>2, <4>3, <4>4, UndisturbedMoves
    <3> QED BY <2>2, <3>1
  <2> QED BY <2>2, <2>4
<1>3. Knew => Known
  <2>1. ASSUME w # None, handles[t] = w PROVE Known
    BY <1>2, <2>1, KnownKept
  <2> QED BY <1>2, <2>1, TaskMoves
<1>4. /\ task[t] \in Terminal => task'[t] \in Terminal
      /\ task[t] \in Active => task'[t] \in Active \cup Terminal
  BY <1>2, TaskMoves
<1>5. CASE th'[p] = th[p]
  BY <1>0, <1>3, <1>4, <1>5 DEF ArgumentsCurrent
<1>6. ASSUME NEW u \in Tasks, Asks(p, u) PROVE th'[p].pc \in {"halt", "paste"} /\ Knew
  BY <1>6 DEF Asks
<1>7. ASSUME NEW u \in Tasks, Pings(p, u) PROVE th'[p].pc = "target" /\ task[t] \in Active /\ Kind[t] = "local"
  BY <1>7 DEF Pings
<1>8. CASE Targets(p)
  <2>1. /\ th[p].pc = "target" /\ th[p].t = t /\ w = ActiveWorkerId(t)
        /\ th'[p].pc \in {"stick", "enter"}
    BY <1>8 DEF Targets
  <2>2. task[t] \in Active \cup Terminal /\ Kind[t] = "local"
    BY <1>0, <2>1 DEF ArgumentsCurrent
  <2>3. ASSUME task[t] \in Active PROVE w # None /\ handles[t] = w
    <3>1. handles[t] \in LiveRows(t)
      BY <1>2, <2>2, <2>3 DEF ObservedInv, Observed, Reachable
    <3>2. LiveRows(t) = {handles[t]}
      BY <3>1 DEF ObservedInv, RowsInv, OneLiveRow, LiveRows
    <3> QED BY <1>0, <1>2, <2>1, <3>2, ActiveWorkerIdType, ObservedFacts DEF LiveRows
  <2> QED BY <1>3, <2>1, <2>2, <2>3 DEF RetirePcs, InsidePcs
<1>9. CASE Observes(p)
  <2>1. PICK i \in todo : t = i[1] /\ w = i[2] /\ th'[p].pc \in {"stick", "enter"}
    BY <1>9 DEF Observes
  <2>2. Knew
    BY <1>0, <2>1 DEF ArgumentsCurrent
  <2> QED BY <1>3, <2>1, <2>2
<1>10. CASE Halts(p)
  BY <1>0, <1>3, <1>10 DEF Halts, ArgumentsCurrent
<1>11. CASE Enters(p)
  <2>1. th'[p].t = th[p].t /\ th'[p].w = th[p].w /\ th'[p].pc = "read" /\ th[p].pc = "enter"
    BY <1>0, <1>11 DEF Enters, RetireEnter, At, ThreadRecord
  <2> QED BY <1>0, <1>3, <2>1 DEF ArgumentsCurrent, RetirePcs, InsidePcs
<1>12. CASE ReadsOn(p)
  <2>1. t = th[p].t /\ w = th[p].w /\ th[p].pc = "read" /\ th'[p].pc \in {"stop", "evaluate", "commit"}
    BY <1>12 DEF ReadsOn, RetireRead, At, AfterRead, AfterStop
  <2> QED BY <1>0, <1>3, <2>1 DEF ArgumentsCurrent, RetirePcs, InsidePcs
<1>13. CASE LateStep(p)
  <2>1. t = th[p].t /\ w = th[p].w /\ th[p].pc \in RetirePcs /\ th'[p].pc \in LatePcs
    BY <1>13 DEF LateStep, SameArgs, LatePcs, RetirePcs, InsidePcs
  <2>2. Known
    BY <1>0, <1>3, <2>1 DEF ArgumentsCurrent
  <2>3. ASSUME th'[p].pc \in {"release", "leave"} PROVE task'[t] \in Terminal
    <3>1. CASE RetireRelease(p)
      BY <1>0, <1>4, <2>1, <3>1 DEF ArgumentsCurrent, RetireRelease, At
    <3>2. CASE RetireStop(p) \/ RetireEvaluate(p)
      <4>1. th \in [Threads -> ThreadRecord] /\ th[p] \in ThreadRecord
        BY <1>0, ObservedFacts DEF ControlTypeOK
      <4>2. CASE RetireStop(p)
        BY <2>3, <4>1, <4>2 DEF RetireStop, Goto, Becomes, AfterStop, ThreadRecord
      <4>3. CASE RetireEvaluate(p)
        <5>1. PICK verdict : Becomes(p, [th[p] EXCEPT !.pc = "commit", !.term = verdict])
          BY <4>3 DEF RetireEvaluate
        <5> QED BY <2>3, <4>1, <5>1 DEF Becomes, ThreadRecord
      <4> QED BY <3>2, <4>2, <4>3
    <3>3. CASE RetireCommit(p)
      <4>1. ~th[p].done /\ th[p].op # "delete"
        BY <3>3 DEF ObservedInv, NoDeletion, RetireCommit, At
      <4>2. ASSUME NEW result, Becomes(p, AfterRetire(p, result)) PROVE FALSE
        BY <1>2, <4>1, <4>2, ObservedFacts DEF Becomes, AfterRetire, ControlTypeOK
      <4>3. th[p].t \in Tasks /\ th[p].term \in Terminal /\ FinishWorker(th[p].t, th[p].w, th[p].term)
        BY <1>2, <2>1, <3>3, <4>1, <4>2, ObservedFacts DEF RetireCommit, TypeInv, ThreadArgs, ArgsFit
      <4> QED BY <2>1, <4>3, ObservedFacts DEF FinishWorker, PutState
    <3> QED BY <1>13, <3>1, <3>2, <3>3 DEF LateStep
  <2> QED BY <2>1, <2>2, <2>3 DEF LatePcs
<1> QED BY <1>2, <1>3, <1>4, <1>5, <1>6, <1>7, <1>8, <1>9, <1>10, <1>11, <1>12, <1>13, UndisturbedMoves
        DEF RetirePcs, InsidePcs

\* Nothing is being deleted, and no retirement finds its task settled and its row live.
LEMMA NoDeletionStep ==
  ASSUME ObservedInv, Undisturbed, [Next]_vars
  PROVE  NoDeletion'
<1>0. NoDeletion /\ TypeInv /\ OneLife
  BY ObservedFacts DEF ObservedInv
<1> SUFFICES ASSUME NEW p \in Threads
             PROVE  /\ th'[p].pc # "idle" => th'[p].op # "delete"
                    /\ th'[p].pc \notin {"verify", "erase"} /\ ~th'[p].done
  BY DEF NoDeletion
<1>1. /\ th[p].pc # "idle" => th[p].op # "delete"
      /\ th[p].pc \notin {"verify", "erase"} /\ ~th[p].done /\ th[p] \in ThreadRecord
  BY <1>0, ObservedFacts DEF NoDeletion
<1>2. CASE th'[p] = IdleThread
  BY <1>2 DEF IdleThread
<1>3. ASSUME NEW t \in Tasks, Asks(p, t) \/ Pings(p, t)
      PROVE  th'[p].op # "delete" /\ th'[p].pc \notin {"verify", "erase"} /\ ~th'[p].done
  BY <1>3 DEF Asks, Pings
<1>4. CASE Targets(p) \/ Observes(p) \/ Halts(p)
  BY <1>1, <1>4 DEF Targets, Observes, Halts
<1>5. CASE Enters(p)
  BY <1>1, <1>5 DEF Enters, RetireEnter, At, ThreadRecord
<1>6. CASE ReadsOn(p)
  <2>1. ASSUME task[th[p].t] \in Terminal PROVE FALSE
    <3>1. th[p].w \in live
      BY <1>6, <2>1 DEF ReadsOn
    <3>2. rowTask[th[p].w] # None /\ th[p].w # None
      BY <3>1, ObservedFacts DEF ObservedInv, RowsInv, OneLiveRow
    <3>3. rowTask[th[p].w] = th[p].t
      BY <1>0, <3>1, <3>2, ObservedFacts DEF TypeInv, HomesAgree, RowHomes, ThreadHomes
    <3> QED BY <1>0, <2>1, <3>1, <3>3 DEF OneLife, Active, Terminal
  <2> QED BY <1>1, <1>6, <2>1 DEF ReadsOn, RetireRead, At, AfterRead, AfterStop
<1>7. CASE LateStep(p)
  BY <1>1, <1>7 DEF LateStep, SameArgs, LatePcs
<1> QED BY <1>1, <1>2, <1>3, <1>4, <1>5, <1>6, <1>7, UndisturbedMoves

\* The registry has the handle of the live row: from the activation on, through
\* every retirement of the task before, and again once it has been reconciled.
LEMMA ObservedStep ==
  ASSUME ObservedInv, Undisturbed, [Next]_vars
  PROVE  Observed'
<1>0. /\ TypeInv /\ task \in [Tasks -> STATES \cup {Absent}] /\ queue \in Seq(Tasks)
      /\ rowTask \in [Workers -> Tasks \cup {None}] /\ None \notin Workers /\ None \notin Tasks
      /\ live \subseteq Workers
      /\ handles \in [Tasks -> Workers \cup {None}] /\ job \in [Tasks -> [phase : Phases, w : Workers \cup {None}]]
  BY ObservedFacts DEF ControlTypeOK
<1> SUFFICES ASSUME NEW t \in Tasks, task'[t] \in Active, t \notin boot', Reachable(t)
             PROVE  handles'[t] \in live' /\ rowTask'[handles'[t]] = t
  BY DEF Observed, LiveRows, Reachable
<1>1. ~Crash /\ task'[t] \notin Terminal
  BY DEF Crash, storeVars, Active, Terminal
<1>2. CASE Activate(t) /\ ActivateWorker(t, job[t].w)
  <2>1. job[t].phase = "registered" /\ task[t] = "DISPATCHING" /\ UNCHANGED handles
    BY <1>2 DEF Activate, ActivateWorker, InPhase
  <2>2. handles[t] = job[t].w /\ job[t].w \in Workers
    BY <1>0, <2>1 DEF ObservedInv, ReservedWhileClaimed, TypeInv, JobArgs
  <2> QED BY <1>0, <1>2, <2>1, <2>2 DEF ActivateWorker
<1>3. CASE task[t] \in Active /\ t \notin boot
  <2>1. handles[t] \in live /\ rowTask[handles[t]] = t
    BY <1>3 DEF ObservedInv, Observed, LiveRows, Reachable
  <2>2. handles'[t] = handles[t]
    <3>1. CASE boot = {}
      BY <1>0, <1>1, <2>1, <3>1, HandleKept
    <3>2. CASE boot # {}
      <4>1. ASSUME NEW u \in Tasks, Reconcile(u) PROVE handles'[t] = handles[t]
        BY <1>0, <1>3, <4>1 DEF Reconcile, Register
      <4> QED BY <3>2, <4>1, BootingMoves, WorkerFrame DEF controlVars, registryVars, vars
    <3> QED BY <3>1, <3>2
  <2> QED BY <1>0, <1>1, <2>1, <2>2, LiveKept, RowKept
<1>4. CASE task[t] \in Active /\ t \in boot
  <2>1. Reconcile(t)
    <3>1. ASSUME NEW u \in Tasks, Reconcile(u) PROVE u = t
      BY <1>4, <3>1 DEF Reconcile
    <3>2. ~\E w \in Workers : WorkerStep(w)
      BY <1>4, WorkerFrame DEF controlVars, bootVars
    <3>3. ~UNCHANGED vars
      BY <1>4 DEF vars, controlVars, bootVars
    <3> QED BY <1>4, <3>1, <3>2, <3>3, BootingMoves
  <2>2. ~FinishWorker(t, ActiveWorkerId(t), "LOST")
    BY <1>0, <1>1 DEF FinishWorker, PutState, Terminal
  <2>3. handles' = [handles EXCEPT ![t] = ActiveWorkerId(t)] /\ UNCHANGED storeVars
    BY <2>1, <2>2 DEF Reconcile, Register, Fault, Reachable
  <2>4. ActiveWorkerId(t) \in live /\ rowTask[ActiveWorkerId(t)] = t
    BY <1>4, ActiveWorkerIdType, ObservedFacts DEF ObservedInv, ActiveHasWorker, LiveRows
  <2> QED BY <1>0, <2>3, <2>4 DEF storeVars
<1> QED BY <1>2, <1>3, <1>4, TaskMoves

\* Every step keeps all of it.
LEMMA ObservedInvStep ==
  ASSUME ObservedInv, Undisturbed, [Next]_vars
  PROVE  ObservedInv'
<1>1. RowsInv' /\ ActiveHasWorker'
  BY RowsInvStep, ActiveHasWorkerStep DEF ObservedInv
<1>2. NoDeletion' /\ OneLife' /\ Booting'
  BY NoDeletionStep, OneLifeStep, BootingStep
<1>3. ReservedWhileClaimed' /\ HandlesTied' /\ ArgumentsCurrent' /\ Observed'
  BY ReservedStep, HandlesTiedStep, ArgumentsStep, ObservedStep
<1> QED BY <1>1, <1>2, <1>3 DEF ObservedInv

\* A fresh server knows of no worker, and there is none.
LEMMA ObservedInvInit == Init => ObservedInv
<1> SUFFICES ASSUME Init PROVE ObservedInv
  OBVIOUS
<1>1. RowsInv
  <2>1. JobRowless /\ EndedSettled /\ DoneSettled /\ OneLiveRow
    BY DEF Init, StoreInit, ControlInit, NoJob, IdleThread, JobRowless, EndedSettled, DoneSettled, OneLiveRow
  <2> QED BY <2>1, TypeInvInit DEF RowsInv
<1>2. ActiveHasWorker /\ Observed
  BY DEF Init, StoreInit, ActiveHasWorker, Observed, Active, Absent
<1>3. NoDeletion /\ OneLife /\ Booting
  <2>1. NoDeletion
    BY DEF Init, ControlInit, NoDeletion, IdleThread
  <2>2. OneLife /\ Booting
    BY StoreAssumptions DEF Init, StoreInit, ControlInit, OneLife, Booting
  <2> QED BY <2>1, <2>2
<1>4. ReservedWhileClaimed /\ HandlesTied /\ ArgumentsCurrent
  BY DEF Init, ControlInit, ReservedWhileClaimed, HandlesTied, ArgumentsCurrent, IdleThread, NoJob, RetirePcs, InsidePcs
<1> QED BY <1>1, <1>2, <1>3, <1>4 DEF ObservedInv

\* ... so it holds throughout, when nothing is deleted and the database answers.
LEMMA ObservedInvHolds ==
  ASSUME Undisturbed
  PROVE  Spec => []ObservedInv
<1>1. ObservedInv /\ [Next]_vars => ObservedInv'
  BY ObservedInvStep
<1> QED BY <1>1, ObservedInvInit, PTL DEF Spec

-----------------------------------------------------------------------------
(* What it is for                                                          *)

\* No live row outlives its task: the slot of a settled task always comes back.
THEOREM SettledTaskHasNoRow ==
  ASSUME Undisturbed
  PROVE  Spec => []TerminalHasNoWorker
<1>1. ObservedInv => TerminalHasNoWorker
  BY DEF ObservedInv, OneLife, TerminalHasNoWorker, LiveRows, Active, Terminal
<1> QED BY <1>1, ObservedInvHolds, PTL

\* While the server runs, the observer looks at every active task through the
\* handle of its live row, when no host is unreachable at a restart.
THEOREM ActiveTaskIsObserved ==
  ASSUME Undisturbed, "unreachable" \notin Faults
  PROVE  Spec => []ActiveIsObserved
<1>1. ObservedInv => ActiveIsObserved
  BY DEF ObservedInv, Observed, Reachable, ActiveIsObserved, Serving
<1> QED BY <1>1, ObservedInvHolds, PTL

-----------------------------------------------------------------------------
(* The workspaces: the evaluator judges one in which no process of its     *)
(* task runs, and until the server restarts two workers of one GPU are     *)
(* never alive together.  Both rest on what the server knows of its        *)
(* workers, and on stops that do their work.                               *)

\* A stop of a remote worker that fails is recorded and retirement goes on: the
\* worker may outlive its row.  Shell and local stops do not fail.
StopsWork == Undisturbed /\ ("stop" \in Faults => \A t \in Tasks : Kind[t] # "remote")

-----------------------------------------------------------------------------
(* The invariant                                                           *)

\* A stop request holds the handle of the worker it stops; retire() reads it again.
HandleRead ==
  \A p \in Threads :
    /\ th[p].pc = "halt" => th[p].op = "stop" /\ th[p].h = th[p].w
    /\ th[p].pc = "target" => th[p].op = "ping"
    /\ th[p].pc \in {"read", "stop"} => th[p].h = th[p].w \/ task[th[p].t] \in Terminal

\* Nobody settles a task while a thread is retiring it.
StillOpen ==
  \A p \in Threads : th[p].pc \in {"stop", "evaluate", "commit"} => task[th[p].t] \notin Terminal

\* Where a thread has stopped the runtime.
Stopped(p) ==
  \/ th[p].op = "stop" /\ th[p].pc \in RetirePcs
  \/ th[p].pc \in {"evaluate", "commit"}

\* ... no process of the task runs, and none is started while the task is open.
QuietOnceStopped ==
  \A p \in Threads : Stopped(p) /\ task[th[p].t] \notin Terminal => AliveWorkers(th[p].t) = {}

\* Places of a claim whose process is not started yet, was never or is stopped.
NotRunning == {"prepared", "startFailed", "stopped", "stopFailed", "unclaim", "unclaimFailed", "unclaimLost"}

\* A shell process is the worker of a row, of a claim under way or of a claim a
\* crash has left, unless its task is settled: no start has an older one beside it.
ShellTied ==
  /\ \A v \in Workers : world[v] = "alive" /\ Kind[home[v]] = "shell" =>
        \/ rowTask[v] = home[v] \/ job[home[v]].w = v \/ task[home[v]] \in Terminal
        \/ task[home[v]] = "DISPATCHING" /\ job[home[v]] = NoJob
  /\ \A t \in Tasks : Kind[t] = "shell" /\ job[t].phase \in NotRunning => world[job[t].w] # "alive"

WorkspaceInv ==
  ObservedInv /\ OneRetirement /\ HandleRead /\ StillOpen /\ QuietOnceStopped /\ ShellTied

-----------------------------------------------------------------------------
(* What starts a process, what a thread in retire() knows                  *)

\* A process runs since it was started for the claim that has its id.
LEMMA AliveMoves ==
  ASSUME TypeInv, [Next]_vars, NEW v \in Workers, world'[v] = "alive"
  PROVE  \/ world[v] = "alive" /\ home'[v] = home[v] /\ home[v] \in Tasks
         \/ \E t \in Tasks : Launch(t) /\ job[t].phase = "prepared" /\ job[t].w = v
                            /\ home[v] = t /\ home'[v] = t
<1>0. /\ home \in [Workers -> Tasks \cup {None}] /\ world \in [Workers -> ProcStates]
      /\ \A w \in Workers : home[w] = None => world[w] = "none"
      /\ \A t \in Tasks : job[t].w # None => home[job[t].w] = t
      /\ None \notin Workers /\ None \notin Tasks
  BY StoreAssumptions DEF TypeInv, FlotillaTypeOK, RuntimesTypeOK, HomesAgree, ProcHomes, JobHomes
<1>1. ASSUME NEW S, Kill(S) PROVE world[v] = "alive"
  BY <1>1 DEF Kill
<1>2. ASSUME NEW t \in Tasks, Launch(t) PROVE world[v] = "alive" \/ (job[t].w = v /\ job[t].phase = "prepared")
  BY <1>2 DEF Launch, StartReturns, StartRaises, InPhase
<1>3. ASSUME NEW t \in Tasks, CleanupStop(t) PROVE world[v] = "alive"
  BY <1>1, <1>3 DEF CleanupStop, StopReturns, StopRaises
<1>4. ASSUME NEW p \in Threads, RetireStop(p) \/ HaltWorker(p) PROVE world[v] = "alive"
  BY <1>1, <1>4 DEF RetireStop, HaltWorker, StopReturns, StopRaises
<1>5. ASSUME NEW w \in Workers, WorkerStep(w) PROVE world[v] = "alive"
  BY <1>0, <1>5 DEF WorkerStep, AgentReports, AgentExits, AgentVanishes, WorkerReports, WorkerExits, WindowVanishes
<1>6. ASSUME UNCHANGED vars PROVE world[v] = "alive"
  BY <1>6 DEF vars, runtimeVars
<1>7. world[v] = "alive" \/ \E t \in Tasks : Launch(t) /\ job[t].w = v /\ job[t].phase = "prepared"
  BY <1>2, <1>3, <1>4, <1>5, <1>6, Steps, RequestFrame, ThreadFrame, DispatchFrame, OtherFrames DEF runtimeVars
<1>8. CASE world[v] = "alive"
  BY <1>0, <1>8, HomeKept
<1>9. ASSUME NEW t \in Tasks, Launch(t), job[t].w = v, job[t].phase = "prepared"
      PROVE  home[v] = t /\ home'[v] = t
  BY <1>0, <1>9, HomeKept
<1> QED BY <1>7, <1>8, <1>9

\* The worker a thread stops or retires is the one of the live row of its task, or
\* of the claim about to be activated.
LEMMA EngagedFacts ==
  ASSUME ObservedInv, NEW p \in Threads, th[p].pc \in {"halt"} \cup RetirePcs, task[th[p].t] \notin Terminal
  PROVE  /\ th[p].t \in Tasks /\ th[p].w \in Workers /\ handles[th[p].t] = th[p].w /\ home[th[p].w] = th[p].t
         /\ \/ rowTask[th[p].w] = th[p].t /\ task[th[p].t] \in Active /\ job[th[p].t].phase = "none"
            \/ /\ job[th[p].t].phase = "registered" /\ job[th[p].t].w = th[p].w
               /\ task[th[p].t] = "DISPATCHING"
<1> DEFINE t == th[p].t
           w == th[p].w
<1>1. t \in Tasks /\ w \in Workers \cup {None}
  BY ObservedFacts DEF RetirePcs, InsidePcs, ThreadRecord
<1>2. w # None /\ handles[t] = w
  BY DEF ObservedInv, ArgumentsCurrent
<1>3. home[w] = t
  BY <1>2, ObservedFacts DEF TypeInv, HomesAgree, ThreadHomes
<1>4. CASE rowTask[w] = t
  <2>1. task[t] \in Active
    BY <1>1, <1>2, <1>4, ObservedFacts DEF ObservedInv, OneLife
  <2>2. job[t].phase = "none"
    BY <1>1, <2>1 DEF ObservedInv, ReservedWhileClaimed, Active
  <2> QED BY <1>1, <1>2, <1>3, <1>4, <2>1, <2>2
<1>5. CASE job[t].phase = "registered" /\ job[t].w = w
  BY <1>1, <1>2, <1>3, <1>5 DEF ObservedInv, ReservedWhileClaimed
<1> QED BY <1>1, <1>2, <1>4, <1>5 DEF ObservedInv, HandlesTied

\* ... so none is started for that task meanwhile.
LEMMA NoLaunch ==
  ASSUME ObservedInv, [Next]_vars, NEW p \in Threads, th[p].pc \in {"halt"} \cup RetirePcs,
         task[th[p].t] \notin Terminal
  PROVE  \A v \in Workers : world'[v] = "alive" /\ home'[v] = th[p].t => world[v] = "alive" /\ home[v] = th[p].t
<1>1. SUFFICES ASSUME NEW v \in Workers, world'[v] = "alive", home'[v] = th[p].t
               PROVE  world[v] = "alive" /\ home[v] = th[p].t
  OBVIOUS
<1>2. job[th[p].t].phase # "prepared" /\ TypeInv
  BY EngagedFacts, ObservedFacts
<1> QED BY <1>1, <1>2, AliveMoves

\* The commit and the release are the last steps that see the task open.
LEMMA CommitMoves ==
  ASSUME ControlTypeOK, NEW p \in Threads, RetireCommit(p) \/ RetireRelease(p)
  PROVE  th'[p].pc \in {"release", "leave", "idle", "verify", "erase"}
<1>1. ASSUME NEW r, Becomes(p, r) PROVE th'[p] = r
  BY <1>1 DEF Becomes, ControlTypeOK
<1>2. ASSUME NEW pc, Goto(p, pc) PROVE th'[p].pc = pc
  BY <1>1, <1>2 DEF Goto, ControlTypeOK, ThreadRecord
<1>3. \A result : AfterRetire(p, result).pc \in {"idle", "verify", "erase"}
  BY DEF AfterRetire, IdleThread
<1>4. CASE RetireCommit(p)
  <2>1. \/ \E result : Becomes(p, AfterRetire(p, result))
        \/ \E pc \in {"release", "leave"} : Goto(p, pc)
    BY <1>4 DEF RetireCommit
  <2> QED BY <1>1, <1>2, <1>3, <2>1
<1>5. CASE RetireRelease(p)
  BY <1>2, <1>5 DEF RetireRelease
<1> QED BY <1>4, <1>5

-----------------------------------------------------------------------------
(* The parts of the invariant                                              *)

\* The handle retire() reads is the one it was called for, or the task is settled.
LEMMA HandleReadStep ==
  ASSUME ObservedInv, HandleRead, Undisturbed, [Next]_vars
  PROVE  HandleRead'
<1> SUFFICES ASSUME NEW p \in Threads
             PROVE  /\ th'[p].pc = "halt" => th'[p].op = "stop" /\ th'[p].h = th'[p].w
                    /\ th'[p].pc = "target" => th'[p].op = "ping"
                    /\ th'[p].pc \in {"read", "stop"} => th'[p].h = th'[p].w \/ task'[th'[p].t] \in Terminal
  BY DEF HandleRead
<1>0. /\ th[p] \in ThreadRecord /\ (th[p].pc # "idle" => th[p].t \in Tasks)
      /\ th[p].pc = "halt" => th[p].op = "stop" /\ th[p].h = th[p].w
      /\ th[p].pc = "target" => th[p].op = "ping"
      /\ th[p].pc \in {"read", "stop"} => th[p].h = th[p].w \/ task[th[p].t] \in Terminal
  BY ObservedFacts DEF HandleRead
<1>1. CASE th'[p] = th[p]
  BY <1>0, <1>1, TaskMoves
<1>2. CASE th'[p] = IdleThread
  BY <1>2 DEF IdleThread
<1>3. ASSUME NEW t \in Tasks, Asks(p, t) \/ Pings(p, t)
      PROVE  /\ th'[p].pc = "halt" => th'[p].op = "stop" /\ th'[p].h = th'[p].w
             /\ th'[p].pc = "target" => th'[p].op = "ping"
             /\ th'[p].pc \notin {"read", "stop"}
  BY <1>3 DEF Asks, Pings
<1>4. CASE Targets(p) \/ Observes(p) \/ Halts(p)
  BY <1>4 DEF Targets, Observes, Halts
<1>5. CASE Enters(p)
  <2>1. /\ th'[p].pc = "read" /\ th'[p].t = th[p].t /\ th'[p].w = th[p].w /\ th'[p].h = handles[th[p].t]
        /\ th[p].pc = "enter"
    BY <1>0, <1>5 DEF Enters, RetireEnter, At, ThreadRecord
  <2>2. handles[th[p].t] = th[p].w \/ task[th[p].t] \in Terminal
    BY <2>1 DEF ObservedInv, ArgumentsCurrent, RetirePcs
  <2> QED BY <1>0, <2>1, <2>2, TaskMoves
<1>6. CASE ReadsOn(p)
  <2>1. /\ th'[p].t = th[p].t /\ th'[p].w = th[p].w /\ th'[p].h = th[p].h /\ th[p].pc = "read"
        /\ th'[p].pc \in {"stop", "evaluate", "commit"}
    BY <1>6 DEF ReadsOn, RetireRead, At, AfterRead, AfterStop
  <2> QED BY <1>0, <2>1, TaskMoves
<1>7. CASE LateStep(p)
  <2>1. th'[p].pc \in LatePcs /\ th[p].pc \in LatePcs
    BY <1>7 DEF LateStep
  <2>2. th'[p].pc # "stop"
    <3>1. ASSUME NEW r, Becomes(p, r), r.pc # "stop" PROVE th'[p].pc # "stop"
      BY <3>1, ObservedFacts DEF Becomes, ControlTypeOK
    <3>2. ASSUME NEW pc, Goto(p, pc), pc # "stop" PROVE th'[p].pc # "stop"
      BY <1>0, <3>1, <3>2 DEF Goto, ThreadRecord
    <3>3. CASE RetireStop(p) \/ RetireRelease(p)
      BY <3>2, <3>3 DEF RetireStop, RetireRelease, AfterStop
    <3>4. CASE RetireEvaluate(p)
      <4>1. \A verdict : [th[p] EXCEPT !.pc = "commit", !.term = verdict].pc = "commit"
        BY <1>0 DEF ThreadRecord
      <4> QED BY <3>1, <3>4, <4>1 DEF RetireEvaluate
    <3>5. CASE RetireCommit(p)
      <4>1. \A result : AfterRetire(p, result).pc # "stop"
        BY DEF AfterRetire, IdleThread
      <4> QED BY <3>1, <3>2, <3>5, <4>1 DEF RetireCommit
    <3> QED BY <1>7, <3>3, <3>4, <3>5 DEF LateStep
  <2> QED BY <2>1, <2>2 DEF LatePcs
<1> QED BY <1>1, <1>2, <1>3, <1>4, <1>5, <1>6, <1>7, UndisturbedMoves

\* Nobody but the thread that retires a task settles it.
LEMMA StillOpenStep ==
  ASSUME WorkspaceInv, Undisturbed, [Next]_vars
  PROVE  StillOpen'
<1>0. ObservedInv /\ OneRetirement /\ StillOpen /\ task \in [Tasks -> STATES \cup {Absent}] /\ queue \in Seq(Tasks)
  BY ObservedFacts DEF WorkspaceInv
<1> SUFFICES ASSUME NEW p \in Threads, th'[p].pc \in {"stop", "evaluate", "commit"}
             PROVE  task'[th'[p].t] \notin Terminal
  BY DEF StillOpen
<1> DEFINE t == th[p].t
<1>1. CASE th'[p] = th[p]
  <2>1. t \in Tasks /\ task[t] \notin Terminal /\ th[p].pc \in InsidePcs /\ th[p].pc \in RetirePcs
    BY <1>0, <1>1, ObservedFacts DEF StillOpen, InsidePcs, RetirePcs
  <2>2. \/ task[t] \in Active /\ job[t].phase = "none"
        \/ job[t].phase = "registered" /\ task[t] = "DISPATCHING"
    BY <1>0, <2>1, EngagedFacts
  <2>3. ASSUME NEW S \in SUBSET Tasks, Between, MarkStaleDispatchingLost(S) PROVE task'[t] = task[t]
    BY <1>0, <2>1, <2>2, <2>3 DEF MarkStaleDispatchingLost, Dispatching, Between, NoJob, Active
  <2>4. ASSUME NEW u \in Tasks, NEW c \in SetCalls, SetTaskState(u, c[1], c[2]),
               c[2] = {"DISPATCHING"} => job'[u] = NoJob
        PROVE  task'[t] \notin Terminal
    <3>1. CASE u # t
      BY <1>0, <2>1, <2>4, <3>1 DEF SetTaskState, PutState
    <3>2. CASE u = t /\ c[2] = {"DISPATCHING"}
      <4>1. task[t] = "DISPATCHING" /\ job[t].phase = "registered" /\ job'[t] = NoJob
        BY <2>2, <2>4, <3>2 DEF SetTaskState, Active
      <4>2. CASE Crash
        BY <2>1, <4>2 DEF Crash, storeVars
      <4>3. CASE ~Crash
        <5>1. ActivateWorker(t, job[t].w)
          BY <1>0, <2>1, <4>1, <4>3, RegisteredEnds
        <5> QED BY <1>0, <2>1, <5>1 DEF ActivateWorker, PutState, Terminal
      <4> QED BY <4>2, <4>3
    <3>3. CASE u = t /\ c[2] # {"DISPATCHING"}
      <4>1. c[1] \in Active
        BY <3>3 DEF SetCalls, Active
      <4> QED BY <1>0, <2>1, <2>4, <3>3, <4>1 DEF SetTaskState, PutState, Active, Terminal
    <3> QED BY <3>1, <3>2, <3>3
  <2>5. ASSUME NEW q \in Threads, RetireCommit(q), Finishes(th[q].t, th[q].w, th[q].term) PROVE task'[t] = task[t]
    <3>1. th[q].pc \in InsidePcs /\ th[q].pc = "commit" /\ th[q].t \in Tasks
      BY <1>0, <2>5, ObservedFacts DEF RetireCommit, At, InsidePcs
    <3>2. CASE th[q].t = t
      <4>1. q = p
        BY <1>0, <2>1, <3>1, <3>2 DEF OneRetirement
      <4>2. th'[p].pc # "commit"
        BY <2>5, <4>1, CommitMoves, ObservedFacts, <1>0
      <4> QED BY <1>1, <3>1, <4>1, <4>2
    <3>3. CASE th[q].t # t
      BY <1>0, <2>1, <2>5, <3>3 DEF Finishes, FinishWorker, PutState
    <3> QED BY <3>2, <3>3
  <2>6. ASSUME NEW u \in Tasks, Reconcile(u) PROVE FALSE
    BY <1>0, <2>1, <2>6 DEF Reconcile, ObservedInv, Booting, IdleThread, InsidePcs
  <2>7. ASSUME NEW b \in Batches, NEW place, CreateTasks(b, place) PROVE task'[t] \notin Terminal
    BY <1>0, <2>1, <2>7 DEF CreateTasks, Terminal
  <2>8. ASSUME ClaimQueuedTasks PROVE task'[t] \notin Terminal
    BY <1>0, <2>1, <2>8 DEF ClaimQueuedTasks, Terminal
  <2>9. ASSUME NEW u \in Tasks, NEW w \in Workers, ActivateWorker(u, w) PROVE task'[t] \notin Terminal
    BY <1>0, <2>1, <2>9 DEF ActivateWorker, PutState, Terminal
  <2>10. ASSUME UNCHANGED storeVars PROVE task'[t] \notin Terminal
    BY <2>1, <2>10 DEF storeVars
  <2>11. task'[t] \notin Terminal
    BY <1>0, <2>1, <2>3, <2>4, <2>5, <2>6, <2>7, <2>8, <2>9, <2>10, UndisturbedCall
  <2> QED BY <1>1, <2>11
<1>2. CASE Enters(p)
  BY <1>0, <1>2, ObservedFacts DEF Enters, ThreadRecord
<1>3. CASE ReadsOn(p)
  <2>1. NoDeletion'
    BY <1>0, NoDeletionStep
  <2> QED BY <1>3, <2>1 DEF NoDeletion, ReadsOn, RetireRead, storeVars
<1>4. CASE LateStep(p)
  <2>1. th'[p].t = t /\ ~RetireRelease(p) /\ ~RetireCommit(p)
    <3>1. th'[p].t = t
      BY <1>4 DEF LateStep, SameArgs
    <3> QED BY <3>1, CommitMoves, ObservedFacts, <1>0
  <2>2. task[t] \notin Terminal /\ UNCHANGED storeVars
    BY <1>0, <1>4, <2>1 DEF LateStep, RetireStop, RetireEvaluate, StillOpen, At
  <2> QED BY <2>1, <2>2 DEF storeVars
<1> QED BY <1>0, <1>1, <1>2, <1>3, <1>4, InsideMoves DEF InsidePcs, ObservedInv

\* A stop that does its work ends every process that may run for the open task the
\* thread holds: the window of a tmux task, the only process of a shell task.
LEMMA StopQuiets ==
  ASSUME WorkspaceInv, StopsWork, NEW p \in Threads, th[p].pc \in {"halt"} \cup RetirePcs,
         task[th[p].t] \notin Terminal, th[p].h = th[p].w,
         StopReturns(th[p].h) \/ StopRaises(th[p].h)
  PROVE  \A v \in Workers : home[v] = th[p].t => world'[v] # "alive"
<1> DEFINE t == th[p].t
           w == th[p].w
<1>0. ObservedInv /\ Kind \in [Tasks -> {"shell", "local", "remote"}]
  BY RuntimeAssumptions DEF WorkspaceInv
<1>1. /\ t \in Tasks /\ w \in Workers /\ home[w] = t
      /\ \/ rowTask[w] = t /\ task[t] \in Active /\ job[t].phase = "none"
         \/ job[t].phase = "registered" /\ job[t].w = w /\ task[t] = "DISPATCHING"
  BY <1>0, EngagedFacts
<1>2. ASSUME NEW v \in Workers, home[v] = t, world[v] = "alive", Kind[t] = "shell" PROVE v = w
  <2>1. \/ rowTask[v] = t \/ job[t].w = v
        \/ task[t] = "DISPATCHING" /\ job[t] = NoJob
    BY <1>1, <1>2 DEF WorkspaceInv, ShellTied
  <2>2. CASE rowTask[v] = t
    <3>1. task[t] \in Active \cup Terminal
      BY <1>0, <1>1, <2>2, ObservedFacts DEF ObservedInv, OneLife
    <3>2. rowTask[w] = t
      BY <1>1, <3>1 DEF Active, Terminal
    <3> QED BY <1>0, <1>1, <2>2, <3>2, ObservedFacts DEF ObservedInv, OneLife
  <2>3. CASE job[t].w = v
    <3>1. job[t].phase # "none"
      BY <1>0, <1>1, <2>3, ObservedFacts DEF TypeInv, JobArgs
    <3> QED BY <1>1, <2>3, <3>1
  <2>4. job[t] # NoJob \/ task[t] # "DISPATCHING"
    BY <1>1 DEF NoJob, Active
  <2> QED BY <2>1, <2>2, <2>3, <2>4
<1>3. CASE StopReturns(w)
  <2>1. \A v \in Workers : home[v] = t /\ world[v] = "alive" => v \in StopTargets(w)
    BY <1>1, <1>2 DEF StopTargets, AliveWorkers, Windows
  <2> QED BY <1>3, <2>1 DEF StopReturns, Kill
<1>4. CASE StopRaises(w)
  <2>1. Kind[t] = "remote" /\ "stop" \notin Faults
    BY <1>1, <1>4 DEF StopRaises, StopsWork
  <2>2. Windows(t) = {} /\ UNCHANGED world
    BY <1>1, <1>4, <2>1 DEF StopRaises, Fault
  <2> QED BY <2>2 DEF Windows
<1> QED BY <1>3, <1>4

\* From the stop to the verdict nothing runs, and nothing is started.
LEMMA QuietStep ==
  ASSUME WorkspaceInv, StopsWork, [Next]_vars
  PROVE  QuietOnceStopped'
<1>0. /\ ObservedInv /\ HandleRead /\ StillOpen /\ QuietOnceStopped /\ Undisturbed
      /\ TypeInv /\ NoDeletion' /\ StillOpen'
  BY ObservedFacts, NoDeletionStep, StillOpenStep DEF WorkspaceInv, StopsWork
<1> SUFFICES ASSUME NEW p \in Threads, Stopped(p)', task'[th'[p].t] \notin Terminal,
                    NEW v \in Workers, home'[v] = th'[p].t, world'[v] = "alive"
             PROVE  FALSE
  BY DEF QuietOnceStopped, AliveWorkers
<1> DEFINE t == th[p].t
<1>1. \/ th'[p].op = "stop" /\ th'[p].pc \in RetirePcs
      \/ th'[p].pc \in {"evaluate", "commit"}
  BY DEF Stopped
\* The thread had stopped the runtime before: nothing has been started since.
<1>2. ASSUME Stopped(p), th'[p].t = t PROVE FALSE
  <2>1. th[p].pc \in RetirePcs /\ t \in Tasks
    BY <1>0, <1>2, ObservedFacts DEF Stopped, RetirePcs, InsidePcs
  <2>2. task[t] \notin Terminal
    BY <1>0, <1>2, <2>1, TaskMoves
  <2>3. world[v] = "alive" /\ home[v] = t
    BY <1>0, <1>2, <2>1, <2>2, NoLaunch
  <2> QED BY <1>0, <1>2, <2>2, <2>3 DEF QuietOnceStopped, AliveWorkers
\* It stops the runtime now.
<1>3. ASSUME th[p].pc \in {"halt", "stop"}, th[p].h = th[p].w, th'[p].t = t,
             (HaltWorker(p) /\ StopReturns(th[p].h)) \/ RetireStop(p)
      PROVE  FALSE
  <2>1. th[p].pc \in {"halt"} \cup RetirePcs /\ t \in Tasks
    BY <1>0, <1>3, ObservedFacts DEF RetirePcs, InsidePcs
  <2>2. task[t] \notin Terminal
    BY <1>0, <1>3, <2>1, TaskMoves
  <2>3. world[v] = "alive" /\ home[v] = t
    BY <1>0, <1>3, <2>1, <2>2, NoLaunch
  <2>4. StopReturns(th[p].h) \/ StopRaises(th[p].h)
    BY <1>3 DEF RetireStop
  <2> QED BY <1>3, <2>1, <2>2, <2>3, <2>4, StopQuiets
<1>4. CASE th'[p] = th[p]
  BY <1>1, <1>2, <1>4 DEF Stopped
<1>5. CASE th'[p] = IdleThread
  BY <1>1, <1>5 DEF IdleThread, RetirePcs, InsidePcs
<1>6. ASSUME NEW u \in Tasks, Asks(p, u) \/ Pings(p, u) PROVE FALSE
  BY <1>1, <1>6 DEF Asks, Pings, RetirePcs, InsidePcs
<1>7. CASE Targets(p)
  BY <1>0, <1>1, <1>7 DEF Targets, HandleRead, RetirePcs, InsidePcs
<1>8. CASE Observes(p)
  BY <1>1, <1>8 DEF Observes, RetirePcs, InsidePcs
<1>9. CASE Halts(p)
  <2>1. HaltWorker(p) /\ StopReturns(th[p].h) /\ th[p].pc = "halt" /\ th'[p].t = t
    BY <1>9 DEF Halts
  <2> QED BY <1>0, <1>3, <2>1 DEF HandleRead
<1>10. CASE Enters(p)
  <2>1. th'[p].op = th[p].op /\ th'[p].t = t /\ th'[p].pc = "read" /\ th[p].pc = "enter"
    BY <1>0, <1>10, ObservedFacts DEF Enters, RetireEnter, At, ThreadRecord
  <2> QED BY <1>1, <1>2, <2>1 DEF Stopped, RetirePcs
<1>11. CASE ReadsOn(p)
  <2>1. /\ th[p].pc = "read" /\ th'[p].t = t /\ th'[p].op = th[p].op
        /\ th'[p].pc = AfterRead(th[p], task[t] \in Terminal) /\ th'[p].done = (task[t] \in Terminal)
        /\ th'[p].pc \in {"stop", "evaluate", "commit"}
    BY <1>11 DEF ReadsOn, RetireRead, At, AfterRead, AfterStop
  <2>2. CASE th[p].op = "stop"
    BY <1>2, <2>1, <2>2 DEF Stopped, RetirePcs, InsidePcs
  <2>3. CASE th[p].op # "stop"
    <3>1. th'[p].pc \in {"evaluate", "commit"}
      BY <1>1, <2>1, <2>3
    <3>2. th[p].op # "delete"
      BY <1>0, <2>1 DEF ObservedInv, NoDeletion
    <3>3. th[p].h = None
      BY <2>1, <2>3, <3>1, <3>2 DEF AfterRead
    <3>4. task[t] \notin Terminal
      BY <1>0, <2>1 DEF NoDeletion
    <3>5. th[p].h = th[p].w /\ th[p].w \in Workers
      BY <1>0, <2>1, <3>4, EngagedFacts DEF HandleRead, RetirePcs, InsidePcs
    <3> QED BY <1>0, <3>3, <3>5, ObservedFacts
  <2> QED BY <2>2, <2>3
<1>12. CASE LateStep(p)
  <2>1. SameArgs(p) /\ th[p].pc \in LatePcs /\ th'[p].t = t /\ th'[p].op = th[p].op
    BY <1>12 DEF LateStep, SameArgs
  <2>2. CASE th[p].pc = "stop"
    <3>1. RetireStop(p)
      BY <1>12, <2>2 DEF LateStep, RetireEvaluate, RetireCommit, RetireRelease, At
    <3>2. th[p].h = th[p].w
      BY <1>0, <2>2 DEF HandleRead, StillOpen
    <3> QED BY <1>3, <2>1, <2>2, <3>1, <3>2
  <2>3. CASE th[p].pc \in {"evaluate", "commit"}
    BY <1>2, <2>1, <2>3 DEF Stopped
  <2>4. CASE th[p].pc = "release"
    <3>1. RetireRelease(p)
      BY <1>12, <2>4 DEF LateStep, RetireStop, RetireEvaluate, RetireCommit, At
    <3>2. th'[p].pc \notin {"evaluate", "commit"}
      BY <1>0, <3>1, CommitMoves, ObservedFacts
    <3> QED BY <1>1, <1>2, <2>1, <2>4, <3>2 DEF Stopped, RetirePcs, InsidePcs
  <2> QED BY <1>12, <2>2, <2>3, <2>4 DEF LateStep, LatePcs
<1> QED BY <1>0, <1>4, <1>5, <1>6, <1>7, <1>8, <1>9, <1>10, <1>11, <1>12, UndisturbedMoves

\* A claim goes back to the queue only from the scheduler, before a worker id was
\* made for it or when its process does not run.
LEMMA Released ==
  ASSUME ObservedInv, [Next]_vars, NEW t \in Tasks, task[t] = "DISPATCHING", task'[t] = "QUEUED"
  PROVE  ResolveBusy(t) \/ Unclaim(t)
<1>0. task \in [Tasks -> STATES \cup {Absent}] /\ queue \in Seq(Tasks)
  BY ObservedFacts
<1>1. ASSUME UNCHANGED storeVars PROVE FALSE
  BY <1>1 DEF storeVars
<1>2. ASSUME NEW u \in Tasks, NEW new, NEW expected, SetTaskState(u, new, expected) PROVE u = t /\ new = "QUEUED"
  BY <1>0, <1>2 DEF SetTaskState, PutState
<1>3. CASE SubmitTasks \/ MarkStale \/ Claim
  <2>1. ASSUME NEW b \in Batches, NEW place, CreateTasks(b, place) PROVE FALSE
    BY <1>0, <2>1 DEF CreateTasks, ToSet, Absent
  <2> QED BY <1>0, <1>3, <2>1 DEF SubmitTasks, MarkStale, Claim, MarkStaleDispatchingLost, ClaimQueuedTasks
<1>4. ASSUME NEW u \in Tasks, ResolveBusy(u) \/ ResolveUnfit(u) \/ Unclaim(u) PROVE u = t /\ ~ResolveUnfit(u)
  BY <1>1, <1>2, <1>4 DEF ResolveBusy, ResolveUnfit, Unclaim, TryRelease, ReleaseTaskClaim
<1>5. ASSUME NEW u \in Tasks, Activate(u) PROVE FALSE
  BY <1>0, <1>1, <1>5 DEF Activate, ActivateWorker, PutState
<1>6. ASSUME NEW p \in Threads, RetireStuck(p) \/ NudgeWorker(p) PROVE FALSE
  BY <1>0, <1>1, <1>6, ObservedFacts DEF RetireStuck, NudgeWorker, SetTaskState, PutState, At
<1>7. ASSUME NEW u, NEW w, NEW s \in Terminal, FinishWorker(u, w, s) PROVE FALSE
  BY <1>0, <1>7 DEF FinishWorker, PutState, Terminal
<1>8. ASSUME NEW p \in Threads, RetireCommit(p) PROVE FALSE
  <2>1. th[p].term \in Terminal
    BY <1>8, ObservedFacts DEF RetireCommit, At, TypeInv, ThreadArgs, ArgsFit, RetirePcs, InsidePcs
  <2> QED BY <1>0, <1>1, <1>7, <1>8, <2>1 DEF RetireCommit, EndWorker
<1>9. ASSUME NEW p \in Requests, EraseTask(p) PROVE FALSE
  BY <1>9 DEF EraseTask, At, ObservedInv, NoDeletion, Threads
<1>10. ASSUME NEW u \in Tasks, Reconcile(u) PROVE FALSE
  BY <1>1, <1>7, <1>10 DEF Reconcile, Terminal
<1>11. CASE UNCHANGED vars
  BY <1>1, <1>11 DEF vars
<1> QED BY <1>1, <1>3, <1>4, <1>5, <1>6, <1>8, <1>9, <1>10, <1>11, Steps, WorkerFrame, RequestFrame, ThreadFrame,
           DispatchFrame, OtherFrames

\* A claim whose process does not run: it is not started but by Launch, and every
\* way out of a failed start or a failed dispatch has seen it stopped.
LEMMA NotRunningStep ==
  ASSUME ObservedInv, Undisturbed, [Next]_vars, NEW t \in Tasks, job'[t].phase \in NotRunning,
         job[t].phase \in NotRunning => world[job[t].w] # "alive",
         Kind[t] = "shell" \/ ("lateStart" \notin Faults /\ (Kind[t] = "remote" => "stop" \notin Faults))
  PROVE  world'[job'[t].w] # "alive"
<1>0. /\ TypeInv /\ job \in [Tasks -> [phase : Phases, w : Workers \cup {None}]]
      /\ home \in [Workers -> Tasks \cup {None}] /\ world \in [Workers -> ProcStates]
      /\ Kind \in [Tasks -> {"shell", "local", "remote"}]
      /\ \A w \in Workers : home[w] = None => world[w] = "none"
      /\ \A u \in Tasks : /\ job[u].w = None <=> job[u].phase \in {"none", "claimed"}
                          /\ job[u].w # None => home[job[u].w] = u
  BY RuntimeAssumptions, ObservedFacts
     DEF ControlTypeOK, RuntimesTypeOK, TypeInv, HomesAgree, ProcHomes, JobHomes, JobArgs
<1>1. CASE job'[t] = job[t]
  <2>1. world[job[t].w] # "alive" /\ job[t].w \in Workers
    BY <1>0, <1>1 DEF NotRunning
  <2>2. ASSUME NEW u \in Tasks, Launch(u), job[u].w = job[t].w, job[u].phase = "prepared" PROVE FALSE
    <3>1. u = t
      BY <1>0, <2>1, <2>2
    <3>2. job'[t].phase # "prepared"
      BY <1>0, <2>2, <3>1 DEF Launch, Advance
    <3> QED BY <1>1, <2>2, <3>1, <3>2
  <2> QED BY <1>0, <1>1, <2>1, <2>2, AliveMoves
<1>2. CASE Launch(t) /\ job'[t].phase \in {"started", "startFailed"} /\ job'[t].w = job[t].w
  <2>1. world[job[t].w] # "alive" /\ job'[t].phase = "startFailed"
    BY <1>2 DEF Launch, InPhase, NotRunning
  <2>2. StartRaises(t, job[t].w)
    BY <1>0, <1>2, <2>1 DEF Launch, Advance
  <2>3. UNCHANGED world
    BY <2>2 DEF StartRaises, Fault
  <2> QED BY <1>2, <2>1, <2>3
<1>3. CASE CleanupStop(t) /\ job'[t].w = job[t].w
  <2>1. job[t].w \in Workers /\ home[job[t].w] = t
    BY <1>0, <1>3 DEF CleanupStop, InPhase
  <2>2. CASE StopReturns(job[t].w)
    <3>1. world[job[t].w] = "alive" => job[t].w \in StopTargets(job[t].w)
      BY <2>1 DEF StopTargets, AliveWorkers, Windows
    <3> QED BY <1>3, <2>1, <2>2, <3>1 DEF StopReturns, Kill
  <2>3. CASE StopRaises(job[t].w)
    <3>1. Windows(t) = {} /\ UNCHANGED world
      BY <1>0, <2>1, <2>3 DEF StopRaises, Fault
    <3> QED BY <1>3, <2>1, <3>1 DEF Windows
  <2> QED BY <1>3, <2>2, <2>3 DEF CleanupStop
<1>4. CASE (LaunchFailed(t) \/ CleanupRegistry(t)) /\ job'[t].w = job[t].w
  <2>1. UNCHANGED world
    BY <1>4 DEF LaunchFailed, CleanupRegistry
  <2>2. job[t].phase \in NotRunning
    BY <1>4 DEF LaunchFailed, CleanupRegistry, InPhase, NotRunning
  <2> QED BY <1>4, <2>1, <2>2
<1>5. CASE Resolve(t)
  <2>1. job'[t].w = FreshWorker /\ FreshWorker \in Workers /\ home[FreshWorker] = None /\ UNCHANGED world
    BY <1>0, <1>5, FreshWorkerType DEF Resolve
  <2> QED BY <1>0, <2>1
<1>6. NoJob.phase \notin NotRunning /\ "claimed" \notin NotRunning /\ "registered" \notin NotRunning
      /\ "cleanup" \notin NotRunning
  BY DEF NoJob, NotRunning
<1> QED BY <1>1, <1>2, <1>3, <1>4, <1>5, <1>6, ClaimMoves

\* A second shell process of a task is never started beside a first.
LEMMA ShellTiedStep ==
  ASSUME WorkspaceInv, Undisturbed, [Next]_vars
  PROVE  ShellTied'
<1>0. /\ ObservedInv /\ ShellTied /\ TypeInv /\ None \notin Workers
      /\ job \in [Tasks -> [phase : Phases, w : Workers \cup {None}]]
      /\ \A u \in Tasks : job[u].w = None <=> job[u].phase \in {"none", "claimed"}
  BY ObservedFacts DEF WorkspaceInv, ControlTypeOK, TypeInv, JobArgs
<1>1. ASSUME NEW t \in Tasks, Kind[t] = "shell", job'[t].phase \in NotRunning PROVE world'[job'[t].w] # "alive"
  BY <1>0, <1>1, NotRunningStep DEF ShellTied
<1> SUFFICES ASSUME NEW v \in Workers, world'[v] = "alive", Kind[home'[v]] = "shell"
             PROVE  \/ rowTask'[v] = home'[v] \/ job'[home'[v]].w = v \/ task'[home'[v]] \in Terminal
                    \/ task'[home'[v]] = "DISPATCHING" /\ job'[home'[v]] = NoJob
  BY <1>1 DEF ShellTied
<1>2. CASE \E t \in Tasks : Launch(t) /\ job[t].phase = "prepared" /\ job[t].w = v /\ home[v] = t /\ home'[v] = t
  BY <1>0, <1>2 DEF Launch, Advance
<1>3. CASE world[v] = "alive" /\ home'[v] = home[v] /\ home[v] \in Tasks
  <2> DEFINE t == home[v]
  <2>0. t \in Tasks
    BY <1>3
  <2>1. CASE rowTask[v] = t
    BY <1>0, <1>3, <2>1, RowKept, ObservedFacts
  <2>2. CASE task[t] \in Terminal
    BY <1>0, <1>3, <2>2, TaskMoves
  <2>3. ASSUME task[t] = "DISPATCHING", task'[t] = "QUEUED", job[t].w = v \/ job[t] = NoJob PROVE FALSE
    <3>1. ResolveBusy(t) \/ Unclaim(t)
      BY <1>0, <2>0, <2>3, Released
    <3>2. job[t].w = v /\ job[t].phase \in NotRunning
      BY <1>0, <2>0, <2>3, <3>1 DEF ResolveBusy, Unclaim, InPhase, NoJob, NotRunning
    <3> QED BY <1>0, <1>3, <3>2 DEF ShellTied
  <2>4. CASE job[t].w = v /\ task[t] = "DISPATCHING"
    <3>1. CASE job'[t] = NoJob
      BY <1>0, <1>3, <2>3, <2>4, <3>1, TaskMoves, ObservedFacts DEF ActivateWorker
    <3>2. CASE job'[t].w = v
      BY <1>3, <3>2
    <3>3. ~Claim /\ ~Resolve(t)
      BY <1>0, <1>3, <2>4 DEF Claim, Between, Resolve, InPhase, NoJob
    <3> QED BY <1>0, <1>3, <2>4, <3>1, <3>2, <3>3, ClaimMoves
  <2>5. CASE task[t] = "DISPATCHING" /\ job[t] = NoJob
    <3>1. job'[t] = NoJob
      <4>1. CASE Claim
        <5>1. t \notin Claimed
          BY <1>0, <1>3, <2>5, <4>1, ClaimedFacts, ObservedFacts DEF Claim, ClaimQueuedTasks
        <5> QED BY <2>0, <2>5, <4>1, <5>1 DEF Claim
      <4> QED BY <1>0, <1>3, <2>5, <4>1, ClaimMoves
              DEF Resolve, Launch, LaunchFailed, RegisterHandle, Activate, CleanupStop, CleanupRegistry, InPhase, NoJob
    <3>2. ~Activate(t)
      BY <2>5 DEF Activate, InPhase, NoJob
    <3> QED BY <1>0, <1>3, <2>3, <2>5, <3>1, <3>2, TaskMoves
  <2>6. job[t].w = v => task[t] = "DISPATCHING" \/ task[t] \in Terminal
    BY <1>0, <2>0 DEF ObservedInv, ReservedWhileClaimed
  <2>7. \/ rowTask[v] = t \/ job[t].w = v \/ task[t] \in Terminal
        \/ task[t] = "DISPATCHING" /\ job[t] = NoJob
    BY <1>0, <1>3 DEF ShellTied
  <2> QED BY <2>1, <2>2, <2>4, <2>5, <2>6, <2>7
<1> QED BY <1>0, <1>2, <1>3, AliveMoves

\* All of it holds throughout, when stops work.
LEMMA WorkspaceInvHolds ==
  ASSUME StopsWork
  PROVE  Spec => []WorkspaceInv
<1>1. ASSUME Init PROVE HandleRead /\ StillOpen /\ QuietOnceStopped /\ ShellTied /\ OneRetirement
  BY <1>1 DEF Init, ControlInit, RuntimesInit, HandleRead, StillOpen, QuietOnceStopped, Stopped, ShellTied,
              OneRetirement, IdleThread, NoJob, NotRunning, RetirePcs, InsidePcs
<1>2. Init => WorkspaceInv
  BY <1>1, ObservedInvInit DEF WorkspaceInv
<1>3. ASSUME WorkspaceInv, [Next]_vars PROVE WorkspaceInv'
  <2>1. ObservedInv' /\ OneRetirement'
    BY <1>3, ObservedInvStep, OneRetirementStep, ObservedFacts DEF WorkspaceInv, StopsWork
  <2>2. HandleRead' /\ StillOpen' /\ QuietOnceStopped' /\ ShellTied'
    BY <1>3, HandleReadStep, StillOpenStep, QuietStep, ShellTiedStep DEF WorkspaceInv, StopsWork
  <2> QED BY <2>1, <2>2 DEF WorkspaceInv
<1> QED BY <1>2, <1>3, PTL DEF Spec

\* The evaluator judges a workspace in which no process of its task runs, when
\* nothing is deleted, the database answers and remote stops succeed: neither a
\* second dispatch nor a start that failed late nor a restart leaves one there.
THEOREM EvaluatorSeesQuietWorkspace ==
  ASSUME StopsWork
  PROVE  Spec => []EvaluatedWorkspaceIsQuiet
<1>1. WorkspaceInv => EvaluatedWorkspaceIsQuiet
  BY DEF WorkspaceInv, StillOpen, QuietOnceStopped, Stopped, EvaluatedWorkspaceIsQuiet, At
<1> QED BY <1>1, WorkspaceInvHolds, PTL

-----------------------------------------------------------------------------
(* The leases of running processes                                         *)

\* The lease of a GPU is held for the process that runs on it, and what gives it
\* back has seen that process end.
AliveHolds ==
  crashes = 0 =>
    /\ \A v \in Workers : world[v] = "alive" /\ Gpu[home[v]] # None => held[Gpu[home[v]]] = v
    /\ \A t \in Tasks : job[t].phase \in NotRunning => world[job[t].w] # "alive"
    /\ \A p \in Threads : th[p].pc \in {"evaluate", "commit", "release"} /\ th[p].lock # None =>
                             world[th[p].w] # "alive"

\* A retirement comes to the release from the commit.
LEMMA ReleaseOrigin ==
  ASSUME ControlTypeOK, NEW p \in Threads, LateStep(p), th'[p].pc = "release"
  PROVE  RetireCommit(p) /\ th[p].pc = "commit" /\ SameArgs(p)
<1>1. ASSUME NEW r, Becomes(p, r) PROVE th'[p] = r
  BY <1>1 DEF Becomes, ControlTypeOK
<1>2. ASSUME NEW pc, Goto(p, pc) PROVE th'[p].pc = pc
  BY <1>1, <1>2 DEF Goto, ControlTypeOK, ThreadRecord
<1>3. ~RetireStop(p) /\ ~RetireRelease(p)
  BY <1>2 DEF RetireStop, RetireRelease, AfterStop
<1>4. ~RetireEvaluate(p)
  <2>1. \A verdict : [th[p] EXCEPT !.pc = "commit", !.term = verdict].pc = "commit"
    BY DEF ControlTypeOK, ThreadRecord
  <2> QED BY <1>1, <2>1 DEF RetireEvaluate
<1> QED BY <1>3, <1>4 DEF LateStep, RetireCommit, At

\* A process keeps its lease: no release comes while it runs.
LEMMA AliveHoldsStep ==
  ASSUME WorkspaceInv, WorkspaceInv', LeaseInv, AliveHolds, StopsWork, "lateStart" \notin Faults, [Next]_vars
  PROVE  AliveHolds'
<1> SUFFICES ASSUME crashes' = 0
             PROVE  /\ \A v \in Workers : world'[v] = "alive" /\ Gpu[home'[v]] # None => held'[Gpu[home'[v]]] = v
                    /\ \A t \in Tasks : job'[t].phase \in NotRunning => world'[job'[t].w] # "alive"
                    /\ \A p \in Threads : th'[p].pc \in {"evaluate", "commit", "release"} /\ th'[p].lock # None =>
                                             world'[th'[p].w] # "alive"
  BY DEF AliveHolds
<1>0. /\ ObservedInv /\ RowsInv /\ TypeInv /\ None \notin Workers /\ None \notin Tasks
      /\ Gpu \in [Tasks -> Gpus \cup {None}] /\ Undisturbed
  BY ObservedFacts, RuntimeAssumptions DEF WorkspaceInv, StopsWork
<1>00. /\ crashes = 0 /\ JobHolds /\ RetireHolds
       /\ \A v \in Workers : world[v] = "alive" /\ Gpu[home[v]] # None => held[Gpu[home[v]]] = v
       /\ \A t \in Tasks : job[t].phase \in NotRunning => world[job[t].w] # "alive"
       /\ \A p \in Threads : th[p].pc \in {"evaluate", "commit", "release"} /\ th[p].lock # None =>
                               world[th[p].w] # "alive"
  BY <1>0, NoCrashYet DEF AliveHolds, LeaseInv
<1>1. ASSUME NEW v \in Workers, world'[v] = "alive", Gpu[home'[v]] # None PROVE held'[Gpu[home'[v]]] = v
  <2>1. CASE \E t \in Tasks : Launch(t) /\ job[t].phase = "prepared" /\ job[t].w = v /\ home[v] = t /\ home'[v] = t
    <3>1. PICK t \in Tasks : Launch(t) /\ job[t].phase = "prepared" /\ job[t].w = v /\ home'[v] = t
      BY <2>1
    <3>2. UNCHANGED held
      BY <3>1, DispatchFrame DEF Launch, StartReturns, StartRaises
    <3> QED BY <1>00, <1>1, <3>1, <3>2 DEF JobHolds, Holding
  <2>2. CASE world[v] = "alive" /\ home'[v] = home[v] /\ home[v] \in Tasks
    <3> DEFINE g == Gpu[home[v]]
    <3>1. g \in Gpus /\ held[g] = v
      BY <1>0, <1>00, <1>1, <2>2
    <3>2. ASSUME NEW t \in Tasks, LaunchFailed(t) \/ CleanupRegistry(t), g = Gpu[t], g # None PROVE FALSE
      <4>1. job[t].phase \in {"startFailed", "stopped", "stopFailed"}
        BY <3>2 DEF LaunchFailed, CleanupRegistry, InPhase
      <4>2. job[t].w = v
        BY <1>00, <3>1, <3>2, <4>1 DEF JobHolds, Holding
      <4> QED BY <1>00, <2>2, <4>1, <4>2 DEF NotRunning
    <3>3. ASSUME NEW p \in Threads, RetireRelease(p), g = th[p].lock, g # None PROVE FALSE
      <4>1. th[p].pc = "release" /\ th[p].w = v
        BY <1>00, <3>1, <3>3 DEF RetireRelease, At, RetireHolds, LatePcs
      <4> QED BY <1>00, <2>2, <3>3, <4>1
    <3> QED BY <1>0, <2>2, <3>1, <3>2, <3>3, LeaseMoves
  <2> QED BY <1>0, <1>1, <2>1, <2>2, AliveMoves
<1>2. ASSUME NEW t \in Tasks, job'[t].phase \in NotRunning PROVE world'[job'[t].w] # "alive"
  BY <1>0, <1>00, <1>2, NotRunningStep DEF StopsWork
<1>3. ASSUME NEW p \in Threads, th'[p].pc \in {"evaluate", "commit", "release"}, th'[p].lock # None
      PROVE  world'[th'[p].w] # "alive"
  <2>1. CASE th'[p].pc \in {"evaluate", "commit"}
    <3>1. task'[th'[p].t] \notin Terminal /\ ObservedInv' /\ th'[p].pc \in {"halt"} \cup RetirePcs
      BY <2>1 DEF WorkspaceInv, StillOpen, RetirePcs, InsidePcs
    <3>2. \A v \in Workers : home'[v] = th'[p].t => world'[v] # "alive"
      BY <2>1, <3>1 DEF WorkspaceInv, QuietOnceStopped, Stopped, AliveWorkers
    <3>3. th'[p].w \in Workers /\ home'[th'[p].w] = th'[p].t
      <4>1. TypeInv' /\ th'[p].t \in Tasks
        BY <1>0, <3>1, TypeInvStep DEF TypeInv, ThreadArgs, ArgsFit, RetirePcs, InsidePcs
      <4>2. th'[p].w # None /\ th'[p].w \in Workers \cup {None}
        BY <3>1, <4>1 DEF ObservedInv, ArgumentsCurrent, TypeInv, FlotillaTypeOK, ControlTypeOK, ThreadRecord
      <4> QED BY <4>1, <4>2 DEF TypeInv, HomesAgree, ThreadHomes
    <3> QED BY <3>2, <3>3
  <2>2. CASE th'[p].pc = "release"
    <3>1. th[p].done = FALSE /\ ~ReadsOn(p)
      BY <1>0, <2>2, ObservedFacts DEF ObservedInv, NoDeletion, ThreadRecord, ReadsOn, AfterRead, AfterStop
    <3>2. /\ th'[p] = th[p] \/ (RetireCommit(p) /\ SameArgs(p))
          /\ th[p].pc \in {"commit", "release"}
      <4>1. th'[p] = th[p] \/ LateStep(p)
        BY <1>0, <2>2, <3>1, LateMoves DEF LatePcs
      <4>2. CASE LateStep(p)
        BY <2>2, <4>2, ReleaseOrigin, ObservedFacts, <1>0
      <4> QED BY <2>2, <4>1, <4>2
    <3>3. th[p].lock # None /\ th'[p].w = th[p].w
      BY <1>3, <3>2 DEF SameArgs
    <3>4. /\ world[th[p].w] # "alive" /\ th[p].w \in Workers /\ job[th[p].t].w # th[p].w
          /\ home[th[p].w] = th[p].t
      <4>1. th[p].w \in Workers /\ job[th[p].t].w # th[p].w
        BY <1>00, <3>2, <3>3 DEF RetireHolds, LatePcs
      <4> QED BY <1>0, <1>00, <3>2, <3>3, <4>1 DEF TypeInv, HomesAgree, ThreadHomes
    <3>5. ~\E t \in Tasks : Launch(t) /\ job[t].phase = "prepared" /\ job[t].w = th[p].w /\ home[th[p].w] = t
      BY <3>4
    <3> QED BY <1>0, <3>3, <3>4, <3>5, AliveMoves
  <2> QED BY <1>3, <2>1, <2>2
<1> QED BY <1>1, <1>2, <1>3

\* Until the server restarts, two processes of tasks of one GPU are never alive
\* together, however dispatches, stops and retirements interleave, as long as no
\* start fails after its window is open and remote stops succeed.
THEOREM OneProcessPerGpu ==
  ASSUME StopsWork, "lateStart" \notin Faults
  PROVE  Spec => [](crashes = 0 => GpuExclusive)
<1>1. Init => AliveHolds
  BY DEF Init, ControlInit, RuntimesInit, AliveHolds, NoJob, IdleThread, NotRunning
<1>2. WorkspaceInv /\ WorkspaceInv' /\ LeaseInv /\ AliveHolds /\ [Next]_vars => AliveHolds'
  BY AliveHoldsStep
<1>3. AliveHolds => (crashes = 0 => GpuExclusive)
  BY DEF AliveHolds, GpuExclusive
<1> QED BY <1>1, <1>2, <1>3, WorkspaceInvHolds, LeaseInvHolds, PTL DEF Spec
==============================================================================
