--------------------------- MODULE FlotillaProofs ---------------------------
(***************************************************************************)
(* Proofs about the whole server, for any number of tasks, workers,        *)
(* threads, GPUs, faults and crashes: its state keeps its types, every     *)
(* step is a step of the abstract Store or leaves the tables alone, and so *)
(* the theorems of StoreProofs hold of the server; an active task always   *)
(* has a live worker row; and until the server is restarted a live worker  *)
(* row holds the lease of its GPU.                                         *)
(***************************************************************************)
EXTENDS Flotilla, StoreProofs

-----------------------------------------------------------------------------
(* The parts of the inductive invariants                                   *)

\* The places of retire(), and those between the mark in _RETIRING and its end.
InsidePcs == {"read", "stop", "evaluate", "commit", "release", "leave"}
RetirePcs == InsidePcs \cup {"enter"}

\* The arguments a thread holds are those its place needs.
ArgsFit(r) ==
  /\ r \in ThreadRecord
  /\ IF r.pc = "idle" THEN r = IdleThread ELSE r.t \in Tasks
  /\ r.pc \in RetirePcs => r.term \in Terminal
  /\ r.pc = "target" => r.term \in Terminal \cup {"STUCK"}
ThreadArgs == \A p \in Threads : ArgsFit(th[p])

\* A claim has a worker id from the moment it is resolved.
JobArgs == \A t \in Tasks : job[t].w = None <=> job[t].phase \in {"none", "claimed"}

\* There is a fresh id for every claim that is not resolved yet.
Claims == {t \in Tasks : InPhase(t, {"claimed"})}
EnoughIds == Cardinality(Claims) <= Cardinality(UnusedWorkers)

\* A worker id is made for one task: wherever it is kept with a task, it is
\* with that one, and an id not yet made has no process.
HandleHomes == \A t \in Tasks : handles[t] # None => home[handles[t]] = t
TodoHomes == \A i \in todo : home[i[2]] = i[1]
ThreadHomes ==
  \A p \in Threads : /\ th[p].w # None => home[th[p].w] = th[p].t
                     /\ th[p].h # None => home[th[p].h] = th[p].t
JobHomes == \A t \in Tasks : job[t].w # None => home[job[t].w] = t
RowHomes == \A w \in Workers : rowTask[w] # None => rowTask[w] = home[w]
ProcHomes == \A w \in Workers : home[w] = None => world[w] = "none"

HomesAgree ==
  HandleHomes /\ TodoHomes /\ ThreadHomes /\ JobHomes /\ RowHomes /\ ProcHomes

TypeInv == FlotillaTypeOK /\ ThreadArgs /\ JobArgs /\ EnoughIds /\ HomesAgree

-----------------------------------------------------------------------------
(* Small facts                                                             *)

\* active_worker_id() returns a live row of the task if there is one, else None.
LEMMA ActiveWorkerIdType ==
  ASSUME StoreTypeOK, NEW t \in Tasks
  PROVE  /\ ActiveWorkerId(t) \in Workers \cup {None}
         /\ LiveRows(t) # {} => ActiveWorkerId(t) \in LiveRows(t)
         /\ LiveRows(t) = {} => ActiveWorkerId(t) = None
BY DEF StoreTypeOK, ActiveWorkerId, LiveRows

\* While a claim waits to be resolved there is an id for it.
LEMMA FreshWorkerType ==
  ASSUME TypeInv, NEW t \in Tasks, InPhase(t, {"claimed"})
  PROVE  FreshWorker \in Workers /\ home[FreshWorker] = None
<1>1. t \in Claims /\ IsFiniteSet(Claims)
  BY StoreAssumptions, FS_Subset DEF Claims
<1>2. Cardinality(Claims) # 0 /\ Cardinality(Claims) \in Nat
  BY <1>1, FS_EmptySet, FS_CardinalityType
<1>3. UnusedWorkers # {}
  <2>1. Cardinality({}) = 0
    BY FS_EmptySet
  <2> QED BY <1>2, <2>1 DEF TypeInv, EnoughIds
<1> QED BY <1>3 DEF FreshWorker, UnusedWorkers

\* The states _map_terminal returns.
LEMMA MapTerminalType ==
  ASSUME NEW r, NEW x
  PROVE  MapTerminal(r, x) \in {"DONE", "STUCK", "FAILED", None}
BY DEF MapTerminal

\* What the observer makes of a worker.
LEMMA ObservationType ==
  ASSUME NEW w \in Workers, home[w] \in Tasks
  PROVE  Observation(w) \in {"DONE", "STUCK", "FAILED", None}
BY MapTerminalType, RuntimeAssumptions DEF Observation

-----------------------------------------------------------------------------
(* Which steps change what.  Each lemma names the steps that change one    *)
(* part of the state: the proofs below look at those alone.                *)

WorkerStep(w) ==
  \/ \E s \in Reports : AgentReports(w, s)
  \/ \E code \in {"ok", "bad"} : AgentExits(w, code)
  \/ AgentVanishes(w)

\* The whole next-state relation, as far as it has been taken apart here.
LEMMA Steps ==
  ASSUME [Next]_vars
  PROVE  \/ SubmitTasks \/ ObserverSnapshot \/ ObserverItem \/ MarkStale \/ Claim \/ Crash
         \/ \E p \in Requests : RequestStep(p)
         \/ \E t \in Tasks : DispatchStep(t) \/ Reconcile(t)
         \/ \E p \in Threads : RetireStep(p) \/ ActuateStep(p)
         \/ \E w \in Workers : WorkerStep(w)
         \/ UNCHANGED vars
BY DEF Next, ObserverStep, SchedulerStep, ThreadStep, WorkerStep

\* The steps of the workers and of a request's own code leave most things alone.
LEMMA WorkerFrame ==
  ASSUME NEW w \in Workers, WorkerStep(w)
  PROVE  UNCHANGED <<storeVars, controlVars, home, held>>
BY DEF WorkerStep, AgentReports, AgentExits, AgentVanishes, besideWorkers,
       WorkerReports, WorkerExits, WindowVanishes

\* A request changes the tables only to erase a task.
LEMMA RequestFrame ==
  ASSUME NEW p \in Requests, RequestStep(p)
  PROVE  /\ UNCHANGED <<runtimeVars, registryVars, todo, job, bootVars>>
         /\ UNCHANGED storeVars \/ EraseTask(p)
BY DEF RequestStep, RequestStop, RequestNudge, RequestDelete, Begin, WorkerPing,
       EraseTask, PingTarget, besideRoutes

\* retire and actuate, the scheduler, the observer.
LEMMA ThreadFrame ==
  ASSUME NEW p \in Threads, RetireStep(p) \/ ActuateStep(p)
  PROVE  /\ UNCHANGED <<home, status, todo, job, bootVars>>
         /\ UNCHANGED storeVars \/ RetireStuck(p) \/ RetireCommit(p) \/ NudgeWorker(p)
         /\ UNCHANGED world \/ RetireStop(p) \/ HaltWorker(p)
         /\ UNCHANGED held \/ RetireRelease(p)
         /\ UNCHANGED faults \/ RetireStop(p) \/ HaltWorker(p) \/ RetireCommit(p)
         /\ UNCHANGED handles \/ RetireRead(p) \/ RetireLeave(p)
         /\ UNCHANGED retiring \/ RetireEnter(p) \/ RetireRead(p) \/ RetireCommit(p) \/ RetireLeave(p)
BY DEF RetireStep, ActuateStep, RetireStuck, RetireEnter, RetireRead, RetireStop, RetireEvaluate,
       RetireCommit, RetireRelease, RetireLeave, HaltWorker, VerifyCancelled, NudgeWorker,
       besideActuator, registryVars, runtimeVars, ReleaseGpu

\* One claim of the scheduler.
LEMMA DispatchFrame ==
  ASSUME NEW t \in Tasks, DispatchStep(t)
  PROVE  /\ UNCHANGED <<retiring, th, todo, bootVars>>
         /\ UNCHANGED storeVars \/ ResolveBusy(t) \/ ResolveUnfit(t) \/ Activate(t) \/ Unclaim(t)
         /\ UNCHANGED home \/ Resolve(t)
         /\ UNCHANGED world \/ Launch(t) \/ CleanupStop(t)
         /\ UNCHANGED status \/ Launch(t)
         /\ UNCHANGED held \/ Resolve(t) \/ LaunchFailed(t) \/ CleanupRegistry(t)
         /\ UNCHANGED faults \/ Launch(t) \/ Activate(t) \/ CleanupStop(t) \/ Unclaim(t)
         /\ UNCHANGED handles \/ RegisterHandle(t) \/ CleanupRegistry(t)
BY DEF DispatchStep, ResolveBusy, ResolveUnfit, Resolve, Launch, LaunchFailed, RegisterHandle,
       Activate, CleanupStop, CleanupRegistry, Unclaim, besideScheduler, runtimeVars,
       StartReturns, StartRaises

\* Submissions, the observer loop, the patrol, a crash and the reconciliation.
LEMMA OtherFrames ==
  /\ SubmitTasks => UNCHANGED <<runtimeVars, registryVars, th, todo, job, boot, crashes>>
  /\ ObserverSnapshot => UNCHANGED <<storeVars, runtimeVars, registryVars, th, job, bootVars>>
  /\ ObserverItem => UNCHANGED <<storeVars, runtimeVars, registryVars, job, bootVars>>
  /\ MarkStale => UNCHANGED <<runtimeVars, registryVars, th, todo, job, bootVars>>
  /\ Claim => UNCHANGED <<runtimeVars, registryVars, th, todo, bootVars>>
  /\ Crash => UNCHANGED <<storeVars, home, world, status, faults, submits>>
  /\ \A t \in Tasks : Reconcile(t) => UNCHANGED <<home, world, status, held, retiring, th, todo, job,
                                                 submits, crashes>>
BY DEF SubmitTasks, besideRoutes, ObserverSnapshot, ObserverItem, MarkStale, Claim, Crash, Reconcile,
       besideScheduler, registryVars

-----------------------------------------------------------------------------
(* Refinement: what the server does to the two tables                      *)

\* Every step of the server is one call of a Store method or leaves the tables as
\* they are; the worker id of a call belongs to the task of the call.
Tied(t, w) == w # None => home[w] = t
Finishes(t, w, s) == t \in Tasks /\ w \in Workers \cup {None} /\ s \in Terminal /\ Tied(t, w) /\ FinishWorker(t, w, s)

\* Who makes the call.
LEMMA CallStep ==
  ASSUME TypeInv, [Next]_vars
  PROVE  \/ UNCHANGED storeVars
         \/ \E b \in Batches, place \in 0 .. Len(queue) : CreateTasks(b, place)
         \/ ClaimQueuedTasks
         \/ \E S \in SUBSET Tasks : Between /\ MarkStaleDispatchingLost(S)
         \/ \E t \in Tasks, c \in SetCalls :
              SetTaskState(t, c[1], c[2]) /\ (c[2] = {"DISPATCHING"} => job'[t] = NoJob)
         \/ \E t \in Tasks : Activate(t) /\ job[t].w \in Workers /\ ActivateWorker(t, job[t].w)
         \/ \E p \in Threads : RetireCommit(p) /\ Finishes(th[p].t, th[p].w, th[p].term)
         \/ \E t \in Tasks : Reconcile(t) /\ Finishes(t, ActiveWorkerId(t), "LOST")
         \/ \E p \in Threads : RetireCommit(p) /\ th[p].done /\ EndWorker(th[p].w)
         \/ \E p \in Requests : EraseTask(p) /\ th[p].t \in Tasks /\ DeleteTask(th[p].t)
<1> DEFINE Done == \/ UNCHANGED storeVars
                   \/ \E b \in Batches, place \in 0 .. Len(queue) : CreateTasks(b, place)
                   \/ ClaimQueuedTasks
                   \/ \E S \in SUBSET Tasks : Between /\ MarkStaleDispatchingLost(S)
                   \/ \E t \in Tasks, c \in SetCalls :
                        SetTaskState(t, c[1], c[2]) /\ (c[2] = {"DISPATCHING"} => job'[t] = NoJob)
                   \/ \E t \in Tasks : Activate(t) /\ job[t].w \in Workers /\ ActivateWorker(t, job[t].w)
                   \/ \E p \in Threads : RetireCommit(p) /\ Finishes(th[p].t, th[p].w, th[p].term)
                   \/ \E t \in Tasks : Reconcile(t) /\ Finishes(t, ActiveWorkerId(t), "LOST")
                   \/ \E p \in Threads : RetireCommit(p) /\ th[p].done /\ EndWorker(th[p].w)
                   \/ \E p \in Requests : EraseTask(p) /\ th[p].t \in Tasks /\ DeleteTask(th[p].t)
<1>0. /\ StoreTypeOK /\ ControlTypeOK /\ ThreadArgs /\ JobArgs /\ HomesAgree
      /\ None \notin Workers /\ None \notin Tasks
  BY StoreAssumptions DEF TypeInv, FlotillaTypeOK
<1> USE DEF ThreadArgs, ArgsFit, At
<1>1. CASE SubmitTasks \/ MarkStale \/ Claim
  BY <1>1 DEF SubmitTasks, MarkStale, Claim
<1>2. ASSUME NEW p \in Requests, EraseTask(p) PROVE Done
  <2>1. th[p].t \in Tasks
    BY <1>0, <1>2 DEF EraseTask, Threads
  <2> QED BY <1>2, <2>1 DEF EraseTask
<1>3. ASSUME NEW t \in Tasks, NEW target \in {"QUEUED", "FAILED", "LOST"}, TryRelease(t, target), EndJob(t)
      PROVE  Done
  <2>1. <<target, {"DISPATCHING"}>> \in SetCalls
    BY DEF SetCalls
  <2>2. job'[t] = NoJob
    BY <1>0, <1>3 DEF EndJob, ControlTypeOK
  <2>3. CASE SetTaskState(t, target, {"DISPATCHING"})
    BY <2>1, <2>2, <2>3
  <2> QED BY <1>3, <2>3 DEF TryRelease, ReleaseTaskClaim
<1>4. ASSUME NEW t \in Tasks, ResolveBusy(t) \/ ResolveUnfit(t) \/ Unclaim(t)
      PROVE  Done
  BY <1>3, <1>4 DEF ResolveBusy, ResolveUnfit, Unclaim
<1>5. ASSUME NEW t \in Tasks, Activate(t) PROVE Done
  <2>1. job[t].w \in Workers
    BY <1>0, <1>5 DEF Activate, InPhase, JobArgs, ControlTypeOK
  <2> QED BY <1>5, <2>1 DEF Activate
<1>6. ASSUME NEW p \in Threads, RetireStuck(p) \/ NudgeWorker(p) PROVE Done
  <2>1. /\ th[p].t \in Tasks
        /\ <<"STUCK", {"RUNNING", "PAUSED", "STUCK"}>> \in SetCalls
        /\ <<"RUNNING", {"STUCK"}>> \in SetCalls
        /\ {"RUNNING", "PAUSED", "STUCK"} # {"DISPATCHING"} /\ {"STUCK"} # {"DISPATCHING"}
    BY <1>0, <1>6 DEF RetireStuck, NudgeWorker, SetCalls
  <2> QED BY <1>6, <2>1 DEF RetireStuck, NudgeWorker
<1>7. ASSUME NEW p \in Threads, RetireCommit(p) PROVE Done
  <2>1. th[p].t \in Tasks /\ th[p].term \in Terminal /\ th[p].w \in Workers \cup {None}
    BY <1>0, <1>7 DEF RetireCommit, RetirePcs, InsidePcs, ThreadRecord
  <2>2. Tied(th[p].t, th[p].w)
    BY <1>0 DEF HomesAgree, ThreadHomes, Tied
  <2>3. CASE th[p].done /\ EndWorker(th[p].w)
    BY <1>7, <2>3
  <2>4. CASE FinishWorker(th[p].t, th[p].w, th[p].term)
    BY <1>7, <2>1, <2>2, <2>4 DEF Finishes
  <2> QED BY <1>7, <2>3, <2>4 DEF RetireCommit
<1>8. ASSUME NEW t \in Tasks, Reconcile(t) PROVE Done
  <2>1. ActiveWorkerId(t) \in Workers \cup {None} /\ Tied(t, ActiveWorkerId(t)) /\ "LOST" \in Terminal
    BY <1>0, ActiveWorkerIdType DEF HomesAgree, RowHomes, Tied, LiveRows, StoreTypeOK, Terminal
  <2> QED BY <1>8, <2>1 DEF Reconcile, Finishes
<1>9. CASE UNCHANGED vars
  BY <1>9 DEF vars
<1> QED BY <1>1, <1>2, <1>4, <1>5, <1>6, <1>7, <1>8, <1>9,
           Steps, WorkerFrame, RequestFrame, ThreadFrame, DispatchFrame, OtherFrames

\* Which call it is.
LEMMA TableStep ==
  ASSUME TypeInv, [Next]_vars
  PROVE  \/ UNCHANGED storeVars
         \/ \E b \in Batches, place \in 0 .. Len(queue) : CreateTasks(b, place)
         \/ ClaimQueuedTasks
         \/ \E S \in SUBSET Tasks : MarkStaleDispatchingLost(S)
         \/ \E t \in Tasks, c \in SetCalls : SetTaskState(t, c[1], c[2])
         \/ \E t \in Tasks : Activate(t) /\ job[t].w \in Workers /\ ActivateWorker(t, job[t].w)
         \/ \E t \in Tasks, w \in Workers \cup {None}, s \in Terminal :
              Tied(t, w) /\ FinishWorker(t, w, s)
         \/ \E p \in Threads : RetireCommit(p) /\ th[p].done /\ EndWorker(th[p].w)
         \/ \E t \in Tasks : DeleteTask(t)
<1>1. ASSUME NEW p \in Threads, Finishes(th[p].t, th[p].w, th[p].term)
      PROVE  \E t \in Tasks, w \in Workers \cup {None}, s \in Terminal : Tied(t, w) /\ FinishWorker(t, w, s)
  BY <1>1 DEF Finishes
<1>2. ASSUME NEW t \in Tasks, Finishes(t, ActiveWorkerId(t), "LOST")
      PROVE  \E u \in Tasks, w \in Workers \cup {None}, s \in Terminal : Tied(u, w) /\ FinishWorker(u, w, s)
  BY <1>2 DEF Finishes
<1> QED BY <1>1, <1>2, CallStep

\* All of these are steps the abstract Store allows.
LEMMA StoreStep ==
  ASSUME TypeInv, [Next]_vars
  PROVE  [StoreNext]_storeVars
<1>1. ASSUME NEW p \in Threads, EndWorker(th[p].w) PROVE [StoreNext]_storeVars
  <2>1. th[p].w \in Workers \cup {None} /\ StoreTypeOK /\ None \notin Workers
    BY StoreAssumptions DEF TypeInv, FlotillaTypeOK, ControlTypeOK, ThreadRecord
  <2>2. CASE th[p].w \in Workers
    BY <1>1, <2>2 DEF StoreNext
  <2>3. CASE th[p].w = None
    BY <1>1, <2>1, <2>3 DEF EndWorker, StoreTypeOK, storeVars
  <2> QED BY <2>1, <2>2, <2>3
<1> QED BY <1>1, TableStep DEF StoreNext

-----------------------------------------------------------------------------
(* Type correctness                                                        *)

\* The thread p takes a record that fits.
LEMMA BecomesFits ==
  ASSUME ControlTypeOK, ThreadArgs, NEW p \in Threads, NEW r, ArgsFit(r), Becomes(p, r)
  PROVE  th' \in [Threads -> ThreadRecord] /\ ThreadArgs'
BY DEF ControlTypeOK, ThreadArgs, ArgsFit, Becomes

\* The idle record, and what is left of a retirement, fit.
LEMMA IdleFits == ArgsFit(IdleThread)
BY DEF ArgsFit, IdleThread, ThreadRecord, RetirePcs, InsidePcs

\* Whatever retire() answered, the thread goes on with arguments that fit.
LEMMA AfterRetireFits ==
  ASSUME ThreadArgs, NEW p \in Threads, th[p].t \in Tasks, NEW result
  PROVE  ArgsFit(AfterRetire(p, result))
<1>1. th[p] \in ThreadRecord
  BY DEF ThreadArgs, ArgsFit
<1>2. ArgsFit([IdleThread EXCEPT !.pc = "erase", !.op = "delete", !.t = th[p].t])
  <2> DEFINE r == [IdleThread EXCEPT !.pc = "erase", !.op = "delete", !.t = th[p].t]
  <2>1. r \in ThreadRecord /\ r.pc = "erase" /\ r.t = th[p].t
    BY DEF ThreadRecord, IdleThread
  <2>2. "erase" \notin RetirePcs
    BY DEF RetirePcs, InsidePcs
  <2> HIDE DEF r
  <2>3. ArgsFit(r)
    BY <2>1, <2>2 DEF ArgsFit
  <2> QED BY <2>3 DEF r
<1>3. ArgsFit([IdleThread EXCEPT !.pc = "verify", !.op = "delete", !.t = th[p].t, !.w = th[p].w])
  <2> DEFINE r == [IdleThread EXCEPT !.pc = "verify", !.op = "delete", !.t = th[p].t,
                                     !.w = th[p].w]
  <2>1. th[p].w \in Workers \cup {None}
    BY <1>1 DEF ThreadRecord
  <2>2. r \in ThreadRecord /\ r.pc = "verify" /\ r.t = th[p].t
    BY <2>1 DEF ThreadRecord, IdleThread
  <2>3. "verify" \notin RetirePcs
    BY DEF RetirePcs, InsidePcs
  <2> HIDE DEF r
  <2>4. ArgsFit(r)
    BY <2>2, <2>3 DEF ArgsFit
  <2> QED BY <2>4 DEF r
<1> QED BY <1>2, <1>3, IdleFits DEF AfterRetire

\* A thread that only moves to another place.
LEMMA GotoFits ==
  ASSUME ControlTypeOK, ThreadArgs, NEW p \in Threads, NEW pc, Goto(p, pc),
         ArgsFit([th[p] EXCEPT !.pc = pc])
  PROVE  th' \in [Threads -> ThreadRecord] /\ ThreadArgs'
BY BecomesFits DEF Goto

\* The local variables of every thread keep fitting.
LEMMA ThreadsStep ==
  ASSUME TypeInv, [Next]_vars
  PROVE  th' \in [Threads -> ThreadRecord] /\ ThreadArgs'
<1> DEFINE Fit == th' \in [Threads -> ThreadRecord] /\ ThreadArgs'
<1>0. /\ StoreTypeOK /\ RuntimesTypeOK /\ ControlTypeOK /\ ThreadArgs /\ HomesAgree
      /\ Requests \subseteq Threads /\ Observer \in Threads
  BY DEF TypeInv, FlotillaTypeOK, Threads
<1>00. \A p \in Threads : ArgsFit(th[p]) /\ th[p] \in ThreadRecord
  BY <1>0 DEF ThreadArgs, ArgsFit
<1>1. ASSUME UNCHANGED th PROVE Fit
  BY <1>0, <1>1 DEF ControlTypeOK, ThreadArgs
<1>2. ASSUME NEW p \in Requests, NEW op \in {"stop", "delete", "nudge"}, NEW t \in Tasks,
             NEW pc \in {"halt", "paste", "erase"}, Begin(p, op, t, pc)
      PROVE  Fit
  <2> DEFINE r == [IdleThread EXCEPT !.pc = pc, !.op = op, !.t = t, !.w = handles[t], !.h = handles[t]]
  <2>1. ArgsFit(r)
    BY <1>0 DEF ArgsFit, IdleThread, ThreadRecord, RetirePcs, InsidePcs, ControlTypeOK
  <2> QED BY <1>0, <1>2, <2>1, BecomesFits DEF Begin
<1>3. ASSUME NEW p \in Requests, NEW t \in Tasks, WorkerPing(p, t)
      PROVE  Fit
  <2> DEFINE r == [IdleThread EXCEPT !.pc = "target", !.op = "ping", !.t = t,
                                     !.term = MapTerminal(status[t], FALSE)]
  <2>1. MapTerminal(status[t], FALSE) \in {"DONE", "STUCK", "FAILED"}
    BY <1>3, MapTerminalType DEF WorkerPing
  <2>2. r \in ThreadRecord
    BY <2>1 DEF ThreadRecord, IdleThread, STATES
  <2>3. r.pc = "target" /\ r.t = t /\ r.term \in Terminal \cup {"STUCK"}
    BY <2>1 DEF IdleThread, Terminal
  <2>4. "target" \notin RetirePcs
    BY DEF RetirePcs, InsidePcs
  <2> HIDE DEF r
  <2>5. ArgsFit(r)
    BY <2>2, <2>3, <2>4 DEF ArgsFit
  <2> QED BY <1>0, <1>3, <2>5, BecomesFits DEF WorkerPing, r
<1>4. ASSUME NEW p \in Requests, EraseTask(p)
      PROVE  Fit
  BY <1>0, <1>4, BecomesFits, IdleFits DEF EraseTask
<1>5. ASSUME NEW p \in Requests, PingTarget(p)
      PROVE  Fit
  <2> DEFINE r == [th[p] EXCEPT !.pc = IF th[p].term = "STUCK" THEN "stick" ELSE "enter",
                                !.w = ActiveWorkerId(th[p].t)]
  <2>1. ArgsFit(th[p]) /\ th[p].pc = "target"
    BY <1>0, <1>00, <1>5 DEF PingTarget, At
  <2>2. th[p] \in ThreadRecord /\ th[p].t \in Tasks /\ th[p].term \in Terminal \cup {"STUCK"}
    BY <2>1 DEF ArgsFit
  <2>3. ActiveWorkerId(th[p].t) \in Workers \cup {None}
    BY <1>0, <2>2, ActiveWorkerIdType
  <2>4. \A pc \in {"stick", "enter"}, w \in Workers \cup {None} :
          LET q == [th[p] EXCEPT !.pc = pc, !.w = w]
          IN  q \in ThreadRecord /\ q.pc = pc /\ q.t = th[p].t /\ q.term = th[p].term
    BY <2>2 DEF ThreadRecord
  <2>5. /\ r \in ThreadRecord /\ r.t \in Tasks
        /\ r.pc \in {"stick", "enter"} /\ (r.pc = "enter" => r.term \in Terminal)
    <3>1. CASE th[p].term = "STUCK"
      BY <2>2, <2>3, <2>4, <3>1
    <3>2. CASE th[p].term # "STUCK"
      BY <2>2, <2>3, <2>4, <3>2
    <3> QED BY <3>1, <3>2
  <2>6. "stick" \notin RetirePcs
    BY DEF RetirePcs, InsidePcs
  <2> HIDE DEF r
  <2>7. ArgsFit(r)
    BY <2>5, <2>6 DEF ArgsFit
  <2> QED BY <1>0, <1>5, <2>7, BecomesFits DEF PingTarget, r
<1>6. CASE ObserverItem
  <2>1. PICK i \in todo :
          Becomes(Observer,
                  IF (IF task[i[1]] = Absent THEN None ELSE Observation(i[2])) = None THEN IdleThread
                  ELSE [IdleThread EXCEPT
                          !.pc = IF (IF task[i[1]] = Absent THEN None ELSE Observation(i[2])) = "STUCK"
                                 THEN "stick" ELSE "enter",
                          !.op = "observe", !.t = i[1], !.w = i[2],
                          !.term = IF task[i[1]] = Absent THEN None ELSE Observation(i[2])])
    BY <1>6 DEF ObserverItem
  <2> DEFINE term == IF task[i[1]] = Absent THEN None ELSE Observation(i[2])
  <2>2. i[1] \in Tasks /\ i[2] \in Workers /\ home[i[2]] = i[1]
    BY <1>0 DEF ControlTypeOK, HomesAgree, TodoHomes
  <2>3. term \in {"DONE", "STUCK", "FAILED", None}
    BY <2>2, ObservationType
  <2> HIDE DEF term
  <2> DEFINE r == [IdleThread EXCEPT !.pc = IF term = "STUCK" THEN "stick" ELSE "enter",
                                     !.op = "observe", !.t = i[1], !.w = i[2], !.term = term]
  <2>4. ASSUME term # None PROVE ArgsFit(r)
    BY <2>2, <2>3, <2>4 DEF ArgsFit, IdleThread, ThreadRecord, RetirePcs, InsidePcs, Terminal, STATES
  <2>5. Becomes(Observer, IF term = None THEN IdleThread ELSE r)
    BY <2>1 DEF term
  <2> HIDE DEF r
  <2> QED BY <1>0, <2>4, <2>5, IdleFits, BecomesFits
<1>7. ASSUME NEW p \in Threads, RetireStuck(p) \/ NudgeWorker(p)
      PROVE  Fit
  BY <1>0, <1>7, IdleFits, BecomesFits DEF RetireStuck, NudgeWorker
<1>8. ASSUME NEW p \in Threads, th[p].t \in Tasks, NEW result, Becomes(p, AfterRetire(p, result))
      PROVE  Fit
  BY <1>0, <1>8, AfterRetireFits, BecomesFits
<1>9. ASSUME NEW p \in Threads, NEW pc \in InsidePcs, th[p].pc \in InsidePcs, Goto(p, pc)
      PROVE  Fit
  <2>1. ArgsFit([th[p] EXCEPT !.pc = pc])
    BY <1>00, <1>9 DEF ArgsFit, ThreadRecord, RetirePcs, InsidePcs
  <2> QED BY <1>0, <1>9, <2>1, GotoFits
<1>10. ASSUME NEW p \in Threads, RetireEnter(p)
       PROVE  Fit
  <2>1. th[p].t \in Tasks /\ th[p].term \in Terminal /\ handles[th[p].t] \in Workers \cup {None}
    BY <1>0, <1>00, <1>10 DEF RetireEnter, At, ArgsFit, RetirePcs, InsidePcs, ControlTypeOK
  <2> DEFINE r == [th[p] EXCEPT !.pc = "read", !.h = handles[th[p].t]]
  <2>2. r \in ThreadRecord
    BY <1>00, <2>1 DEF ThreadRecord
  <2>3. r.pc = "read" /\ r.t \in Tasks /\ r.term \in Terminal
    BY <1>00, <2>1 DEF ThreadRecord
  <2> HIDE DEF r
  <2>4. ArgsFit(r)
    BY <2>2, <2>3 DEF ArgsFit
  <2> QED BY <1>0, <1>8, <1>10, <2>1, <2>4, BecomesFits DEF RetireEnter, r
<1>11. ASSUME NEW p \in Threads, RetireRead(p)
       PROVE  Fit
  <2>1. th[p].t \in Tasks /\ th[p].term \in Terminal
    BY <1>00, <1>11 DEF RetireRead, At, ArgsFit, RetirePcs, InsidePcs
  <2> DEFINE done == task[th[p].t] \in Terminal
             lock == IF HasRow(th[p].w) THEN Gpu[rowTask[th[p].w]] ELSE None
             r == [th[p] EXCEPT !.pc = AfterRead(th[p], done), !.done = done, !.lock = lock]
  <2>2. lock \in Gpus \cup {None} /\ done \in BOOLEAN /\ AfterRead(th[p], done) \in {"stop", "evaluate", "commit"}
    BY <1>0, <1>00, RuntimeAssumptions
       DEF HasRow, StoreTypeOK, ThreadRecord, AfterRead, AfterStop
  <2>3. CASE Becomes(p, AfterRetire(p, None))
    BY <1>8, <2>1, <2>3
  <2>4. CASE Becomes(p, r)
    <3> HIDE DEF done, lock
    <3>1. \A pc \in {"stop", "evaluate", "commit"} :
            LET q == [th[p] EXCEPT !.pc = pc, !.done = done, !.lock = lock]
            IN  q \in ThreadRecord /\ q.pc = pc /\ q.t = th[p].t /\ q.term = th[p].term
      BY <1>00, <2>2 DEF ThreadRecord
    <3>2. /\ r \in ThreadRecord /\ r.pc \in {"stop", "evaluate", "commit"}
          /\ r.t \in Tasks /\ r.term \in Terminal
      BY <2>1, <2>2, <3>1
    <3> HIDE DEF r
    <3>3. ArgsFit(r)
      BY <3>2 DEF ArgsFit
    <3> QED BY <1>0, <2>4, <3>3, BecomesFits
  <2> QED BY <1>11, <2>3, <2>4 DEF RetireRead
<1>12. ASSUME NEW p \in Threads, RetireStop(p)
       PROVE  Fit
  BY <1>9, <1>12 DEF RetireStop, At, InsidePcs, AfterStop
<1>13. ASSUME NEW p \in Threads, RetireEvaluate(p)
       PROVE  Fit
  <2>1. PICK verdict \in {"DONE", "FAILED"} : Becomes(p, [th[p] EXCEPT !.pc = "commit", !.term = verdict])
    BY <1>13 DEF RetireEvaluate
  <2> DEFINE r == [th[p] EXCEPT !.pc = "commit", !.term = verdict]
  <2>2. ArgsFit(th[p]) /\ th[p].pc = "evaluate"
    BY <1>00, <1>13 DEF RetireEvaluate, At
  <2>3. th[p] \in ThreadRecord /\ th[p].t \in Tasks
    BY <2>2 DEF ArgsFit
  <2>4. verdict \in STATES /\ verdict \in Terminal
    BY DEF STATES, Terminal
  <2>5. r \in ThreadRecord
    BY <2>3, <2>4 DEF ThreadRecord
  <2>6. r.pc = "commit" /\ r.t \in Tasks /\ r.term \in Terminal
    BY <2>3, <2>4 DEF ThreadRecord
  <2> HIDE DEF r
  <2>7. ArgsFit(r)
    BY <2>5, <2>6 DEF ArgsFit
  <2> QED BY <1>0, <2>1, <2>7, BecomesFits DEF r
<1>14. ASSUME NEW p \in Threads, RetireCommit(p)
       PROVE  Fit
  <2>1. th[p].t \in Tasks /\ th[p].pc \in InsidePcs
    BY <1>00, <1>14 DEF RetireCommit, At, ArgsFit, InsidePcs
  <2> QED BY <1>8, <1>9, <1>14, <2>1 DEF RetireCommit, InsidePcs
<1>15. ASSUME NEW p \in Threads, RetireRelease(p)
       PROVE  Fit
  BY <1>9, <1>15 DEF RetireRelease, At, InsidePcs
<1>16. ASSUME NEW p \in Threads, RetireLeave(p)
       PROVE  Fit
  <2>1. th[p].t \in Tasks
    BY <1>00, <1>16 DEF RetireLeave, At, ArgsFit
  <2> QED BY <1>8, <1>16, <2>1 DEF RetireLeave
<1>17. ASSUME NEW p \in Threads, HaltWorker(p)
       PROVE  Fit
  <2> DEFINE r == [th[p] EXCEPT !.pc = "enter", !.term = "CANCELLED", !.h = None]
  <2>1. th[p] \in ThreadRecord /\ th[p].pc = "halt" /\ ArgsFit(th[p])
    BY <1>00, <1>17 DEF HaltWorker, At
  <2>2. "CANCELLED" \in STATES /\ "CANCELLED" \in Terminal
    BY DEF STATES, Terminal
  <2>3. r \in ThreadRecord
    BY <2>1, <2>2 DEF ThreadRecord
  <2>4. r.pc = "enter" /\ r.t \in Tasks /\ r.term = "CANCELLED"
    BY <2>1 DEF ThreadRecord, ArgsFit
  <2> HIDE DEF r
  <2>5. ArgsFit(r)
    BY <2>2, <2>3, <2>4 DEF ArgsFit
  <2> QED BY <1>0, <1>17, <2>5, IdleFits, BecomesFits DEF HaltWorker, r
<1>18. ASSUME NEW p \in Threads, VerifyCancelled(p)
       PROVE  Fit
  <2>1. ArgsFit([th[p] EXCEPT !.pc = "erase"])
    BY <1>00, <1>18 DEF VerifyCancelled, At, ArgsFit, ThreadRecord, RetirePcs, InsidePcs
  <2> QED BY <1>0, <1>18, <2>1, IdleFits, BecomesFits DEF VerifyCancelled
<1>19. CASE Crash
  BY <1>19, IdleFits DEF Crash, ThreadArgs, ArgsFit
<1>20. ASSUME NEW p \in Requests, NEW t \in Tasks,
              RequestStop(p, t) \/ RequestNudge(p, t) \/ RequestDelete(p, t)
       PROVE  Fit
  BY <1>2, <1>20 DEF RequestStop, RequestNudge, RequestDelete
<1>21. CASE UNCHANGED vars
  BY <1>1, <1>21 DEF vars, controlVars
<1> QED BY <1>1, <1>3, <1>4, <1>5, <1>6, <1>7, <1>10, <1>11, <1>12, <1>13, <1>14, <1>15, <1>16,
           <1>17, <1>18, <1>19, <1>20, <1>21,
           Steps, WorkerFrame, DispatchFrame, OtherFrames
        DEF RequestStep, RetireStep, ActuateStep, controlVars

\* The processes, the reports, the leases and the count of faults.
LEMMA RuntimesStep ==
  ASSUME TypeInv, [Next]_vars
  PROVE  RuntimesTypeOK'
<1>0. /\ RuntimesTypeOK /\ ControlTypeOK
      /\ MaxFaults \in Nat
  BY RuntimeAssumptions DEF TypeInv, FlotillaTypeOK
<1> USE DEF RuntimesTypeOK
<1>1. ASSUME UNCHANGED runtimeVars PROVE RuntimesTypeOK'
  BY <1>0, <1>1 DEF runtimeVars
<1>2. ASSUME NEW kind, Fault(kind) PROVE faults' \in 0 .. MaxFaults
  BY <1>0, <1>2 DEF Fault
<1>3. ASSUME NEW w, StopReturns(w) \/ StopRaises(w)
      PROVE  world' \in [Workers -> ProcStates] /\ faults' \in 0 .. MaxFaults
  BY <1>0, <1>2, <1>3 DEF StopReturns, StopRaises, Kill, ProcStates
<1>4. ASSUME NEW g, ReleaseGpu(g) PROVE held' \in [Gpus -> Workers \cup {None}]
  BY <1>0, <1>4 DEF ReleaseGpu
<1>5. ASSUME NEW t \in Tasks, Launch(t)
      PROVE  RuntimesTypeOK'
  <2>1. CASE StartReturns(t, job[t].w)
    BY <1>0, <2>1 DEF StartReturns, ProcStates, Reports
  <2>2. CASE StartRaises(t, job[t].w)
    BY <1>0, <1>2, <2>2 DEF StartRaises, ProcStates, Reports
  <2> QED BY <1>5, <2>1, <2>2 DEF Launch
<1>6. ASSUME NEW t \in Tasks, Resolve(t)
      PROVE  RuntimesTypeOK'
  <2>1. FreshWorker \in Workers
    BY <1>6, FreshWorkerType DEF Resolve
  <2> QED BY <1>0, <1>6, <2>1 DEF Resolve, AcquireGpu
<1>7. ASSUME NEW t \in Tasks, LaunchFailed(t) \/ CleanupRegistry(t)
      PROVE  RuntimesTypeOK'
  BY <1>0, <1>4, <1>7 DEF LaunchFailed, CleanupRegistry
<1>8. ASSUME NEW t \in Tasks, Activate(t) \/ CleanupStop(t) \/ Unclaim(t)
      PROVE  RuntimesTypeOK'
  BY <1>0, <1>2, <1>3, <1>8 DEF Activate, CleanupStop, Unclaim
<1>9. ASSUME NEW p \in Threads, RetireStop(p) \/ RetireCommit(p) \/ RetireRelease(p) \/ HaltWorker(p)
      PROVE  RuntimesTypeOK'
  BY <1>0, <1>2, <1>3, <1>4, <1>9 DEF RetireStop, RetireCommit, RetireRelease, HaltWorker
<1>10. CASE Crash
  BY <1>0, <1>10 DEF Crash
<1>11. ASSUME NEW t \in Tasks, Reconcile(t)
       PROVE  RuntimesTypeOK'
  BY <1>0, <1>2, <1>11 DEF Reconcile
<1>12. ASSUME NEW w \in Workers, WorkerStep(w)
       PROVE  RuntimesTypeOK'
  BY <1>0, <1>2, <1>12 DEF WorkerStep, AgentReports, AgentExits, AgentVanishes, WorkerReports,
                           WorkerExits, WindowVanishes, ProcStates
<1>13. CASE UNCHANGED vars
  BY <1>1, <1>13 DEF vars
<1> QED BY <1>1, <1>5, <1>6, <1>7, <1>8, <1>9, <1>10, <1>11, <1>12, <1>13,
           Steps, RequestFrame, ThreadFrame, DispatchFrame, OtherFrames
        DEF runtimeVars

\* The handle registry and the set of retirements.
LEMMA RegistryStep ==
  ASSUME TypeInv, [Next]_vars
  PROVE  handles' \in [Tasks -> Workers \cup {None}] /\ retiring' \subseteq Tasks
<1> DEFINE Fit == handles' \in [Tasks -> Workers \cup {None}] /\ retiring' \subseteq Tasks
<1>0. StoreTypeOK /\ ControlTypeOK /\ ThreadArgs
  BY DEF TypeInv, FlotillaTypeOK
<1> USE DEF ControlTypeOK
<1>1. ASSUME UNCHANGED registryVars PROVE Fit
  BY <1>0, <1>1 DEF registryVars
<1>2. ASSUME NEW p \in Threads, RetireEnter(p) \/ RetireRead(p) \/ RetireCommit(p) \/ RetireLeave(p)
      PROVE  Fit
  <2>1. th[p].pc # "idle" => th[p].t \in Tasks
    BY <1>0 DEF ThreadArgs, ArgsFit
  <2> QED BY <1>0, <1>2, <2>1 DEF RetireEnter, RetireRead, RetireCommit, RetireLeave, At, Unregister
<1>3. ASSUME NEW t \in Tasks, RegisterHandle(t) \/ CleanupRegistry(t)
      PROVE  Fit
  BY <1>0, <1>3 DEF RegisterHandle, CleanupRegistry, besideScheduler, Register, Unregister
<1>4. CASE Crash
  BY <1>0, <1>4 DEF Crash
<1>5. ASSUME NEW t \in Tasks, Reconcile(t)
      PROVE  Fit
  BY <1>0, <1>5, ActiveWorkerIdType DEF Reconcile, Register
<1>6. CASE UNCHANGED vars
  BY <1>1, <1>6 DEF vars, controlVars
<1> QED BY <1>1, <1>2, <1>3, <1>4, <1>5, <1>6,
           Steps, WorkerFrame, RequestFrame, ThreadFrame, DispatchFrame, OtherFrames
        DEF controlVars, registryVars

\* The claims under way, and the ids they have.
LEMMA JobsStep ==
  ASSUME TypeInv, [Next]_vars
  PROVE  job' \in [Tasks -> [phase : Phases, w : Workers \cup {None}]] /\ JobArgs'
<1> DEFINE Fit == job' \in [Tasks -> [phase : Phases, w : Workers \cup {None}]] /\ JobArgs'
<1>0. job \in [Tasks -> [phase : Phases, w : Workers \cup {None}]] /\ JobArgs /\ None \notin Workers
  BY StoreAssumptions DEF TypeInv, FlotillaTypeOK, ControlTypeOK
<1> USE DEF JobArgs, Phases
<1>1. ASSUME UNCHANGED job PROVE Fit
  BY <1>0, <1>1
<1>2. ASSUME NEW t \in Tasks, EndJob(t) PROVE Fit
  BY <1>0, <1>2 DEF EndJob, NoJob
<1>3. ASSUME NEW t \in Tasks, ~InPhase(t, {"none", "claimed"}),
             NEW phase \in Phases \ {"none", "claimed"}, Advance(t, phase)
      PROVE  Fit
  BY <1>0, <1>3 DEF Advance, InPhase
<1>4. CASE Claim
  BY <1>0, <1>4 DEF Claim
<1>5. CASE Crash
  BY <1>0, <1>5 DEF Crash, NoJob
<1>6. ASSUME NEW t \in Tasks, DispatchStep(t)
      PROVE  Fit
  <2>1. CASE ResolveBusy(t) \/ ResolveUnfit(t) \/ Unclaim(t)
    BY <1>2, <2>1 DEF ResolveBusy, ResolveUnfit, Unclaim
  <2>2. CASE Resolve(t)
    <3>1. FreshWorker \in Workers
      BY <2>2, FreshWorkerType DEF Resolve
    <3> QED BY <1>0, <2>2, <3>1 DEF Resolve
  <2>3. CASE Launch(t)
    BY <1>3, <2>3 DEF Launch, InPhase
  <2>4. CASE LaunchFailed(t)
    BY <1>3, <2>4 DEF LaunchFailed, InPhase
  <2>5. CASE RegisterHandle(t)
    BY <1>3, <2>5 DEF RegisterHandle, InPhase
  <2>6. CASE Activate(t)
    BY <1>2, <1>3, <2>6 DEF Activate, InPhase
  <2>7. CASE CleanupStop(t)
    BY <1>3, <2>7 DEF CleanupStop, InPhase
  <2>8. CASE CleanupRegistry(t)
    <3>1. (IF InPhase(t, {"stopped"}) THEN "unclaim" ELSE "unclaimLost") \in Phases \ {"none", "claimed"}
      OBVIOUS
    <3> QED BY <1>3, <2>8, <3>1 DEF CleanupRegistry, InPhase
  <2> QED BY <1>6, <2>1, <2>2, <2>3, <2>4, <2>5, <2>6, <2>7, <2>8 DEF DispatchStep
<1>7. CASE UNCHANGED vars
  BY <1>1, <1>7 DEF vars, controlVars
<1> QED BY <1>1, <1>4, <1>5, <1>6, <1>7, Steps, WorkerFrame, RequestFrame, ThreadFrame, OtherFrames
        DEF controlVars

\* A submitted batch has a length.
LEMMA BatchLength == ASSUME NEW b \in Batches PROVE Len(b) \in Nat
<1>1. PICK n \in 1 .. Cardinality(Tasks) : b \in [1 .. n -> Tasks]
  BY DEF Batches
<1>2. Cardinality(Tasks) \in Nat
  BY StoreAssumptions, FS_CardinalityType
<1> QED BY <1>1, <1>2, IsASeq, LenProperties

\* The snapshot of the observer and what is left of the reconciliation.
LEMMA RestStep ==
  ASSUME TypeInv, [Next]_vars
  PROVE  /\ todo' \subseteq Tasks \X Workers /\ boot' \subseteq Tasks
         /\ submits' \in 0 .. MaxSubmits /\ crashes' \in 0 .. MaxCrashes
<1> DEFINE Fit == /\ todo' \subseteq Tasks \X Workers /\ boot' \subseteq Tasks
                  /\ submits' \in 0 .. MaxSubmits /\ crashes' \in 0 .. MaxCrashes
<1>0. ControlTypeOK /\ MaxSubmits \in Nat /\ MaxCrashes \in Nat
  BY ControlAssumptions DEF TypeInv, FlotillaTypeOK
<1> USE DEF ControlTypeOK
<1>1. ASSUME UNCHANGED todo, UNCHANGED bootVars PROVE Fit
  BY <1>0, <1>1 DEF bootVars
<1>2. CASE SubmitTasks
  <2>1. PICK b \in Batches : submits + Len(b) <= MaxSubmits /\ submits' = submits + Len(b)
    BY <1>2 DEF SubmitTasks
  <2>2. Len(b) \in Nat
    BY BatchLength
  <2> QED BY <1>0, <1>2, <2>1, <2>2 DEF SubmitTasks, besideRoutes
<1>3. CASE ObserverSnapshot \/ ObserverItem
  BY <1>0, <1>3 DEF ObserverSnapshot, ObserverItem, bootVars
<1>4. CASE Crash
  BY <1>0, <1>4 DEF Crash
<1>5. ASSUME NEW t \in Tasks, Reconcile(t) PROVE Fit
  BY <1>0, <1>5 DEF Reconcile
<1>6. ASSUME NEW p \in Requests, RequestStep(p) PROVE Fit
  BY <1>1, <1>6, RequestFrame
<1>7. ASSUME NEW w \in Workers, WorkerStep(w) PROVE Fit
  BY <1>1, <1>7, WorkerFrame DEF controlVars
<1>8. ASSUME NEW t \in Tasks, DispatchStep(t) PROVE Fit
  BY <1>1, <1>8, DispatchFrame
<1>9. CASE MarkStale \/ Claim
  BY <1>1, <1>9, OtherFrames
<1>10. ASSUME NEW p \in Threads, RetireStep(p) \/ ActuateStep(p) PROVE Fit
  BY <1>1, <1>10, ThreadFrame
<1>11. CASE UNCHANGED vars
  BY <1>1, <1>11 DEF vars, controlVars
<1> QED BY <1>2, <1>3, <1>4, <1>5, <1>6, <1>7, <1>8, <1>9, <1>10, <1>11, Steps

\* A claim is made when there are ids for all it takes, and resolving one uses
\* up one claim and one id.
LEMMA IdsStep ==
  ASSUME TypeInv, [Next]_vars
  PROVE  EnoughIds'
<1>0. /\ job \in [Tasks -> [phase : Phases, w : Workers \cup {None}]]
      /\ home \in [Workers -> Tasks \cup {None}] /\ EnoughIds /\ StoreTypeOK
      /\ None \notin Tasks
  BY StoreAssumptions DEF TypeInv, FlotillaTypeOK, ControlTypeOK, RuntimesTypeOK
<1>1. /\ IsFiniteSet(Claims) /\ Cardinality(Claims) \in Nat
      /\ IsFiniteSet(UnusedWorkers) /\ Cardinality(UnusedWorkers) \in Nat
  BY StoreAssumptions, FS_Subset, FS_CardinalityType DEF Claims, UnusedWorkers
<1>2. ASSUME Claims' \subseteq Claims, UnusedWorkers' = UnusedWorkers
      PROVE  EnoughIds'
  <2>1. Cardinality(Claims') \in Nat /\ Cardinality(Claims') <= Cardinality(Claims)
    BY <1>1, <1>2, FS_Subset, FS_CardinalityType
  <2> QED BY <1>0, <1>1, <1>2, <2>1 DEF EnoughIds
<1>3. ASSUME UNCHANGED <<job, home>> PROVE EnoughIds'
  BY <1>2, <1>3 DEF Claims, UnusedWorkers, InPhase
<1>4. CASE Claim
  <2>1. Claims' \subseteq Claimed
    BY <1>0, <1>4 DEF Claim, Between, NoJob, Claims, InPhase
  <2>2. IsFiniteSet(Claimed) /\ Cardinality(Claimed) <= ClaimCount /\ ClaimCount \in 1 .. Len(queue)
    BY <1>0, <1>4, ClaimedFacts DEF Claim, ClaimQueuedTasks
  <2>3. Cardinality(Claims') <= Cardinality(Claimed) /\ Cardinality(Claims') \in Nat
        /\ Cardinality(Claimed) \in Nat
    BY <2>1, <2>2, FS_Subset, FS_CardinalityType
  <2>4. UnusedWorkers' = UnusedWorkers /\ Cardinality(UnusedWorkers) >= ClaimCount
    BY <1>4, OtherFrames DEF Claim, UnusedWorkers, runtimeVars
  <2>5. Len(queue) \in Nat
    BY <1>0, LenProperties DEF StoreTypeOK
  <2> QED BY <1>1, <2>2, <2>3, <2>4, <2>5 DEF EnoughIds
<1>5. ASSUME NEW t \in Tasks, Resolve(t) PROVE EnoughIds'
  <2>1. FreshWorker \in Workers /\ home[FreshWorker] = None
    BY <1>5, FreshWorkerType DEF Resolve
  <2>2. t \in Claims /\ Claims' = Claims \ {t}
    BY <1>0, <1>5 DEF Resolve, Claims, InPhase
  <2>3. FreshWorker \in UnusedWorkers /\ UnusedWorkers' = UnusedWorkers \ {FreshWorker}
    BY <1>0, <1>5, <2>1 DEF Resolve, UnusedWorkers
  <2>4. /\ Cardinality(Claims') = Cardinality(Claims) - 1
        /\ Cardinality(UnusedWorkers') = Cardinality(UnusedWorkers) - 1
    BY <1>1, <2>2, <2>3, FS_RemoveElement
  <2> QED BY <1>0, <1>1, <2>4 DEF EnoughIds
<1>6. ASSUME NEW t \in Tasks, DispatchStep(t), ~Resolve(t) PROVE EnoughIds'
  <2>1. Claims' \subseteq Claims
    BY <1>0, <1>6 DEF DispatchStep, Claims, InPhase, ResolveBusy, ResolveUnfit, Launch, LaunchFailed,
       RegisterHandle, Activate, CleanupStop, CleanupRegistry, Unclaim, Advance, EndJob, NoJob
  <2> QED BY <1>2, <1>6, <2>1, DispatchFrame DEF UnusedWorkers
<1>7. CASE Crash
  <2>1. Claims' \subseteq Claims
    BY <1>7 DEF Crash, Claims, InPhase, NoJob
  <2> QED BY <1>2, <1>7, <2>1, OtherFrames DEF UnusedWorkers
<1>8. CASE UNCHANGED vars
  BY <1>3, <1>8 DEF vars, controlVars, runtimeVars
<1> QED BY <1>3, <1>4, <1>5, <1>6, <1>7, <1>8, Steps, WorkerFrame, RequestFrame, ThreadFrame, OtherFrames
        DEF controlVars, runtimeVars

\* An id keeps the task it was made for.
LEMMA HomeKept ==
  ASSUME TypeInv, [Next]_vars, NEW w \in Workers, home[w] # None
  PROVE  home'[w] = home[w]
<1>0. home \in [Workers -> Tasks \cup {None}]
  BY DEF TypeInv, FlotillaTypeOK, RuntimesTypeOK
<1>1. ASSUME NEW t \in Tasks, Resolve(t) PROVE home'[w] = home[w]
  <2>1. FreshWorker \in Workers /\ home[FreshWorker] = None
    BY <1>1, FreshWorkerType DEF Resolve
  <2> QED BY <1>0, <1>1, <2>1 DEF Resolve
<1>2. CASE UNCHANGED vars
  BY <1>2 DEF vars, runtimeVars
<1> QED BY <1>1, <1>2, Steps, WorkerFrame, RequestFrame, ThreadFrame, DispatchFrame, OtherFrames
        DEF runtimeVars

\* Where the handle of a task can come from.
LEMMA HandleOrigin ==
  ASSUME TypeInv, [Next]_vars, NEW t \in Tasks, handles'[t] # None
  PROVE  \/ handles'[t] = handles[t]
         \/ RegisterHandle(t) /\ handles'[t] = job[t].w
         \/ Reconcile(t) /\ t \in boot /\ PaneFound(t) /\ handles'[t] = ActiveWorkerId(t)
<1>0. handles \in [Tasks -> Workers \cup {None}] /\ ThreadArgs
  BY DEF TypeInv, FlotillaTypeOK, ControlTypeOK
<1>1. ASSUME NEW p \in Threads, RetireRead(p) \/ RetireLeave(p)
      PROVE  handles'[t] = handles[t]
  BY <1>0, <1>1 DEF RetireRead, RetireLeave, Unregister
<1>2. ASSUME NEW u \in Tasks, RegisterHandle(u)
      PROVE  handles'[t] = handles[t] \/ (u = t /\ handles'[t] = job[t].w)
  BY <1>0, <1>2 DEF RegisterHandle, Register
<1>3. ASSUME NEW u \in Tasks, CleanupRegistry(u)
      PROVE  handles'[t] = handles[t]
  BY <1>0, <1>3 DEF CleanupRegistry, Unregister
<1>4. ~Crash
  BY DEF Crash
<1>5. ASSUME NEW u \in Tasks, Reconcile(u)
      PROVE  \/ handles'[t] = handles[t]
             \/ u = t /\ t \in boot /\ PaneFound(t) /\ handles'[t] = ActiveWorkerId(t)
  BY <1>0, <1>5 DEF Reconcile, Register
<1>6. CASE UNCHANGED vars
  BY <1>6 DEF vars, controlVars, registryVars
<1> QED BY <1>1, <1>2, <1>3, <1>4, <1>5, <1>6,
           Steps, WorkerFrame, RequestFrame, ThreadFrame, DispatchFrame, OtherFrames
        DEF controlVars, registryVars

\* Where a worker row comes from, and what ends one.
LEMMA RowOrigin ==
  ASSUME TypeInv, [Next]_vars, NEW w \in Workers, rowTask'[w] # None
  PROVE  \/ rowTask'[w] = rowTask[w]
         \/ \E t \in Tasks : Activate(t) /\ ActivateWorker(t, w) /\ w = job[t].w /\ rowTask'[w] = t
<1>0. rowTask \in [Workers -> Tasks \cup {None}]
  BY DEF TypeInv, FlotillaTypeOK, StoreTypeOK
<1>1. ASSUME NEW t \in Tasks, Activate(t)
      PROVE  \/ rowTask'[w] = rowTask[w]
             \/ ActivateWorker(t, w) /\ w = job[t].w /\ rowTask'[w] = t
  BY <1>0, <1>1 DEF Activate, ActivateWorker, storeVars
<1>2. ASSUME NEW p \in Requests, EraseTask(p) PROVE rowTask'[w] = rowTask[w]
  BY <1>0, <1>2 DEF EraseTask, DeleteTask
<1>3. CASE SubmitTasks \/ MarkStale \/ Claim
  BY <1>3 DEF SubmitTasks, MarkStale, Claim, CreateTasks, MarkStaleDispatchingLost, ClaimQueuedTasks
<1>4. ASSUME NEW t \in Tasks, ResolveBusy(t) \/ ResolveUnfit(t) \/ Unclaim(t)
      PROVE  rowTask'[w] = rowTask[w]
  BY <1>4 DEF ResolveBusy, ResolveUnfit, Unclaim, TryRelease, ReleaseTaskClaim, SetTaskState, storeVars
<1>5. ASSUME NEW p \in Threads, RetireStuck(p) \/ RetireCommit(p) \/ NudgeWorker(p)
      PROVE  rowTask'[w] = rowTask[w]
  BY <1>5 DEF RetireStuck, RetireCommit, NudgeWorker, SetTaskState, EndWorker, FinishWorker, storeVars
<1>6. ASSUME NEW t \in Tasks, Reconcile(t) PROVE rowTask'[w] = rowTask[w]
  BY <1>6 DEF Reconcile, FinishWorker, storeVars
<1>7. CASE UNCHANGED vars
  BY <1>7 DEF vars, storeVars
<1> QED BY <1>1, <1>2, <1>3, <1>4, <1>5, <1>6, <1>7,
           Steps, WorkerFrame, RequestFrame, ThreadFrame, DispatchFrame, OtherFrames
        DEF storeVars

\* The two ids of a thread belong to its task.
LEMMA ThreadsTied ==
  ASSUME TypeInv, [Next]_vars, NEW p \in Threads
  PROVE  Tied(th'[p].t, th'[p].w) /\ Tied(th'[p].t, th'[p].h)
<1> DEFINE Fit(r) == Tied(r.t, r.w) /\ Tied(r.t, r.h)
<1>0. /\ StoreTypeOK /\ ControlTypeOK /\ ThreadArgs /\ HomesAgree /\ None \notin Tasks /\ None \notin Workers
      /\ \A q \in Threads : th[q] \in ThreadRecord
      /\ \A q \in Threads : Fit(th[q])
  BY StoreAssumptions DEF TypeInv, FlotillaTypeOK, HomesAgree, ThreadHomes, ControlTypeOK, Tied
<1>00. Fit(IdleThread)
  BY DEF IdleThread, Tied
<1>1. ASSUME UNCHANGED th PROVE Fit(th'[p])
  BY <1>0, <1>1
<1>2. ASSUME NEW q \in Threads, NEW r, Becomes(q, r), Fit(r) PROVE Fit(th'[p])
  BY <1>0, <1>2 DEF Becomes, ControlTypeOK
<1>3. ASSUME NEW q \in Threads, NEW result PROVE Fit(AfterRetire(q, result))
  BY <1>0, <1>00 DEF AfterRetire, IdleThread, Tied, ThreadRecord
<1>4. \A t \in Tasks : Tied(t, handles[t]) /\ Tied(t, ActiveWorkerId(t))
  BY <1>0, ActiveWorkerIdType DEF HomesAgree, HandleHomes, RowHomes, Tied, LiveRows, StoreTypeOK
<1>5. ASSUME NEW q \in Requests, RequestStep(q) PROVE Fit(th'[p])
  <2>0. q \in Threads
    BY DEF Threads
  <2>1. ASSUME NEW op, NEW t \in Tasks, NEW pc, Begin(q, op, t, pc) PROVE Fit(th'[p])
    <3> DEFINE r == [IdleThread EXCEPT !.pc = pc, !.op = op, !.t = t, !.w = handles[t], !.h = handles[t]]
    <3>1. Fit(r)
      BY <1>4 DEF IdleThread
    <3> QED BY <1>2, <2>0, <2>1, <3>1 DEF Begin
  <2>2. ASSUME NEW t \in Tasks, WorkerPing(q, t) PROVE Fit(th'[p])
    <3> DEFINE r == [IdleThread EXCEPT !.pc = "target", !.op = "ping", !.t = t,
                                       !.term = MapTerminal(status[t], FALSE)]
    <3>1. Fit(r)
      BY DEF IdleThread, Tied
    <3> QED BY <1>2, <2>0, <2>2, <3>1 DEF WorkerPing
  <2>3. CASE EraseTask(q)
    BY <1>00, <1>2, <2>0, <2>3 DEF EraseTask
  <2>4. CASE PingTarget(q)
    <3> DEFINE r == [th[q] EXCEPT !.pc = IF th[q].term = "STUCK" THEN "stick" ELSE "enter",
                                  !.w = ActiveWorkerId(th[q].t)]
    <3>1. th[q].t \in Tasks
      BY <1>0, <2>0, <2>4 DEF PingTarget, At, ThreadArgs, ArgsFit
    <3>2. Fit(r)
      BY <1>0, <1>4, <2>0, <3>1 DEF ThreadRecord
    <3> QED BY <1>2, <2>0, <2>4, <3>2 DEF PingTarget
  <2> QED BY <1>5, <2>1, <2>2, <2>3, <2>4 DEF RequestStep, RequestStop, RequestNudge, RequestDelete
<1>6. CASE ObserverItem
  <2>1. PICK i, term :
          /\ i \in todo
          /\ Becomes(Observer, IF term = None THEN IdleThread
                               ELSE [IdleThread EXCEPT
                                       !.pc = IF term = "STUCK" THEN "stick" ELSE "enter",
                                       !.op = "observe", !.t = i[1], !.w = i[2], !.term = term])
    BY <1>6 DEF ObserverItem
  <2> DEFINE r == [IdleThread EXCEPT !.pc = IF term = "STUCK" THEN "stick" ELSE "enter",
                                     !.op = "observe", !.t = i[1], !.w = i[2], !.term = term]
  <2>2. Fit(r)
    BY <1>0, <2>1 DEF HomesAgree, TodoHomes, IdleThread, Tied
  <2>3. Becomes(Observer, IdleThread) \/ Becomes(Observer, r)
    BY <2>1
  <2> HIDE DEF r
  <2> QED BY <1>00, <1>2, <2>2, <2>3 DEF Threads
<1>7. ASSUME NEW q \in Threads, NEW r, Becomes(q, r), r.t = th[q].t, r.w = th[q].w, r.h \in {th[q].h, None}
      PROVE  Fit(th'[p])
  BY <1>0, <1>2, <1>7 DEF Tied
<1>8. ASSUME NEW q \in Threads, NEW pc, Goto(q, pc) PROVE Fit(th'[p])
  <2>1. [th[q] EXCEPT !.pc = pc].t = th[q].t /\ [th[q] EXCEPT !.pc = pc].w = th[q].w
        /\ [th[q] EXCEPT !.pc = pc].h = th[q].h
    BY <1>0 DEF ThreadRecord
  <2> QED BY <1>7, <1>8, <2>1 DEF Goto
<1>9. ASSUME NEW q \in Threads, RetireStep(q) PROVE Fit(th'[p])
  <2>1. CASE RetireStuck(q)
    BY <1>00, <1>2, <2>1 DEF RetireStuck
  <2>2. CASE RetireEnter(q)
    <3> DEFINE r == [th[q] EXCEPT !.pc = "read", !.h = handles[th[q].t]]
    <3>1. Fit(r)
      BY <1>0, <1>4, <2>2 DEF RetireEnter, At, ThreadRecord, ThreadArgs, ArgsFit
    <3> QED BY <1>2, <1>3, <2>2, <3>1 DEF RetireEnter
  <2>3. CASE RetireRead(q)
    <3> DEFINE done == task[th[q].t] \in Terminal
               lock == IF HasRow(th[q].w) THEN Gpu[rowTask[th[q].w]] ELSE None
               r == [th[q] EXCEPT !.pc = AfterRead(th[q], done), !.done = done, !.lock = lock]
    <3>1. Becomes(q, AfterRetire(q, None)) \/ Becomes(q, r)
      BY <2>3 DEF RetireRead
    <3> HIDE DEF done, lock
    <3>2. Fit(r)
      BY <1>0 DEF ThreadRecord
    <3> QED BY <1>2, <1>3, <3>1, <3>2
  <2>4. CASE RetireStop(q) \/ RetireRelease(q)
    BY <1>8, <2>4 DEF RetireStop, RetireRelease
  <2>5. CASE RetireEvaluate(q)
    <3>1. PICK verdict : Becomes(q, [th[q] EXCEPT !.pc = "commit", !.term = verdict])
      BY <2>5 DEF RetireEvaluate
    <3>2. Fit([th[q] EXCEPT !.pc = "commit", !.term = verdict])
      BY <1>0 DEF ThreadRecord
    <3> QED BY <1>2, <3>1, <3>2
  <2>6. CASE RetireCommit(q)
    BY <1>2, <1>3, <1>8, <2>6 DEF RetireCommit
  <2>7. CASE RetireLeave(q)
    BY <1>2, <1>3, <2>7 DEF RetireLeave
  <2> QED BY <1>9, <2>1, <2>2, <2>3, <2>4, <2>5, <2>6, <2>7 DEF RetireStep
<1>10. ASSUME NEW q \in Threads, ActuateStep(q) PROVE Fit(th'[p])
  <2>1. CASE HaltWorker(q)
    <3>1. Fit([th[q] EXCEPT !.pc = "enter", !.term = "CANCELLED", !.h = None])
      BY <1>0 DEF ThreadRecord, Tied
    <3> QED BY <1>00, <1>2, <2>1, <3>1 DEF HaltWorker
  <2>2. CASE VerifyCancelled(q)
    <3>1. Fit([th[q] EXCEPT !.pc = "erase"])
      BY <1>0 DEF ThreadRecord
    <3> QED BY <1>00, <1>2, <2>2, <3>1 DEF VerifyCancelled
  <2>3. CASE NudgeWorker(q)
    BY <1>00, <1>2, <2>3 DEF NudgeWorker
  <2> QED BY <1>10, <2>1, <2>2, <2>3 DEF ActuateStep
<1>11. CASE Crash
  BY <1>00, <1>11 DEF Crash
<1>12. CASE UNCHANGED vars
  BY <1>1, <1>12 DEF vars, controlVars
<1> QED BY <1>1, <1>5, <1>6, <1>9, <1>10, <1>11, <1>12, Steps, WorkerFrame, DispatchFrame, OtherFrames
        DEF controlVars

\* Where the id of a claim comes from.
LEMMA JobOrigin ==
  ASSUME TypeInv, [Next]_vars, NEW t \in Tasks, job'[t].w # None
  PROVE  job'[t].w = job[t].w \/ (Resolve(t) /\ job'[t].w = FreshWorker)
<1>0. job \in [Tasks -> [phase : Phases, w : Workers \cup {None}]]
  BY DEF TypeInv, FlotillaTypeOK, ControlTypeOK
<1>1. ASSUME NEW u \in Tasks, DispatchStep(u), ~Resolve(u) PROVE job'[t].w \in {job[t].w, None}
  BY <1>0, <1>1 DEF DispatchStep, ResolveBusy, ResolveUnfit, Launch, LaunchFailed, RegisterHandle,
     Activate, CleanupStop, CleanupRegistry, Unclaim, Advance, EndJob, NoJob
<1>2. ASSUME NEW u \in Tasks, Resolve(u)
      PROVE  IF u = t THEN job'[t].w = FreshWorker ELSE job'[t].w = job[t].w
  BY <1>0, <1>2 DEF Resolve
<1>3. CASE Claim \/ Crash
  BY <1>0, <1>3 DEF Claim, Crash, NoJob
<1>4. CASE UNCHANGED vars
  BY <1>4 DEF vars, controlVars
<1> QED BY <1>1, <1>2, <1>3, <1>4, Steps, WorkerFrame, RequestFrame, ThreadFrame, OtherFrames
        DEF controlVars

\* Every id stays with the task it was made for.
LEMMA HomesStep ==
  ASSUME TypeInv, [Next]_vars, FlotillaTypeOK'
  PROVE  HomesAgree'
<1>0. /\ StoreTypeOK /\ ControlTypeOK /\ RuntimesTypeOK /\ HomesAgree /\ JobArgs
      /\ ControlTypeOK' /\ RuntimesTypeOK' /\ StoreTypeOK'
      /\ None \notin Tasks /\ None \notin Workers
  BY StoreAssumptions DEF TypeInv, FlotillaTypeOK
<1>00. \A w \in Workers : home[w] # None => home'[w] = home[w]
  BY HomeKept
<1> USE DEF HomesAgree, HandleHomes, TodoHomes, ThreadHomes, JobHomes, RowHomes, ProcHomes
<1>1. HandleHomes'
  <2> SUFFICES ASSUME NEW t \in Tasks, handles'[t] # None PROVE home'[handles'[t]] = t
    OBVIOUS
  <2>1. CASE handles'[t] = handles[t]
    BY <1>0, <1>00, <2>1 DEF ControlTypeOK
  <2>2. CASE RegisterHandle(t) /\ handles'[t] = job[t].w
    BY <1>0, <1>00, <2>2 DEF ControlTypeOK
  <2>3. CASE handles'[t] = ActiveWorkerId(t)
    <3>1. ActiveWorkerId(t) \in LiveRows(t)
      BY <1>0, <2>3, ActiveWorkerIdType
    <3> QED BY <1>0, <1>00, <2>3, <3>1 DEF LiveRows, StoreTypeOK
  <2> QED BY <2>1, <2>2, <2>3, HandleOrigin
<1>2. TodoHomes'
  <2>1. todo' \subseteq todo \/ todo' = {i \in Tasks \X Workers : handles[i[1]] = i[2]}
    <3>1. CASE ObserverSnapshot \/ ObserverItem
      BY <3>1 DEF ObserverSnapshot, ObserverItem
    <3>2. CASE Crash
      BY <3>2 DEF Crash
    <3>3. CASE UNCHANGED vars
      BY <3>3 DEF vars, controlVars
    <3> QED BY <3>1, <3>2, <3>3, Steps, WorkerFrame, RequestFrame, ThreadFrame, DispatchFrame, OtherFrames
            DEF controlVars
  <2> QED BY <1>0, <1>00, <2>1 DEF ControlTypeOK
<1>3. ThreadHomes'
  <2> SUFFICES ASSUME NEW p \in Threads
               PROVE  /\ th'[p].w # None => home'[th'[p].w] = th'[p].t
                      /\ th'[p].h # None => home'[th'[p].h] = th'[p].t
    OBVIOUS
  <2>1. th'[p] \in ThreadRecord
    BY <1>0 DEF ControlTypeOK
  <2>2. /\ th'[p].w \in Workers \cup {None} /\ th'[p].h \in Workers \cup {None}
        /\ th'[p].t \in Tasks \cup {None}
    BY <2>1 DEF ThreadRecord
  <2>3. Tied(th'[p].t, th'[p].w) /\ Tied(th'[p].t, th'[p].h)
    BY ThreadsTied
  <2>4. (th'[p].w # None \/ th'[p].h # None) => th'[p].t # None
    <3>1. IF th'[p].pc = "idle" THEN th'[p] = IdleThread ELSE th'[p].t \in Tasks
      BY ThreadsStep DEF ThreadArgs, ArgsFit
    <3> QED BY <1>0, <3>1 DEF IdleThread
  <2> QED BY <1>00, <2>2, <2>3, <2>4 DEF Tied
<1>4. JobHomes'
  <2> SUFFICES ASSUME NEW t \in Tasks, job'[t].w # None PROVE home'[job'[t].w] = t
    OBVIOUS
  <2>1. CASE job'[t].w = job[t].w
    BY <1>0, <1>00, <2>1 DEF ControlTypeOK
  <2>2. CASE Resolve(t) /\ job'[t].w = FreshWorker
    <3>1. FreshWorker \in Workers
      BY <2>2, FreshWorkerType DEF Resolve
    <3> QED BY <1>0, <2>2, <3>1 DEF Resolve, RuntimesTypeOK
  <2> QED BY <2>1, <2>2, JobOrigin
<1>5. RowHomes'
  <2> SUFFICES ASSUME NEW w \in Workers, rowTask'[w] # None PROVE rowTask'[w] = home'[w]
    OBVIOUS
  <2>1. CASE rowTask'[w] = rowTask[w]
    BY <1>0, <1>00, <2>1 DEF StoreTypeOK
  <2>2. ASSUME NEW t \in Tasks, w = job[t].w, rowTask'[w] = t PROVE rowTask'[w] = home'[w]
    BY <1>0, <1>00, <2>2
  <2> QED BY <2>1, <2>2, RowOrigin
<1>6. ProcHomes'
  <2> SUFFICES ASSUME NEW w \in Workers, home'[w] = None PROVE world'[w] = "none"
    OBVIOUS
  <2>1. home[w] = None /\ world[w] = "none"
    BY <1>0, <1>00 
  <2>2. ASSUME NEW v, StopReturns(v) \/ StopRaises(v) PROVE world'[w] = "none"
    BY <1>0, <2>1, <2>2 DEF StopReturns, StopRaises, Kill, StopTargets, Windows, AliveWorkers, RuntimesTypeOK
  <2>3. ASSUME NEW p \in Threads, RetireStop(p) \/ HaltWorker(p) PROVE world'[w] = "none"
    BY <2>2, <2>3 DEF RetireStop, HaltWorker
  <2>4. ASSUME NEW t \in Tasks, CleanupStop(t) PROVE world'[w] = "none"
    BY <2>2, <2>4 DEF CleanupStop
  <2>5. ASSUME NEW t \in Tasks, Launch(t) PROVE world'[w] = "none"
    <3>1. job[t].w # None /\ w # job[t].w
      BY <1>0, <2>1, <2>5 DEF Launch, InPhase, JobArgs
    <3> QED BY <1>0, <2>1, <2>5, <3>1 DEF Launch, StartReturns, StartRaises, Windows, RuntimesTypeOK
  <2>6. ASSUME NEW v \in Workers, WorkerStep(v) PROVE world'[w] = "none"
    BY <1>0, <2>1, <2>6 DEF WorkerStep, AgentReports, AgentExits, AgentVanishes, WorkerReports,
                            WorkerExits, WindowVanishes, RuntimesTypeOK
  <2>7. CASE UNCHANGED vars
    BY <2>1, <2>7 DEF vars, runtimeVars
  <2> QED BY <2>1, <2>3, <2>4, <2>5, <2>6, <2>7, Steps, RequestFrame, ThreadFrame, DispatchFrame, OtherFrames
          DEF runtimeVars
<1> QED BY <1>1, <1>2, <1>3, <1>4, <1>5, <1>6

-----------------------------------------------------------------------------
(* The first theorems about the server                                     *)

\* A fresh server on an empty database.
LEMMA TypeInvInit == Init => TypeInv
<1> SUFFICES ASSUME Init PROVE TypeInv
  OBVIOUS
<1>0. StoreInit /\ RuntimesInit /\ ControlInit
  BY DEF Init
<1>1. StoreTypeOK
  <2>1. QueueMatches(queue, task)
    BY <1>0 DEF StoreInit, QueueMatches, Distinct, Occurs, IsInjective, Absent
  <2> QED BY <1>0, <2>1, TypeParts DEF StoreInit
<1>2. RuntimesTypeOK
  BY <1>0, RuntimeAssumptions DEF RuntimesInit, RuntimesTypeOK, ProcStates, Reports
<1>3. ControlTypeOK /\ ThreadArgs
  BY <1>0, ControlAssumptions, IdleFits
     DEF ControlInit, ControlTypeOK, ThreadArgs, ArgsFit, NoJob, Phases
<1>4. JobArgs
  BY <1>0 DEF ControlInit, JobArgs, NoJob
<1>5. EnoughIds
  <2>1. Claims = {}
    BY <1>0 DEF ControlInit, Claims, InPhase, NoJob
  <2>2. Cardinality(UnusedWorkers) \in Nat
    BY StoreAssumptions, FS_Subset, FS_CardinalityType DEF UnusedWorkers
  <2> QED BY <2>1, <2>2, FS_EmptySet DEF EnoughIds
<1>6. HomesAgree
  BY <1>0 DEF StoreInit, RuntimesInit, ControlInit, HomesAgree, HandleHomes, TodoHomes, ThreadHomes,
              JobHomes, RowHomes, ProcHomes, IdleThread, NoJob
<1> QED BY <1>1, <1>2, <1>3, <1>4, <1>5, <1>6 DEF TypeInv, FlotillaTypeOK

\* The parts above, put together: every step keeps the types.
LEMMA TypeInvStep ==
  ASSUME TypeInv, [Next]_vars
  PROVE  TypeInv'
<1>1. StoreTypeOK'
  BY StoreStep, TypeStep DEF TypeInv, FlotillaTypeOK
<1>2. FlotillaTypeOK'
  BY <1>1, RuntimesStep, ThreadsStep, RegistryStep, JobsStep, RestStep DEF FlotillaTypeOK, ControlTypeOK
<1> QED BY <1>2, ThreadsStep, JobsStep, IdsStep, HomesStep DEF TypeInv

\* ... so they hold throughout.
LEMMA TypeInvHolds == Spec => []TypeInv
<1>1. TypeInv /\ [Next]_vars => TypeInv'
  BY TypeInvStep
<1> QED BY TypeInvInit, <1>1, PTL DEF Spec

\* Every variable of the server keeps its type, through every fault and restart;
\* among them that the scheduler has a worker id for each claim it has taken.
THEOREM ServerTypes == Spec => []FlotillaTypeOK
<1>1. TypeInv => FlotillaTypeOK
  BY DEF TypeInv
<1> QED BY <1>1, TypeInvHolds, PTL

\* The server implements the abstract Store: whatever its threads, the workers,
\* the clients, the faults and the restarts do, the two tables change only by
\* calls of Store methods with arguments the abstract module allows.
THEOREM ImplementsStore == Spec => StoreSpec
<1>1. Init => StoreInit
  BY DEF Init
<1>2. TypeInv /\ [Next]_vars => [StoreNext]_storeVars
  BY StoreStep
<1> QED BY <1>1, <1>2, TypeInvHolds, PTL DEF Spec, StoreSpec

\* Hence what StoreProofs proves of the abstract Store holds of the server: the
\* workers it counts as live and the claims under way stay within max_workers,
\* no task has two live rows, and every state change is one transition() accepts.
THEOREM ServerKeepsStore == Spec => [](WithinCapacity /\ OneLiveRow) /\ LifecycleLegal
<1> QED BY ImplementsStore, CapacityRespected, NoSecondWorker, OnlyLegalMoves, PTL
==============================================================================
