------------------------------ MODULE Flotilla ------------------------------
(***************************************************************************)
(* The control plane as a whole: the scheduler and observer threads and    *)
(* the HTTP requests over one store, one handle registry and the worker    *)
(* processes; a crash of the server and the reconciliation of app.py at    *)
(* the next start.                                                         *)
(***************************************************************************)
EXTENDS Routes, ObserverLoop, Scheduler

FlotillaTypeOK == StoreTypeOK /\ RuntimesTypeOK /\ ControlTypeOK

Init == StoreInit /\ RuntimesInit /\ ControlInit

-----------------------------------------------------------------------------
(* app.py: a crash and _reconcile_running                                  *)

\* The server process ends: its handles, its retirements, its flocks and its
\* threads are gone; the database and the workers are not.  The next start
\* looks at every task that was active.
Crash ==
  /\ Serving /\ crashes < MaxCrashes
  /\ crashes' = crashes + 1
  /\ handles' = [t \in Tasks |-> None]
  /\ retiring' = {}
  /\ th' = [p \in Threads |-> IdleThread]
  /\ held' = [g \in Gpus |-> None]
  /\ job' = [t \in Tasks |-> NoJob]
  /\ todo' = {}
  /\ boot' = {t \in Tasks : task[t] \in Active}
  /\ UNCHANGED <<storeVars, home, world, status, faults, submits>>

\* find_pane found the window of the task.
PaneFound(t) == Kind[t] # "shell" /\ Windows(t) # {}

\* Mutant: a task whose window is found is left as it is.
Reconcile_noReattach(t) ==
  /\ t \in boot
  /\ boot' = boot \ {t}
  /\ \/ PaneFound(t) /\ UNCHANGED storeVars
     \/ ~PaneFound(t) /\ FinishWorker(t, ActiveWorkerId(t), "LOST")
  /\ UNCHANGED <<runtimeVars, registryVars, th, todo, job, submits, crashes>>

\* Mutant: the worker id is not passed to mark_lost.
Reconcile_noWorkerId(t) ==
  /\ t \in boot
  /\ boot' = boot \ {t}
  /\ \/ /\ ~PaneFound(t)
        /\ FinishWorker(t, None, "LOST")
        /\ UNCHANGED handles
     \/ /\ PaneFound(t)
        /\ Register(t, ActiveWorkerId(t))
        /\ UNCHANGED storeVars
  /\ UNCHANGED <<runtimeVars, retiring, th, todo, job, submits, crashes>>

\* One task of the loop, before any other thread runs: a shell worker and a
\* window that is gone are LOST, a window that is there is attached to the live
\* row, and an unreachable host (bounded as a fault) leaves everything as it is.
\* A task is LOST without a look at its window when its host is not configured
\* any more (a fault too: routes.delete_host refuses while the host is in use).
\* The GPU lease of an attached worker is not acquired again.  The branch for
\* an active task without a live row is never taken: see ActiveHasWorker.
Reconcile(t) ==
  /\ t \in boot
  /\ boot' = boot \ {t}
  /\ \/ /\ ~PaneFound(t)
        /\ FinishWorker(t, ActiveWorkerId(t), "LOST")
        /\ UNCHANGED <<handles, faults>>
     \/ /\ PaneFound(t)
        /\ Register(t, ActiveWorkerId(t))
        /\ UNCHANGED <<storeVars, faults>>
     \/ /\ Kind[t] = "remote" /\ Fault("unreachable")
        /\ UNCHANGED <<storeVars, handles>>
     \/ /\ Kind[t] = "remote" /\ Fault("host")
        /\ FinishWorker(t, ActiveWorkerId(t), "LOST")
        /\ UNCHANGED handles
  /\ UNCHANGED <<home, world, status, held, retiring, th, todo, job, submits, crashes>>

-----------------------------------------------------------------------------
(* The workers, which go on while the server is down.                      *)

besideWorkers == <<storeVars, controlVars>>

AgentReports(w, s) == WorkerReports(w, s) /\ UNCHANGED besideWorkers
AgentExits(w, code) == WorkerExits(w, code) /\ UNCHANGED besideWorkers
AgentVanishes(w) == WindowVanishes(w) /\ UNCHANGED besideWorkers

-----------------------------------------------------------------------------
ThreadStep(p) == RetireStep(p) \/ ActuateStep(p)

Next ==
  \/ SubmitTasks
  \/ \E p \in Requests : RequestStep(p)
  \/ ObserverStep
  \/ SchedulerStep
  \/ \E p \in Threads : ThreadStep(p)
  \/ Crash
  \/ \E t \in Tasks : Reconcile(t)
  \/ \E w \in Workers, s \in Reports : AgentReports(w, s)
  \/ \E w \in Workers, code \in {"ok", "bad"} : AgentExits(w, code)
  \/ \E w \in Workers : AgentVanishes(w)

Spec == Init /\ [][Next]_vars

-----------------------------------------------------------------------------
(* Fairness.  Every thread of the server is a loop that runs for ever, and  *)
(* every call it makes ends (ssh, tmux and SQLite calls carry timeouts), so *)
(* each step that stays possible is taken.  A worker that runs eventually   *)
(* reports the end of its work or exits: the assumption about the agents.   *)

SchedulerFairness ==
  /\ WF_vars(MarkStale) /\ WF_vars(Claim)
  /\ \A t \in Tasks : WF_vars(DispatchStep(t))

ThreadFairness ==
  /\ WF_vars(ObserverStep)
  /\ \A p \in Threads : WF_vars(ThreadStep(p))
  /\ \A p \in Requests : WF_vars(EraseTask(p) \/ PingTarget(p))
  /\ \A t \in Tasks : WF_vars(Reconcile(t))

WorkerFairness ==
  \A w \in Workers :
    WF_vars(\/ \E s \in {"success", "failed"} : AgentReports(w, s)
            \/ \E code \in {"ok", "bad"} : AgentExits(w, code))

LiveSpec == Spec /\ SchedulerFairness /\ ThreadFairness /\ WorkerFairness

-----------------------------------------------------------------------------
(* Safety                                                                  *)

\* A task the database calls active has a live worker row (activate_worker and
\* finish_worker are one transaction each, but end_worker is not tied to a task).
ActiveHasWorker == \A t \in Tasks : task[t] \in Active => LiveRows(t) # {}

\* finish_worker "atomically commits a terminal task state, worker end": no live
\* row outlives its task, or its slot of the capacity would never come back.
TerminalHasNoWorker == \A t \in Tasks : task[t] \in Terminal => LiveRows(t) = {}

\* The observer works from the registry alone: while the server runs, an active
\* task has a handle, and it is the handle of its live row.  A late unregister
\* or a restart that drops it would leave the task RUNNING for ever.
ActiveIsObserved ==
  Serving => \A t \in Tasks : task[t] \in Active => handles[t] \in LiveRows(t)

\* Until the server is restarted: while a worker row of a GPU task is live, the
\* process holds the lease on that worker's behalf, so no release by uuid has
\* freed the lease of another worker.
LiveWorkerHoldsLease ==
  crashes = 0 => \A w \in live : Gpu[rowTask[w]] # None => held[Gpu[rowTask[w]]] = w

\* docs/FLOTILLA.md: the lease keeps several workers from benchmarking on one
\* GPU.  Two processes that run for tasks of one GPU are never alive together.
GpuExclusive ==
  \A v, w \in Workers :
    (v # w /\ world[v] = "alive" /\ world[w] = "alive") =>
      (Gpu[home[v]] = None \/ Gpu[home[v]] # Gpu[home[w]])

\* The same promise for the workers the database knows, a restart included: of
\* two live rows whose processes run, no two are on one GPU.  Broken by the code:
\* _reconcile_running attaches a worker again without its lease (app.py:101-123).
LiveGpuExclusive ==
  \A v, w \in live :
    (v # w /\ world[v] = "alive" /\ world[w] = "alive") =>
      (Gpu[rowTask[v]] = None \/ Gpu[rowTask[v]] # Gpu[rowTask[w]])

\* A lease is held for a claim being dispatched, for a live worker or by a
\* retirement about to release it: otherwise nothing will ever release it.
LeaseHasOwner ==
  \A g \in Gpus : held[g] # None =>
    \/ \E t \in Tasks : job[t].w = held[g]
    \/ held[g] \in live
    \/ \E p \in Threads : th[p].pc = "release" /\ th[p].lock = g

\* The evaluator judges a workspace no worker is writing any more.
EvaluatedWorkspaceIsQuiet ==
  \A p \in Threads : At(p, "evaluate") => AliveWorkers(th[p].t) = {}

\* routes.delete_task: "Never erase the only control-plane record for a worker
\* that may still be alive."  The record is the live row of a worker that runs.
NeverErasesLiveWorker ==
  [][\A t \in Tasks : task[t] # Absent /\ task'[t] = Absent =>
       \A w \in LiveRows(t) : world[w] # "alive"]_vars

-----------------------------------------------------------------------------
(* Liveness                                                                *)

\* A worker that exited after reporting itself stuck: its status.json keeps
\* authority, the task stays STUCK and waits for an operator.
Stranded == \E w \in live : status[home[w]] = "stuck" /\ world[w] \in {"ok", "bad"}

\* A reserved slot comes back: every claim is activated, released or, when a
\* crash made the server forget it, marked LOST.
ClaimResolves ==
  \A t \in Tasks : task[t] = "DISPATCHING" ~> task[t] # "DISPATCHING"

\* The exit of a worker with a live row is noticed, across a restart too, and
\* its slot comes back.
ExitIsNoticed ==
  \A w \in Workers :
    (w \in live /\ world[w] \in {"ok", "bad"} /\ status[home[w]] # "stuck")
      ~> (w \notin live \/ status[home[w]] = "stuck")

\* A queued task is run or settled even when it is released again and again
\* because its GPU is busy, as long as no worker is stranded and no lease leaks.
QueuedIsServed ==
  [](~Stranded /\ LeaseHasOwner) =>
    \A t \in Tasks : task[t] = "QUEUED" ~> task[t] \in Active \cup Terminal \cup {Absent}
==============================================================================
