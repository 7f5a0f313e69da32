------------------------------ MODULE Scheduler ------------------------------
(***************************************************************************)
(* flotilla/scheduler.py: one thread that marks stale claims, claims queued *)
(* tasks, resolves each claim, starts the workers in a pool and handles     *)
(* the completions one at a time.  Everything it knows of a claim is in     *)
(* local variables of tick(), here `job': a crash forgets it.               *)
(***************************************************************************)
EXTENDS ControlState

\* What no step of the scheduler touches.
besideScheduler == <<retiring, th, todo, bootVars>>

InPhase(t, phases) == job[t].phase \in phases
Advance(t, phase) == job' = [job EXCEPT ![t].phase = phase]
EndJob(t) == job' = [job EXCEPT ![t] = NoJob]

Between == \A t \in Tasks : job[t] = NoJob          \* no tick under way

\* as_completed: the handling of one completion is finished before the next.
CompletionUnderWay ==
  \E t \in Tasks : InPhase(t, {"registered", "cleanup", "stopped", "stopFailed",
                               "unclaim", "unclaimFailed", "unclaimLost"})

UnusedWorkers == {w \in Workers : home[w] = None}
FreshWorker == CHOOSE w \in UnusedWorkers : TRUE    \* uuid4

\* Mutant: the expected state is not compared.
TryRelease_blind(t, target) ==
  \/ SetTaskState_noCas(t, target, {"DISPATCHING"})
  \/ task[t] = Absent /\ UNCHANGED storeVars

\* release_task_claim, whose result (the claim may be lost) is not looked at.
TryRelease(t, target) ==
  \/ ReleaseTaskClaim(t, target)
  \/ task[t] # "DISPATCHING" /\ UNCHANGED storeVars

-----------------------------------------------------------------------------
\* Mutant: nothing is marked while no task is queued.
MarkStale_onlyBeforeClaims ==
  /\ Serving /\ Between /\ queue # <<>>
  /\ \E S \in SUBSET Tasks : MarkStaleDispatchingLost(S)
  /\ UNCHANGED <<runtimeVars, handles, job, besideScheduler>>

\* The patrol and tick() share a thread, so no claim of this process is under way:
\* the stale claims are those a crash or a failed release left behind.  How long
\* they wait for the 300 s of the lease is left open.
MarkStale ==
  /\ Serving /\ Between
  /\ \E S \in SUBSET Tasks : MarkStaleDispatchingLost(S)
  /\ UNCHANGED <<runtimeVars, handles, job, besideScheduler>>

\* Bound: a claim needs a worker id for every task it takes.
Claim ==
  /\ Serving /\ Between
  /\ Cardinality(UnusedWorkers) >= ClaimCount
  /\ ClaimQueuedTasks
  /\ job' = [t \in Tasks |-> IF t \in Claimed THEN [phase |-> "claimed", w |-> None]
                                              ELSE job[t]]
  /\ UNCHANGED <<runtimeVars, handles, besideScheduler>>

\* _resolve_dispatch returned None: the GPU is busy, back to the queue.
ResolveBusy(t) ==
  /\ InPhase(t, {"claimed"}) /\ t \notin Unfit
  /\ Gpu[t] # None /\ held[Gpu[t]] # None
  /\ TryRelease(t, "QUEUED") /\ EndJob(t)
  /\ UNCHANGED <<runtimeVars, handles, besideScheduler>>

\* _resolve_dispatch raised KeyError or ValueError: not retryable.
ResolveUnfit(t) ==
  /\ InPhase(t, {"claimed"}) /\ t \in Unfit
  /\ TryRelease(t, "FAILED") /\ EndJob(t)
  /\ UNCHANGED <<runtimeVars, handles, besideScheduler>>

\* Mutant: a GPU that is held is acquired again.
Resolve_ignoresLease(t) ==
  /\ InPhase(t, {"claimed"}) /\ t \notin Unfit
  /\ job' = [job EXCEPT ![t] = [phase |-> "prepared", w |-> FreshWorker]]
  /\ home' = [home EXCEPT ![FreshWorker] = t]
  /\ held' = IF Gpu[t] = None THEN held ELSE [held EXCEPT ![Gpu[t]] = FreshWorker]
  /\ UNCHANGED <<storeVars, world, status, faults, handles, besideScheduler>>

\* _resolve_dispatch returned: the lease, if one is needed, is acquired last.
Resolve(t) ==
  /\ InPhase(t, {"claimed"}) /\ t \notin Unfit
  /\ IF Gpu[t] = None THEN UNCHANGED held ELSE AcquireGpu(Gpu[t], FreshWorker)
  /\ job' = [job EXCEPT ![t] = [phase |-> "prepared", w |-> FreshWorker]]
  /\ home' = [home EXCEPT ![FreshWorker] = t]
  /\ UNCHANGED <<storeVars, world, status, faults, handles, besideScheduler>>

\* The pool calls rt.start, once every claim of the tick has been resolved.
Launch(t) ==
  /\ InPhase(t, {"prepared"})
  /\ \A u \in Tasks : ~InPhase(u, {"claimed"})
  /\ \/ StartReturns(t, job[t].w) /\ Advance(t, "started")
     \/ StartRaises(t, job[t].w) /\ Advance(t, "startFailed")
  /\ UNCHANGED <<storeVars, handles, besideScheduler>>

\* future.result() raised: no handle, nothing to stop or to unregister.  A
\* ValueError of start is final, any other exception is retried.
LaunchFailed(t) ==
  /\ InPhase(t, {"startFailed"}) /\ ~CompletionUnderWay
  /\ ReleaseGpu(Gpu[t])
  /\ Advance(t, "unclaim") \/ Advance(t, "unclaimFailed")
  /\ UNCHANGED <<storeVars, home, world, status, faults, handles, besideScheduler>>

\* Mutant: the handle is never registered.
RegisterHandle_forgets(t) ==
  /\ InPhase(t, {"started"}) /\ ~CompletionUnderWay
  /\ Advance(t, "registered")
  /\ UNCHANGED <<storeVars, runtimeVars, handles, besideScheduler>>

\* actuator.register, before the database knows the worker.
RegisterHandle(t) ==
  /\ InPhase(t, {"started"}) /\ ~CompletionUnderWay
  /\ Register(t, job[t].w)
  /\ Advance(t, "registered")
  /\ UNCHANGED <<storeVars, runtimeVars, besideScheduler>>

\* activate_worker returned True, returned False (the claim is lost) or raised
\* (the database stayed locked beyond its timeout).
Activate(t) ==
  /\ InPhase(t, {"registered"})
  /\ \/ ActivateWorker(t, job[t].w) /\ EndJob(t) /\ UNCHANGED faults
     \/ /\ task[t] # "DISPATCHING"
        /\ Advance(t, "cleanup")
        /\ UNCHANGED <<storeVars, faults>>
     \/ /\ Fault("database")
        /\ Advance(t, "cleanup")
        /\ UNCHANGED storeVars
  /\ UNCHANGED <<home, world, status, held, handles, besideScheduler>>

\* The compensation of a dispatch that failed with a handle: stop the runtime...
CleanupStop(t) ==
  /\ InPhase(t, {"cleanup"})
  /\ \/ StopReturns(job[t].w) /\ Advance(t, "stopped")
     \/ StopRaises(job[t].w) /\ Advance(t, "stopFailed")
  /\ UNCHANGED <<storeVars, home, status, held, handles, besideScheduler>>

\* ... unregister by task id and release the lease...
CleanupRegistry(t) ==
  /\ InPhase(t, {"stopped", "stopFailed"})
  /\ Unregister(t)
  /\ ReleaseGpu(Gpu[t])
  /\ Advance(t, IF InPhase(t, {"stopped"}) THEN "unclaim" ELSE "unclaimLost")
  /\ UNCHANGED <<storeVars, home, world, status, faults, besideScheduler>>

\* ... and release the claim: LOST when the runtime may still be running.
Unclaim(t) ==
  /\ \/ InPhase(t, {"unclaim"}) /\ TryRelease(t, "QUEUED") /\ UNCHANGED faults
     \/ InPhase(t, {"unclaimFailed"}) /\ TryRelease(t, "FAILED") /\ UNCHANGED faults
     \/ InPhase(t, {"unclaimLost"}) /\ TryRelease(t, "LOST") /\ UNCHANGED faults
     \/ /\ InPhase(t, {"unclaim", "unclaimFailed", "unclaimLost"})
        /\ Fault("database") /\ UNCHANGED storeVars        \* the release raised
  /\ EndJob(t)
  /\ UNCHANGED <<home, world, status, held, handles, besideScheduler>>

DispatchStep(t) ==
  \/ ResolveBusy(t) \/ ResolveUnfit(t) \/ Resolve(t)
  \/ Launch(t) \/ LaunchFailed(t) \/ RegisterHandle(t) \/ Activate(t)
  \/ CleanupStop(t) \/ CleanupRegistry(t) \/ Unclaim(t)

SchedulerStep == MarkStale \/ Claim \/ \E t \in Tasks : DispatchStep(t)
==============================================================================
