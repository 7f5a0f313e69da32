------------------------------- MODULE Routes -------------------------------
(***************************************************************************)
(* The requests of flotilla/routes.py that change the life of a task:      *)
(* submit, actuate (stop, nudge), delete and the worker heartbeat.  Each   *)
(* is served by a thread of its own that continues in actuator.py.         *)
(***************************************************************************)
EXTENDS Actuator

\* What no step of a request's own code touches.
besideRoutes == <<runtimeVars, registryVars, todo, job>>

\* POST /projects/{pid}/tasks: one transaction.  Bound: MaxSubmits.
SubmitTasks ==
  /\ Serving
  /\ \E b \in Batches, place \in 0 .. Len(queue) :
       /\ submits + Len(b) <= MaxSubmits
       /\ submits' = submits + Len(b)
       /\ CreateTasks(b, place)
  /\ UNCHANGED <<besideRoutes, th, boot, crashes>>

\* A request of kind `op' about task t begins in an idle thread.
Begin(p, op, t, pc) ==
  /\ Serving
  /\ At(p, "idle") /\ op \in Requested /\ task[t] # Absent
  /\ Becomes(p, [IdleThread EXCEPT !.pc = pc, !.op = op, !.t = t,
                                   !.w = handles[t], !.h = handles[t]])
  /\ UNCHANGED <<storeVars, besideRoutes, bootVars>>

\* POST /tasks/{tid}/actuate, stop and nudge: 409 without a live handle.
RequestStop(p, t) == handles[t] # None /\ Begin(p, "stop", t, "halt")
RequestNudge(p, t) == handles[t] # None /\ Begin(p, "nudge", t, "paste")

\* delete_task: what makes a stop necessary before the deletion.
NeedsStop(t) ==
  task[t] \in {"DISPATCHING", "RUNNING", "PAUSED", "STUCK"} \/ ActiveWorkerId(t) # None

\* DELETE /tasks/{tid}: stop first (409 without a handle), or delete straight away.
RequestDelete(p, t) ==
  \/ NeedsStop(t) /\ handles[t] # None /\ Begin(p, "delete", t, "halt")
  \/ ~NeedsStop(t) /\ Begin(p, "delete", t, "erase")

\* store.delete_task, whatever has happened since the check.
EraseTask(p) ==
  /\ At(p, "erase")
  /\ DeleteTask(th[p].t)
  /\ Becomes(p, IdleThread)
  /\ UNCHANGED <<besideRoutes, bootVars>>

\* POST /internal/worker-ping, sent by a local tmux worker with its status.json:
\* accepted while the task is active and has a live row.
WorkerPing(p, t) ==
  /\ Serving
  /\ At(p, "idle") /\ "ping" \in Requested
  /\ Kind[t] = "local" /\ AliveWorkers(t) # {}
  /\ task[t] \in Active /\ ActiveWorkerId(t) # None
  /\ MapTerminal(status[t], FALSE) # None
  /\ Becomes(p, [IdleThread EXCEPT !.pc = "target", !.op = "ping", !.t = t,
                                   !.term = MapTerminal(status[t], FALSE)])
  /\ UNCHANGED <<storeVars, besideRoutes, bootVars>>

\* ... and the worker to retire is looked up again, after the event is stored.
PingTarget(p) ==
  /\ At(p, "target")
  /\ Becomes(p, [th[p] EXCEPT !.pc = IF th[p].term = "STUCK" THEN "stick" ELSE "enter",
                              !.w = ActiveWorkerId(th[p].t)])
  /\ UNCHANGED <<storeVars, besideRoutes, bootVars>>

RequestStep(p) ==
  \/ \E t \in Tasks :
       RequestStop(p, t) \/ RequestNudge(p, t) \/ RequestDelete(p, t) \/ WorkerPing(p, t)
  \/ EraseTask(p) \/ PingTarget(p)
==============================================================================
