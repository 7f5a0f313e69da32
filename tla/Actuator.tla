------------------------------ MODULE Actuator ------------------------------
(***************************************************************************)
(* flotilla/actuator.py: retire(), the one path by which a worker stops    *)
(* being live, and actuate().  retire runs in the observer thread and in   *)
(* request threads; each step below is what the code does between two      *)
(* points where another thread can act (a lock, a transaction, a call to a *)
(* runtime).                                                               *)
(***************************************************************************)
EXTENDS ControlState

\* What no step of retire or actuate touches.
besideActuator == <<todo, job, bootVars>>

-----------------------------------------------------------------------------
(* retire(store, task_id, worker_id, terminal_state, stop_runtime)         *)

\* The thread when retire has returned `result' (None or a state) or raised:
\* the observer and a ping go on to their next item, a stop or a delete looks
\* at the result (actuate, then routes.delete_task).
AfterRetire(p, result) ==
  IF th[p].op # "delete" \/ result = "raised" THEN IdleThread
  ELSE IF result = "CANCELLED"
       THEN [IdleThread EXCEPT !.pc = "erase", !.op = "delete", !.t = th[p].t]
       ELSE [IdleThread EXCEPT !.pc = "verify", !.op = "delete", !.t = th[p].t, !.w = th[p].w]

\* terminal_state = "STUCK" is not retirement: one compare-and-set.
RetireStuck(p) ==
  LET t == th[p].t IN
  /\ At(p, "stick")
  /\ \/ SetTaskState(t, "STUCK", {"RUNNING", "PAUSED", "STUCK"})
     \/ /\ task[t] \notin {"RUNNING", "STUCK"}
        /\ UNCHANGED storeVars
  /\ Becomes(p, IdleThread)
  /\ UNCHANGED <<runtimeVars, registryVars, besideActuator>>

\* Mutant: the _RETIRING test is dropped.
RetireEnter_unguarded(p) ==
  LET t == th[p].t IN
  /\ At(p, "enter")
  /\ retiring' = retiring \cup {t}
  /\ Becomes(p, [th[p] EXCEPT !.pc = "read", !.h = handles[t]])
  /\ UNCHANGED <<storeVars, runtimeVars, handles, besideActuator>>

\* Under the registry lock: give up when the task is being retired, else mark
\* it and read its handle, whoever that handle belongs to.
RetireEnter(p) ==
  LET t == th[p].t IN
  /\ At(p, "enter")
  /\ IF t \in retiring
     THEN Becomes(p, AfterRetire(p, None)) /\ UNCHANGED retiring
     ELSE /\ retiring' = retiring \cup {t}
          /\ Becomes(p, [th[p] EXCEPT !.pc = "read", !.h = handles[t]])
  /\ UNCHANGED <<storeVars, runtimeVars, handles, besideActuator>>

HasRow(w) == w # None /\ rowTask[w] # None

\* Mutant: the evaluator runs before the runtime is stopped.
AfterRead_evaluatesFirst(r, done) ==
  IF ~done /\ r.term = "DONE" /\ r.t \in Gated THEN "evaluate"
  ELSE IF r.op # "stop" /\ r.op # "delete" /\ r.h # None THEN "stop" ELSE "commit"

AfterStop(r, done) ==
  IF ~done /\ r.term = "DONE" /\ r.t \in Gated THEN "evaluate" ELSE "commit"

\* A stop request has stopped the runtime itself (stop_runtime=False).
AfterRead(r, done) ==
  IF r.op \notin {"stop", "delete"} /\ r.h # None THEN "stop" ELSE AfterStop(r, done)

\* get_worker and get_task, and the two early returns: no such task, or a
\* terminal task whose worker row is gone or ended.
RetireRead(p) ==
  LET t == th[p].t
      w == th[p].w
      done == task[t] \in Terminal IN
  /\ At(p, "read")
  /\ IF task[t] = Absent \/ (done /\ w \notin live)
     THEN /\ Unregister(t)
          /\ retiring' = retiring \ {t}
          /\ Becomes(p, AfterRetire(p, None))
     ELSE /\ Becomes(p, [th[p] EXCEPT !.pc = AfterRead(th[p], done), !.done = done,
                                      !.lock = IF HasRow(w) THEN Gpu[rowTask[w]] ELSE None])
          /\ UNCHANGED <<handles, retiring>>
  /\ UNCHANGED <<storeVars, runtimeVars, besideActuator>>

\* runtime.stop(handle); a failure is recorded as worker_stop_warning and
\* retirement goes on.
RetireStop(p) ==
  /\ At(p, "stop")
  /\ StopReturns(th[p].h) \/ StopRaises(th[p].h)
  /\ Goto(p, AfterStop(th[p], th[p].done))
  /\ UNCHANGED <<storeVars, home, status, held, registryVars, besideActuator>>

\* _evaluation_event: the evaluator's verdict decides between DONE and FAILED;
\* it cannot read a remote workspace.
RetireEvaluate(p) ==
  /\ At(p, "evaluate")
  /\ \E verdict \in {"DONE", "FAILED"} :
       /\ Kind[th[p].t] = "remote" => verdict = "FAILED"
       /\ Becomes(p, [th[p] EXCEPT !.pc = "commit", !.term = verdict])
  /\ UNCHANGED <<storeVars, runtimeVars, registryVars, besideActuator>>

\* Mutant: the worker row is not ended with the task.
RetireCommit_leavesRow(p) ==
  LET t == th[p].t IN
  /\ At(p, "commit") /\ ~th[p].done
  /\ FinishWorker(t, None, th[p].term)
  /\ Goto(p, "release")
  /\ UNCHANGED <<runtimeVars, registryVars, besideActuator>>

\* finish_worker, or end_worker when the task was terminal already.
RetireCommit(p) ==
  LET t == th[p].t
      w == th[p].w
      next == IF th[p].lock = None THEN "leave" ELSE "release" IN
  /\ At(p, "commit")
  /\ \/ /\ th[p].done
        /\ EndWorker(w)
        /\ Goto(p, next)
        /\ UNCHANGED <<retiring, faults>>
     \/ /\ ~th[p].done
        /\ FinishWorker(t, w, th[p].term)
        /\ Goto(p, next)
        /\ UNCHANGED <<retiring, faults>>
     \/ /\ ~th[p].done                      \* the task is gone: return None
        /\ task[t] = Absent
        /\ Becomes(p, AfterRetire(p, None))
        /\ retiring' = retiring \ {t}
        /\ UNCHANGED <<storeVars, faults>>
     \/ /\ \/ /\ ~th[p].done                \* IllegalTransition reaches the caller
              /\ task[t] # Absent /\ ~CanMove(task[t], th[p].term)
              /\ UNCHANGED faults
           \/ Fault("database")              \* the transaction failed
        /\ Becomes(p, AfterRetire(p, "raised"))
        /\ retiring' = retiring \ {t}
        /\ UNCHANGED storeVars
  /\ UNCHANGED <<home, world, status, held, handles, besideActuator>>

\* release_id(worker.resource_lock_id)
RetireRelease(p) ==
  /\ At(p, "release")
  /\ ReleaseGpu(th[p].lock)
  /\ Goto(p, "leave")
  /\ UNCHANGED <<storeVars, home, world, status, faults, registryVars, besideActuator>>

\* unregister(task_id), by task id alone, and the finally block.
RetireLeave(p) ==
  LET t == th[p].t IN
  /\ At(p, "leave")
  /\ Unregister(t)
  /\ retiring' = retiring \ {t}
  /\ Becomes(p, AfterRetire(p, IF th[p].done THEN None ELSE th[p].term))
  /\ UNCHANGED <<storeVars, runtimeVars, besideActuator>>

RetireStep(p) ==
  \/ RetireStuck(p) \/ RetireEnter(p) \/ RetireRead(p) \/ RetireStop(p)
  \/ RetireEvaluate(p) \/ RetireCommit(p) \/ RetireRelease(p) \/ RetireLeave(p)

-----------------------------------------------------------------------------
(* actuate(store, task_id, action, payload)                                *)

\* "stop": the runtime is stopped before anything is decided; a failure is the
\* answer (409), and the worker stays registered.
HaltWorker(p) ==
  /\ At(p, "halt")
  /\ \/ /\ StopReturns(th[p].h)
        /\ Becomes(p, [th[p] EXCEPT !.pc = "enter", !.term = "CANCELLED", !.h = None])
     \/ /\ StopRaises(th[p].h)
        /\ Becomes(p, IdleThread)
  /\ UNCHANGED <<storeVars, home, status, held, registryVars, besideActuator>>

\* A retire that did not answer CANCELLED still lets the deletion go on when
\* the task is terminal and the worker row is gone or ended.
VerifyCancelled(p) ==
  LET t == th[p].t
      w == th[p].w IN
  /\ At(p, "verify")
  /\ Becomes(p, IF task[t] \in Terminal /\ w \notin live
                THEN [th[p] EXCEPT !.pc = "erase"] ELSE IdleThread)
  /\ UNCHANGED <<storeVars, runtimeVars, registryVars, besideActuator>>

\* "nudge": after the text is pasted, STUCK goes back to RUNNING.
NudgeWorker(p) ==
  LET t == th[p].t IN
  /\ At(p, "paste")
  /\ \/ SetTaskState(t, "RUNNING", {"STUCK"})
     \/ task[t] # "STUCK" /\ UNCHANGED storeVars
     \/ UNCHANGED storeVars                 \* the paste failed
  /\ Becomes(p, IdleThread)
  /\ UNCHANGED <<runtimeVars, registryVars, besideActuator>>

ActuateStep(p) == HaltWorker(p) \/ VerifyCancelled(p) \/ NudgeWorker(p)
==============================================================================
