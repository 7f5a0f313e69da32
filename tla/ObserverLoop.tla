---------------------------- MODULE ObserverLoop ----------------------------
(***************************************************************************)
(* flotilla/observer.py: the daemon thread that works through a snapshot   *)
(* of the handle registry, observes each worker and retires those that     *)
(* report an end.                                                          *)
(***************************************************************************)
EXTENDS Actuator

\* handles_snapshot(): the items are worked through one after the other, the
\* last of them long after the snapshot.
ObserverSnapshot ==
  /\ Serving
  /\ At(Observer, "idle") /\ todo = {}
  /\ todo' = {i \in Tasks \X Workers : handles[i[1]] = i[2]}
  /\ UNCHANGED <<storeVars, runtimeVars, registryVars, th, job, bootVars>>

\* One item: observe the handle of the snapshot, record a status event (which
\* the foreign key refuses when the task is gone), retire on a terminal report.
ObserverItem ==
  /\ At(Observer, "idle")
  /\ \E i \in todo :
       LET t == i[1]
           w == i[2]
           term == IF task[t] = Absent THEN None ELSE Observation(w) IN
       /\ todo' = todo \ {i}
       /\ Becomes(Observer,
                  IF term = None THEN IdleThread
                  ELSE [IdleThread EXCEPT !.pc = IF term = "STUCK" THEN "stick" ELSE "enter",
                                          !.op = "observe", !.t = t, !.w = w, !.term = term])
  /\ UNCHANGED <<storeVars, runtimeVars, registryVars, job, bootVars>>

ObserverStep == ObserverSnapshot \/ ObserverItem
==============================================================================
