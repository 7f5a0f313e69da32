------------------------------ MODULE TaskState ------------------------------
(***************************************************************************)
(* The task lifecycle table of flotilla/state.py: which states a task row  *)
(* may hold and which ordered pairs transition() accepts.                  *)
(***************************************************************************)

\* state.STATES (also the CHECK constraint of the task table in db.py).
STATES ==
  {"PLANNED", "QUEUED", "DISPATCHING", "RUNNING", "PAUSED",
   "DONE", "FAILED", "STUCK", "CANCELLED", "LOST"}

\* state._ALLOWED, one row of the table per source state.
Allowed ==
       {"PLANNED"}     \X {"QUEUED", "CANCELLED"}
  \cup {"QUEUED"}      \X {"DISPATCHING", "RUNNING", "CANCELLED"}
  \cup {"DISPATCHING"} \X {"RUNNING", "QUEUED", "FAILED", "CANCELLED", "LOST"}
  \cup {"RUNNING"}     \X {"DONE", "FAILED", "STUCK", "PAUSED", "CANCELLED", "LOST"}
  \cup {"PAUSED"}      \X {"RUNNING", "DONE", "FAILED", "CANCELLED", "LOST"}
  \cup {"STUCK"}       \X {"RUNNING", "DONE", "FAILED", "CANCELLED", "LOST"}
  \cup {"LOST"}        \X {"QUEUED", "FAILED", "CANCELLED"}

\* state.transition(): TRUE when it returns, FALSE when it raises
\* IllegalTransition.  A move to the same state is always accepted.
CanMove(current, target) ==
  /\ current \in STATES /\ target \in STATES
  /\ current = target \/ <<current, target>> \in Allowed

\* The states retire() and actuate() call terminal.
Terminal == {"DONE", "FAILED", "CANCELLED", "LOST"}

\* The states in which the control plane expects a worker: the guard of
\* worker_ping and of the restart reconciliation.
Active == {"RUNNING", "PAUSED", "STUCK"}
==============================================================================
