---------------------------- MODULE ControlState ----------------------------
(***************************************************************************)
(* The volatile state of one Flotilla server process: the handle registry  *)
(* of actuator.py, the local variables of its threads, the claims tick()   *)
(* is dispatching, and what is left of the reconciliation at start-up.     *)
(* A crash loses all of it; the tables of Store and the workers survive.   *)
(***************************************************************************)
EXTENDS Runtimes

CONSTANTS
  Observer,     \* the observer thread
  Requests,     \* threads that serve HTTP requests
  Requested,    \* the operations clients use
  Gated,        \* tasks with an evaluator
  Unfit,        \* tasks whose runtime, resource or host no longer resolves
  MaxSubmits,   \* bound: task submissions in a behaviour
  MaxCrashes    \* bound: crashes of the server

ASSUME ControlAssumptions ==
  /\ Observer \notin Requests
  /\ Requested \subseteq {"stop", "delete", "ping", "nudge"}
  /\ Gated \subseteq Tasks /\ Unfit \subseteq Tasks
  /\ MaxSubmits \in Nat /\ MaxCrashes \in Nat

Threads == Requests \cup {Observer}

VARIABLES
  handles,    \* actuator._HANDLES: handles[t] = w is (w, the handle of w)
  retiring,   \* actuator._RETIRING
  th,         \* the local variables of the observer and the request threads
  todo,       \* what is left of the observer's handles_snapshot()
  job,        \* the claim of each task that tick() is dispatching
  boot,       \* tasks the reconciliation has still to look at; {} once serving
  submits, crashes      \* counted against their bounds

registryVars == <<handles, retiring>>
bootVars == <<boot, submits, crashes>>
controlVars == <<registryVars, th, todo, job, bootVars>>
vars == <<storeVars, runtimeVars, controlVars>>

\* pc: where the thread stands.  op: the request it serves.  t, w, term: the
\* arguments task_id, worker_id, terminal_state.  h: the handle read.  lock: the
\* resource_lock_id of the worker row read.  done: already_terminal.
ThreadRecord ==
  [pc : {"idle", "halt", "paste", "target", "stick", "enter", "read", "stop",
         "evaluate", "commit", "release", "leave", "verify", "erase"},
   op : {"observe", "stop", "delete", "ping", "nudge", None},
   t : Tasks \cup {None}, w : Workers \cup {None}, h : Workers \cup {None},
   term : STATES \cup {None}, lock : Gpus \cup {None}, done : BOOLEAN]

IdleThread ==
  [pc |-> "idle", op |-> None, t |-> None, w |-> None, h |-> None,
   term |-> None, lock |-> None, done |-> FALSE]

\* claimed: not resolved yet.  prepared: resolved, lease acquired.  started,
\* startFailed: the future is done.  registered: handle in the registry, not
\* activated.  cleanup: dispatch failed, runtime to be stopped.  stopped,
\* stopFailed: to be unregistered.  unclaim, unclaimFailed, unclaimLost: to be
\* released to QUEUED, FAILED, LOST.
Phases == {"none", "claimed", "prepared", "started", "startFailed", "registered",
           "cleanup", "stopped", "stopFailed", "unclaim", "unclaimFailed", "unclaimLost"}

NoJob == [phase |-> "none", w |-> None]

ControlTypeOK ==
  /\ handles \in [Tasks -> Workers \cup {None}]
  /\ retiring \subseteq Tasks
  /\ th \in [Threads -> ThreadRecord]
  /\ todo \subseteq Tasks \X Workers
  /\ job \in [Tasks -> [phase : Phases, w : Workers \cup {None}]]
  /\ boot \subseteq Tasks
  /\ submits \in 0 .. MaxSubmits /\ crashes \in 0 .. MaxCrashes

ControlInit ==
  /\ handles = [t \in Tasks |-> None]
  /\ retiring = {}
  /\ th = [p \in Threads |-> IdleThread]
  /\ todo = {}
  /\ job = [t \in Tasks |-> NoJob]
  /\ boot = {}
  /\ submits = 0 /\ crashes = 0

Serving == boot = {}

\* Mutant: the task id is stored where the worker id belongs.
Register_swapped(t, w) == handles' = [handles EXCEPT ![t] = t]

Register(t, w) == handles' = [handles EXCEPT ![t] = w]
Unregister(t) == handles' = [handles EXCEPT ![t] = None]

At(p, pc) == th[p].pc = pc
Becomes(p, r) == th' = [th EXCEPT ![p] = r]
Goto(p, pc) == Becomes(p, [th[p] EXCEPT !.pc = pc])
==============================================================================
