------------------------------ MODULE Runtimes ------------------------------
(***************************************************************************)
(* What Flotilla drives and cannot see into: the worker processes of       *)
(* runtime/shell.py and runtime/tmux_claude.py, the status.json a worker   *)
(* writes in its workspace, and the GPU leases of resource/gpu.py.         *)
(*                                                                         *)
(* A worker id stands for the process started for it.  A tmux window is    *)
(* named after the task id alone, so two workers of one task share it; a   *)
(* shell worker is a Popen object of its own.                              *)
(***************************************************************************)
EXTENDS Store

CONSTANTS
  Kind,       \* [Tasks -> {"shell", "local", "remote"}]: runtime and host
  Gpus,       \* GPU uuids
  Gpu,        \* [Tasks -> Gpus or None]: resource_req of the task
  Faults,     \* the kinds of fault this instance explores
  MaxFaults   \* bound: how many of them happen in a behaviour

ASSUME RuntimeAssumptions ==
  /\ Kind \in [Tasks -> {"shell", "local", "remote"}]
  /\ Gpu \in [Tasks -> Gpus \cup {None}]
  /\ MaxFaults \in Nat

VARIABLES
  home,      \* the task a worker id was made for, None for an unused id
  world,     \* the worker's process: see ProcStates
  status,    \* the state field of status.json in the workspace of the task
  held,      \* GpuResource._held: on whose behalf the flock of a GPU is held
  faults     \* faults so far

runtimeVars == <<home, world, status, held, faults>>

\* none: not started.  alive: running.  ok, bad: exited with 0 or not, a tmux
\* window still showing "Worker exited".  gone: killed, or its window closed.
ProcStates == {"none", "alive", "ok", "bad", "gone"}

\* status.json: success, stuck and failed stand for the three sets of states
\* observer.py names; success also for the end-of-session text in the pane.
Reports == {"running", "success", "stuck", "failed"}

RuntimesTypeOK ==
  /\ home \in [Workers -> Tasks \cup {None}]
  /\ world \in [Workers -> ProcStates]
  /\ status \in [Tasks -> Reports]
  /\ held \in [Gpus -> Workers \cup {None}]
  /\ faults \in 0 .. MaxFaults

RuntimesInit ==
  /\ home = [w \in Workers |-> None]
  /\ world = [w \in Workers |-> "none"]
  /\ status = [t \in Tasks |-> "running"]
  /\ held = [g \in Gpus |-> None]
  /\ faults = 0

Fault(kind) ==
  /\ kind \in Faults /\ faults < MaxFaults
  /\ faults' = faults + 1

AliveWorkers(t) == {w \in Workers : home[w] = t /\ world[w] = "alive"}
Windows(t) == {w \in Workers : home[w] = t /\ world[w] \in {"alive", "ok", "bad"}}

-----------------------------------------------------------------------------
(* runtime.stop(handle) for the handle of worker w                         *)

\* A shell stop ends one process group; kill-window closes the window of that
\* name, whichever worker of the task is in it.
StopTargets(w) ==
  IF Kind[home[w]] = "shell" THEN {w} \cap AliveWorkers(home[w])
                             ELSE Windows(home[w])

Kill(S) == world' = [w \in Workers |-> IF w \in S THEN "gone" ELSE world[w]]

\* The shell and the local tmux stop never raise (check=False); the remote one
\* raises when kill-window finds no window.
StopReturns(w) ==
  /\ Kind[home[w]] = "remote" => Windows(home[w]) # {}
  /\ Kill(StopTargets(w))
  /\ UNCHANGED faults

\* A remote stop also raises when ssh fails, before or after the window closed.
StopRaises(w) ==
  /\ Kind[home[w]] = "remote"
  /\ \/ Windows(home[w]) = {} /\ UNCHANGED <<world, faults>>
     \/ Windows(home[w]) # {} /\ Fault("stop") /\ UNCHANGED world
     \/ Windows(home[w]) # {} /\ Fault("stop") /\ Kill(StopTargets(w))

-----------------------------------------------------------------------------
(* runtime.start: tmux writes a fresh status.json and closes an older      *)
(* window of the name; the shell runtime touches neither.                  *)

StartReturns(t, w) ==
  /\ world' = [v \in Workers |->
                 IF v = w THEN "alive"
                 ELSE IF Kind[t] # "shell" /\ v \in Windows(t) THEN "gone"
                 ELSE world[v]]
  /\ status' = IF Kind[t] = "shell" THEN status ELSE [status EXCEPT ![t] = "running"]
  /\ UNCHANGED <<home, held, faults>>

\* Raises with nothing started, or (tmux) after new-window has succeeded.
StartRaises(t, w) ==
  \/ Fault("start") /\ UNCHANGED <<home, world, status, held>>
  \/ /\ Kind[t] # "shell" /\ Fault("lateStart")
     /\ world' = [v \in Workers |->
                    IF v = w THEN "alive" ELSE IF v \in Windows(t) THEN "gone" ELSE world[v]]
     /\ status' = [status EXCEPT ![t] = "running"]
     /\ UNCHANGED <<home, held>>

-----------------------------------------------------------------------------
(* observer.observe_and_record and _map_terminal                           *)

\* The task state a worker's report and exit signal ask for, None while it runs.
MapTerminal(report, exited) ==
  CASE report = "success" -> "DONE"
    [] report = "stuck" -> "STUCK"
    [] report = "failed" -> "FAILED"
    [] OTHER -> IF exited THEN "FAILED" ELSE None

\* What Popen.poll() adds for a shell worker whose status.json is not terminal.
ShellReport(w) ==
  CASE world[w] = "alive" -> "running"
    [] world[w] = "ok" -> "success"
    [] OTHER -> "failed"

\* Mutant: only status.json counts.
Observation_ignoresExit(w) == MapTerminal(status[home[w]], FALSE)

\* A local tmux pane that is gone captures as empty text: not exited.  A remote
\* one makes the observation fail, which is recorded as running.
Observation(w) ==
  LET t == home[w] IN
  CASE Kind[t] = "shell" ->
         MapTerminal(IF status[t] = "running" THEN ShellReport(w) ELSE status[t],
                     world[w] # "alive")
    [] Kind[t] = "local" -> MapTerminal(status[t], world[w] \in {"ok", "bad"})
    [] Kind[t] = "remote" ->
         IF world[w] \in {"alive", "ok", "bad"}
         THEN MapTerminal(status[t], world[w] \in {"ok", "bad"}) ELSE None

-----------------------------------------------------------------------------
(* GpuResource                                                             *)

\* acquire() that returns a lock: the process holds no fd for the uuid.
AcquireGpu(g, w) == held[g] = None /\ held' = [held EXCEPT ![g] = w]

\* release()/release_id(): by uuid, whoever acquired it.
ReleaseGpu(g) ==
  held' = IF g = None THEN held ELSE [held EXCEPT ![g] = None]

-----------------------------------------------------------------------------
(* The workers themselves                                                  *)

\* The process writes a new state to status.json of its workspace.
WorkerReports(w, s) ==
  /\ world[w] = "alive" /\ status[home[w]] \in {"running", "stuck"}
  /\ s # status[home[w]]
  /\ status' = [status EXCEPT ![home[w]] = s]
  /\ UNCHANGED <<home, world, held, faults>>

WorkerExits(w, code) ==
  /\ world[w] = "alive"
  /\ world' = [world EXCEPT ![w] = code]
  /\ UNCHANGED <<home, status, held, faults>>

\* A tmux window closed by hand, or with its server or host.
WindowVanishes(w) ==
  /\ home[w] # None /\ Kind[home[w]] # "shell" /\ w \in Windows(home[w])
  /\ Fault("window")
  /\ world' = [world EXCEPT ![w] = "gone"]
  /\ UNCHANGED <<home, status, held>>
==============================================================================
