------------------------------- MODULE GpuLock -------------------------------
(***************************************************************************)
(* The lock of one GPU and what is seen of it.  A command is run by        *)
(* scripts/gpu-run.sh, which pins the clocks for it, or by gpu_lock.sh of  *)
(* the v2 control plane; both lock a file with flock, and the processes    *)
(* they start inherit it.  The file is named after the uuid of the GPU,    *)
(* but gpu-run.sh names another one when it cannot ask for the uuid.  The  *)
(* observer of monitor_state.py reads who has the file open, then the      *)
(* processes, then those of the GPUs, each at another time, and reports    *)
(* what runs without the lock; each of the three may fail by itself.       *)
(*                                                                         *)
(* A member of Procs stands for a wrapper and its command, or for a command*)
(* that is run without a wrapper.  The clocks may be set by every user.    *)
(***************************************************************************)
EXTENDS FiniteSets

CONSTANTS
  Procs,
  Workers,      \* those that are observed
  Owner,        \* the worker whose pane a process was started in
  Unnamed       \* those that may ask for the uuid of the GPU in vain

VARIABLES
  proc,
  clocks,       \* of the GPU: "pinned", or the lock file of who has reset them
  observation

vars == <<proc, clocks, observation>>

\* direct: a benchmark or profiler on the GPU of the worker; stray: any process
\* on another GPU.
Ways == {"gpu-run", "gpu_lock", "direct", "stray"}

\* The lock files: that of the uuid, and index-N.
LockFiles == {"uuid", "index"}

\* pinned: whether its wrapper has pinned the clocks.
NoProc == [pc |-> "none", way |-> "direct", file |-> "uuid", pinned |-> FALSE,
           wrapper |-> FALSE, attached |-> FALSE]

\* fuser, tree, tools: what was read; tools are the benchmarks in the tree.
\* failed: fuser gave nothing.  errors: tmux, ps or nvidia-smi did not answer, which
\* the observation says.  reported: the processes that are not safe; ok: all is well.
\* History: gone, what ended since it began; opened, who had the file open then;
\* present, the bare commands that ran then; used, whether its worker has had the
\* file open since.
NoObservation ==
  [pc |-> "idle", worker |-> CHOOSE w \in Workers : TRUE, fuser |-> {}, tree |-> {},
   tools |-> {}, reported |-> {}, ok |-> FALSE, failed |-> FALSE, errors |-> FALSE,
   gone |-> {}, opened |-> {}, present |-> {}, used |-> FALSE]

Init ==
  /\ proc = [p \in Procs |-> NoProc]
  /\ clocks = "default"
  /\ observation = NoObservation

Own(w) == {p \in Procs : Owner[p] = w}
Wrapped(p) == proc[p].way \in {"gpu-run", "gpu_lock"}
HasFile(p) == Wrapped(p) /\ proc[p].pc \in {"opened", "locked", "running", "ended"}

\* As the observer sees it: it asks for the file of the uuid.
HasOpen(p) == HasFile(p) /\ proc[p].file = "uuid"

\* Mutant: the lock is for the command alone.
HoldsLock_command(p) == Wrapped(p) /\ proc[p].pc \in {"locked", "running"}

\* flock belongs to the open file: until the last process that has it ends.
HoldsLock(p) == Wrapped(p) /\ proc[p].pc \in {"locked", "running", "ended"}

-----------------------------------------------------------------------------
(* The commands                                                            *)

At(p, pc) == proc[p].pc = pc
Goes(p, pc) == proc' = [proc EXCEPT ![p].pc = pc]
Ends(p) ==
  /\ proc' = [proc EXCEPT ![p] = NoProc]
  /\ observation' = [observation EXCEPT !.gone = @ \cup {p}]

\* A process id is not used again while it may be in what an observation has read.
\* gpu_lock.sh is given its file; gpu-run.sh takes index-N if the query fails.
Start(p) ==
  /\ At(p, "none") /\ p \notin observation.gone
  /\ \E way \in Ways, file \in LockFiles :
       LET bare == way \in {"direct", "stray"}
       IN  /\ bare => Owner[p] \in Workers
           /\ file = "index" => way = "gpu-run" /\ p \in Unnamed
           /\ proc' = [proc EXCEPT ![p] =
                [pc |-> IF bare THEN "running" ELSE "starting", way |-> way,
                 file |-> file, pinned |-> FALSE, wrapper |-> way = "gpu-run",
                 attached |-> Owner[p] \in Workers]]
  /\ UNCHANGED <<clocks, observation>>

OpenFile(p) ==
  /\ At(p, "starting") /\ Goes(p, "opened")
  /\ observation' = [observation EXCEPT
       !.used = @ \/ (Owner[p] = observation.worker /\ proc[p].file = "uuid")]
  /\ UNCHANGED clocks

\* flock -x; gpu_lock.sh then becomes the command.
Lock(p) ==
  /\ At(p, "opened") /\ \A q \in Procs : HoldsLock(q) => proc[q].file # proc[p].file
  /\ Goes(p, IF proc[p].wrapper THEN "locked" ELSE "running")
  /\ UNCHANGED <<clocks, observation>>

\* The command runs whether or not nvidia-smi may pin the clocks.
Pin(p) ==
  /\ At(p, "locked")
  /\ \E pins \in BOOLEAN :
       /\ clocks' = IF pins THEN "pinned" ELSE clocks
       /\ proc' = [proc EXCEPT ![p].pc = "running", ![p].pinned = pins]
  /\ UNCHANGED observation

\* gpu-run.sh goes on to reset the clocks if the command succeeds; set -e ends it
\* if the command fails.
CommandEnds(p) ==
  /\ At(p, "running")
  /\ \/ proc[p].wrapper /\ Goes(p, "ended") /\ UNCHANGED observation
     \/ Ends(p)
  /\ UNCHANGED clocks

\* Nor does it matter whether they could be reset.
Reset(p) ==
  /\ At(p, "ended")
  /\ clocks' \in {clocks, proc[p].file}
  /\ Ends(p)

\* A wrapper is killed: its command goes on without it, and without a parent.
WrapperKilled(p) ==
  /\ Wrapped(p)
  /\ IF At(p, "running")
     THEN /\ proc[p].wrapper
          /\ proc' = [proc EXCEPT ![p].wrapper = FALSE, ![p].attached = FALSE]
          /\ UNCHANGED observation
     ELSE Ends(p)
  /\ UNCHANGED clocks

\* The shell of the worker that started it ends.
Detached(p) ==
  /\ proc[p].attached
  /\ proc' = [proc EXCEPT ![p].attached = FALSE]
  /\ UNCHANGED <<clocks, observation>>

-----------------------------------------------------------------------------
(* The observer                                                            *)

\* collect_lock_status: fuser on the lock file, which may be missing or too slow.
ObserveLock(w) ==
  /\ observation.pc \in {"idle", "done"}
  /\ \E failed \in BOOLEAN :
       LET open == {p \in Procs : HasOpen(p)}
           bare == {p \in Own(w) : At(p, "running") /\ ~Wrapped(p)}
       IN  observation' = [NoObservation EXCEPT
             !.pc = "tree", !.worker = w, !.failed = failed,
             !.fuser = IF failed THEN {} ELSE open,
             !.opened = open, !.present = bare, !.used = open \cap Own(w) # {}]
  /\ UNCHANGED <<proc, clocks>>

\* The descendants of the pane.
Tree(w) == {p \in Own(w) : proc[p].attached}

\* ps, and tmux for the pane: without an answer of both no process is known.
ObserveTree ==
  /\ observation.pc = "tree"
  /\ \E answered \in BOOLEAN :
       LET tree == IF answered THEN Tree(observation.worker) ELSE {}
       IN  observation' = [observation EXCEPT !.pc = "apps", !.tree = tree,
             !.tools = {p \in tree : proc[p].way # "stray"}, !.errors = ~answered]
  /\ UNCHANGED <<proc, clocks>>

\* Mutant: the lock is held, whoever holds it.
HeldByWorker_any(open) == open # {}

HeldByWorker(open) == open \cap observation.tree # {}

\* nvidia-smi, and detect_gpu_safety; a lock file that nobody has opened for hours is
\* an alarm by itself.
Reports(open) ==
  /\ observation.pc = "apps"
  /\ \E answered \in BOOLEAN, old \in BOOLEAN :
       LET Unlocked == {p \in observation.tools : ~HeldByWorker(open)}
           Unexpected == {p \in observation.tree : answered /\ proc[p].way = "stray"}
       IN  observation' = [observation EXCEPT !.pc = "done",
             !.fuser = {}, !.tree = {}, !.tools = {},
             !.reported = (Unlocked \cup Unexpected), !.errors = @ \/ ~answered,
             !.ok = (Unlocked \cup Unexpected = {} /\ ~old)]
  /\ UNCHANGED <<proc, clocks>>

\* Mutant: the lock is read last.
ObserveApps_lockLast == Reports({p \in Procs : HasOpen(p)})

ObserveApps == Reports(observation.fuser)

\* The connection is lost or too slow: nothing is reported.
ObservationLost ==
  /\ observation.pc \in {"tree", "apps"}
  /\ observation' = NoObservation
  /\ UNCHANGED <<proc, clocks>>

Next ==
  \/ \E p \in Procs :
       \/ Start(p) \/ OpenFile(p) \/ Lock(p) \/ Pin(p) \/ CommandEnds(p) \/ Reset(p)
       \/ WrapperKilled(p) \/ Detached(p)
  \/ \E w \in Workers : ObserveLock(w)
  \/ ObserveTree \/ ObserveApps \/ ObservationLost

Spec == Init /\ [][Next]_vars

-----------------------------------------------------------------------------
(* Properties                                                              *)

\* gpu-run.sh:33: "Pin clocks for reproducible benchmarks (may fail without
\* permission - non-fatal)".  If the wrapper of a command could pin the clocks, they
\* stay pinned while the command runs, though other wrappers wait, end, fail and are
\* killed, and reset the clocks.  Only a wrapper that names another lock file may
\* undo it: without an answer to its query for the uuid it locks index-N (lines
\* 18-24), which excludes nobody else.
MeasuredPinned ==
  \A p \in Procs :
    proc[p].way = "gpu-run" /\ At(p, "running") /\ proc[p].pinned /\ clocks # "pinned" =>
      clocks # proc[p].file /\ clocks \in LockFiles

\* What had the lock file of the uuid open when an observation began is not reported
\* by it, though it ends before the processes are read.  A fuser that fails is left
\* out: everybody is then reported, and only gpu_lock.fuser_error says why.
NoFalseAlarm ==
  observation.pc = "done" /\ ~observation.failed =>
    observation.reported \cap observation.opened = {}

\* A bare command that runs all through an observation is reported and the GPU is
\* not ok, unless the worker had the lock meanwhile for another one; on another GPU
\* it always is.  If tmux, ps or nvidia-smi fails nothing may be reported: the
\* observation then has an error, but the GPU is ok all the same.
BypassReported ==
  observation.pc = "done" /\ ~observation.errors =>
    \A p \in observation.present \ observation.gone :
      proc[p].attached /\ (observation.used => proc[p].way = "stray")
        => p \in observation.reported /\ ~observation.ok
==============================================================================
