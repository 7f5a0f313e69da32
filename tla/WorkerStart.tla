----------------------------- MODULE WorkerStart -----------------------------
(***************************************************************************)
(* The workspace of one task, made by scripts/init_workspace.py, and       *)
(* scripts/start-worker.sh, which starts a worker in it with an ablation   *)
(* arm.  The arm is in the prompt file, which the worker reads when it has *)
(* started, and in status.json, which start-worker.sh and the worker write *)
(* back whole.                                                             *)
(***************************************************************************)
EXTENDS Integers, FiniteSets

CONSTANTS
  Arms,         \* that kersor-arms.sh accepts
  Modes,        \* "launch": workers are started; "dry": with --dry-run as well
  MaxRounds,    \* bound on the updates of a worker
  None

VARIABLES
  mode,
  workspace,    \* what init_workspace has made of it
  prompt,       \* runs/combined_prompt.md: an arm, or None
  status,       \* status.json: the arm, the rounds, and the pane of the worker
  window,       \* the tmux windows of the task
  start         \* the run of start-worker.sh

vars == <<mode, workspace, prompt, status, window, start>>

NoStart == [pc |-> "none", arm |-> None, dry |-> FALSE, copy |-> None]

\* A window: the arm its worker has read, and the status.json it holds.
NewWindow == [alive |-> TRUE, arm |-> None, copy |-> None]

Init ==
  /\ mode \in Modes
  /\ workspace = "none"
  /\ prompt = None
  /\ status = None
  /\ window = None
  /\ start = NoStart

-----------------------------------------------------------------------------
(* init_workspace                                                          *)

\* The directories, docs/phase1-prompt.md (of which a failure is a warning), the
\* links, the git repository.  A workspace that is there is skipped, so that one
\* that failed half way is never finished.
InitWorkspace ==
  /\ workspace = "none"
  /\ workspace' \in {"directories", "prompt", "ready", "ready without prompt"}
  /\ UNCHANGED <<mode, prompt, status, window, start>>

\* gen_phase1_prompts.py is run again.
PromptGenerated ==
  /\ workspace \in {"directories", "ready without prompt"}
  /\ workspace' = IF workspace = "directories" THEN "prompt" ELSE "ready"
  /\ UNCHANGED <<mode, prompt, status, window, start>>

-----------------------------------------------------------------------------
(* start-worker.sh                                                         *)

At(pc) == start.pc = pc
Goes(pc) == start' = [start EXCEPT !.pc = pc]

\* The arguments are refused before anything is written.
Begin ==
  /\ start = NoStart /\ workspace \in {"prompt", "ready"}
  /\ \E arm \in Arms, dry \in BOOLEAN :
       /\ dry => mode = "dry"
       /\ start' = [NoStart EXCEPT !.pc = "window", !.arm = arm, !.dry = dry]
  /\ UNCHANGED <<mode, workspace, prompt, status, window>>

\* Mutant: the window is not looked for.
WindowCheck_none == At("window") /\ Goes("prompt") /\ UNCHANGED <<mode, workspace, prompt, status, window>>

\* A window of the name, its worker alive or not, ends the run.
WindowCheck ==
  /\ At("window")
  /\ IF window # None /\ ~start.dry THEN start' = NoStart ELSE Goes("prompt")
  /\ UNCHANGED <<mode, workspace, prompt, status, window>>

WritePrompt ==
  /\ At("prompt") /\ Goes("status")
  /\ prompt' = start.arm
  /\ UNCHANGED <<mode, workspace, status, window>>

\* status.json is written anew.
WriteStatus ==
  /\ At("status")
  /\ status' = [arm |-> start.arm, rounds |-> 0, pane |-> FALSE]
  /\ IF start.dry THEN start' = NoStart ELSE Goes("launch")
  /\ UNCHANGED <<mode, workspace, prompt, window>>

\* The state is committed, and the window opened.
Launch ==
  /\ At("launch") /\ Goes("identity")
  /\ window' = NewWindow
  /\ UNCHANGED <<mode, workspace, prompt, status>>

\* The pane of the window is asked for, and status.json read.
ReadIdentity ==
  /\ At("identity") /\ window # None
  /\ start' = [start EXCEPT !.pc = "save", !.copy = status]
  /\ UNCHANGED <<mode, workspace, prompt, status, window>>

SaveIdentity ==
  /\ At("save")
  /\ status' = [start.copy EXCEPT !.pane = TRUE]
  /\ start' = NoStart
  /\ UNCHANGED <<mode, workspace, prompt, window>>

\* set -e: a step fails; or the run is interrupted.
Fail ==
  /\ start # NoStart
  /\ start' = NoStart
  /\ UNCHANGED <<mode, workspace, prompt, status, window>>

-----------------------------------------------------------------------------
(* The worker                                                              *)

besideWorker == <<mode, workspace, prompt, start>>
Works == window # None /\ window.alive

ReadsPrompt ==
  /\ Works /\ window.arm = None
  /\ window' = [window EXCEPT !.arm = prompt]
  /\ UNCHANGED <<besideWorker, status>>

\* "read-modify-write status tracking"
ReadsStatus ==
  /\ Works /\ window.arm # None /\ window.copy = None /\ status.rounds < MaxRounds
  /\ window' = [window EXCEPT !.copy = status]
  /\ UNCHANGED <<besideWorker, status>>

WritesStatus ==
  /\ Works /\ window.copy # None
  /\ status' = [window.copy EXCEPT !.rounds = @ + 1]
  /\ window' = [window EXCEPT !.copy = None]
  /\ UNCHANGED besideWorker

\* The worker exits: its window stays, with a shell.
Exits ==
  /\ Works
  /\ window' = [window EXCEPT !.alive = FALSE, !.copy = None]
  /\ UNCHANGED <<besideWorker, status>>

WindowClosed ==
  /\ window # None
  /\ window' = None
  /\ UNCHANGED <<besideWorker, status>>

Next ==
  \/ InitWorkspace \/ PromptGenerated
  \/ Begin \/ WindowCheck \/ WritePrompt \/ WriteStatus \/ Launch
  \/ ReadIdentity \/ SaveIdentity \/ Fail
  \/ ReadsPrompt \/ ReadsStatus \/ WritesStatus \/ Exits \/ WindowClosed

Spec == Init /\ [][Next]_vars

-----------------------------------------------------------------------------
(* Properties                                                              *)

\* start-worker.sh:121-124: "a mislabeled run can never silently record the wrong
\* experimental condition".  While a worker that has read its arm runs, its
\* status.json does not come to name another one.  With --dry-run it does: no window
\* is looked for (line 211), and the prompt and status.json of the worker are written
\* over with the arm of the dry run, which stops only then (line 320).
NeverRelabels == Works /\ window.arm # None => status'.arm = status.arm

\* Where nobody gives --dry-run, what status.json says is the arm the worker has
\* read, however starts fail, workers exit and windows are closed meanwhile.
LaunchedArmRecorded ==
  mode = "launch" /\ Works /\ window.arm # None => status.arm = window.arm
==============================================================================
