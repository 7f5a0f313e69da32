----------------------------- MODULE WorkerNudge -----------------------------
(***************************************************************************)
(* Nudging a worker of AutoKaggle by hand with local-monitor.py:           *)
(* observe-worker writes an observation to a file, verdict-prompt makes a  *)
(* prompt of it for a model whose answer is put in a second file, and      *)
(* actuate-worker reads both files and types the nudge into the pane.  The *)
(* commands share nothing but the files, which are written over each time, *)
(* and any number of them may run at once.                                 *)
(***************************************************************************)
EXTENDS Integers, FiniteSets

CONSTANTS
  Workers,      \* the workers, each with its pane
  Commands,     \* the places a command can run in
  MaxCommands,  \* a bound
  None

VARIABLES
  config,       \* monitor_mode of the configuration
  owner,        \* what the operator tells observe-worker of a worker's control
  observation,  \* the observation file
  verdict,      \* the verdict file
  command, commands,
  nudges        \* history: the nudges, with the observation and option behind each

vars == <<config, owner, observation, verdict, command, commands, nudges>>

MonitorModes == {"shadow", "active"}
Ownership == [managedBy : {"v2", "legacy"}, readOnly : BOOLEAN]
Idle == [pc |-> "idle"]

Init ==
  /\ config \in MonitorModes
  /\ owner \in [Workers -> Ownership]
  /\ observation = None
  /\ verdict = None
  /\ command = [c \in Commands |-> Idle]
  /\ commands = 0
  /\ nudges = {}

Sets(c, r) == command' = [command EXCEPT ![c] = r]
files == <<observation, verdict>>

Begins(c, r) ==
  /\ command[c] = Idle /\ commands < MaxCommands
  /\ Sets(c, r)
  /\ commands' = commands + 1
  /\ UNCHANGED <<config, owner, files, nudges>>

Ends(c) == Sets(c, Idle) /\ UNCHANGED <<config, owner, commands>>

-----------------------------------------------------------------------------
(* Observing                                                               *)

\* An observation as the remote observer made it; a pane that is gone is only
\* among its errors.
Observed(w) == [worker |-> w, reached |-> TRUE, control |-> owner[w], mode |-> config]

\* ssh fails, takes too long or answers something else: the file then names the
\* worker, and says nothing of its control and of the mode.
Failed(w) == [worker |-> w, reached |-> FALSE, control |-> None, mode |-> None]

ObserveBegin(c) == \E w \in Workers : Begins(c, [pc |-> "observe", worker |-> w])

\* The file is written in either case.
ObserveEnd(c) ==
  /\ command[c].pc = "observe"
  /\ observation' \in {Observed(command[c].worker), Failed(command[c].worker)}
  /\ Ends(c)
  /\ UNCHANGED <<verdict, nudges>>

-----------------------------------------------------------------------------
(* Judging                                                                 *)

\* verdict-prompt asks for a verdict on a failed observation too.
JudgeBegin(c) == observation # None /\ Begins(c, [pc |-> "judge"])

\* The model takes its time; its answer has a nudge or none.
JudgeEnd(c) ==
  /\ command[c].pc = "judge"
  /\ \E nudge \in BOOLEAN : verdict' = [nudge |-> nudge]
  /\ Ends(c)
  /\ UNCHANGED <<observation, nudges>>

-----------------------------------------------------------------------------
(* Typing                                                                  *)

\* What is not in the observation is taken for its default.
Control(o) == IF o.reached THEN o.control ELSE [managedBy |-> "v2", readOnly |-> FALSE]
ModeOf(o, override) ==
  IF override # None THEN override ELSE IF o.reached THEN o.mode ELSE "shadow"

\* Mutant: only the control plane is asked for, not whether the worker is read-only.
WillSend_writesReadOnly(o, override) ==
  Control(o).managedBy = "v2" /\ ModeOf(o, override) = "active" /\ verdict.nudge

\* The gates of build_monitor_actuation; it does not look at needs_human.
WillSend(o, override) ==
  /\ ~Control(o).readOnly /\ Control(o).managedBy = "v2"
  /\ ModeOf(o, override) = "active"
  /\ verdict.nudge

\* actuate-worker with --mode or without reads the observation first.
ActuateBegin(c) ==
  /\ observation # None
  /\ \E override \in MonitorModes \cup {None} :
       Begins(c, [pc |-> "actuate", observation |-> observation, override |-> override])

\* The verdict is that of the file by now, whichever observation it was asked for.
\* Without --send nothing is typed, and ssh or tmux may fail before the paste.
ActuateEnd(c) ==
  LET o == command[c].observation
      override == command[c].override
  IN  /\ command[c].pc = "actuate"
      /\ \/ /\ verdict # None /\ WillSend(o, override)
            /\ nudges' = nudges \cup {[worker |-> o.worker, reached |-> o.reached,
                                       override |-> override]}
         \/ UNCHANGED nudges
      /\ Ends(c)
      /\ UNCHANGED files

Next ==
  \E c \in Commands :
    \/ ObserveBegin(c) \/ ObserveEnd(c)
    \/ JudgeBegin(c) \/ JudgeEnd(c)
    \/ ActuateBegin(c) \/ ActuateEnd(c)

Spec == Init /\ [][Next]_vars

-----------------------------------------------------------------------------
(* Properties                                                              *)

Ours(w) == owner[w].managedBy = "v2" /\ ~owner[w].readOnly

\* docs/execution-flow.md:88 asks "active mode AND v2 managed AND not read-only?" of
\* every nudge, and --read-only is to be a mark on the worker by which the "actuator
\* will refuse nudges" (local-monitor.py:760).  It does not: an observation that
\* failed has lost what --read-only said, the actuator takes what is missing for no,
\* and with --mode active it types.
RefusesReadOnly == \A n \in nudges : ~owner[n.worker].readOnly

\* What does hold of every nudge, however the commands overlap and write each
\* other's files over: one behind an observation that reached the worker has passed
\* the whole gate, and one behind a failed observation only --mode active lets
\* through, never the configuration.
ReachedIsGated ==
  \A n \in nudges :
    IF n.reached THEN Ours(n.worker) /\ (n.override = None => config = "active")
    ELSE n.override = "active"
==============================================================================
