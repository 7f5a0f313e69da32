---------------------------- MODULE GenericMonitor ----------------------------
(***************************************************************************)
(* The generic monitor of one worker: scripts/generic_remote_monitor.py    *)
(* beside the worker (a loop in a tmux window, or --once), the loop of     *)
(* local-monitor.py generic-loop, and the commands that start and stop the *)
(* remote loop.  An iteration observes the pane, asks a model for a        *)
(* verdict, which takes minutes, and pastes a nudge if every gate is open. *)
(***************************************************************************)
EXTENDS Integers, FiniteSets

CONSTANTS
  Monitors,     \* the processes that can monitor the worker
  Commands,     \* the places a start or stop command can run in
  Modes,        \* "single": a remote loop and nothing else, its commands one at a
                \* time; "several": monitors and commands overlap
  Policies,     \* the policies a deployed bundle may hold
  Cooldown,
  MaxTime, MaxCommands,  \* bounds, for each mode
  None

VARIABLES
  mode,
  bundle,       \* the policy in bundle.json
  pane,         \* what the worker's tmux target resolves to, and how it looks
  lastNudge,    \* last_nudge_at in state.json
  clock,
  monitor,      \* the processes
  command,
  commands,     \* that have begun; history: whether one took a window that was there
                \* for absent
  nudge         \* history: the last nudge, and whether state.json has it

vars == <<mode, bundle, pane, lastNudge, clock, monitor, command, commands, nudge>>

\* The pane of the configuration, and the one of a window made anew.
Configured == "configured"
Replaced == "replaced"
Looks == {"idle", "busy"}

Policy == [active : BOOLEAN, readOnly : BOOLEAN, requireIdle : BOOLEAN, checkPane : BOOLEAN]

Off == [pc |-> "off", kind |-> None, policy |-> None, last |-> None, seen |-> None]
Several == mode = "several"

Init ==
  /\ mode \in Modes
  /\ bundle \in Policies
  /\ pane = [id |-> Configured, look |-> "idle"]
  /\ lastNudge = None
  /\ clock = 0
  /\ monitor = [m \in Monitors |-> Off]
  /\ command = [c \in Commands |-> [pc |-> "none", op |-> None]]
  /\ commands = [begun |-> 0, misread |-> FALSE]
  /\ nudge = [at |-> None, kept |-> FALSE, pane |-> None]

-----------------------------------------------------------------------------
(* An iteration of a monitor                                               *)

At(m, pc) == monitor[m].pc = pc
Sets(m, r) == monitor' = [monitor EXCEPT ![m] = r]
External(m) == monitor[m].kind = "external"
besideMonitors == <<mode, bundle, pane, clock, command, commands>>

\* A loop sleeps and begins again; --once ends.
IterationEnds(m) ==
  Sets(m, IF monitor[m].kind = "once" THEN Off
          ELSE [monitor[m] EXCEPT !.pc = "begin", !.seen = None, !.last = None])

\* run_once reads state.json before it observes.  The loop of local-monitor.py
\* has no state: its cooldown is that of a last_nudge_at in the configuration.
ReadState(m) ==
  /\ At(m, "begin")
  /\ Sets(m, [monitor[m] EXCEPT !.pc = "observe",
                               !.last = IF External(m) THEN None ELSE lastNudge])
  /\ UNCHANGED <<besideMonitors, lastNudge, nudge>>

\* The pane and what it shows, as the observer beside the worker reports them.
Sees(m) == Sets(m, [monitor[m] EXCEPT !.pc = "judge", !.seen = pane])

\* The observer cannot be reached, or fails: no verdict is asked for.
Unreachable(m) == IterationEnds(m)

Observe(m) ==
  /\ At(m, "observe")
  /\ Sees(m) \/ Unreachable(m)
  /\ UNCHANGED <<besideMonitors, lastNudge, nudge>>

\* The gates of build_generic_actuation, after those of the verdict.
Eligible(m) ==
  LET p == monitor[m].policy
      seen == monitor[m].seen
      last == monitor[m].last
  IN  /\ ~p.readOnly /\ p.active
      /\ p.checkPane => seen.id = Configured
      /\ p.requireIdle => seen.look = "idle"
      /\ last # None => clock - last >= Cooldown

\* The verdict: a nudge; none, or a human is needed; the runner fails, which
\* ends the loop of local-monitor.py.
Judge(m) ==
  /\ At(m, "judge")
  /\ \/ Eligible(m) /\ Sets(m, [monitor[m] EXCEPT !.pc = "send"])
     \/ IterationEnds(m)
     \/ External(m) /\ Sets(m, Off)
  /\ UNCHANGED <<besideMonitors, lastNudge, nudge>>

Delivered(id) == nudge' = [at |-> clock, kept |-> FALSE, pane |-> id]

\* Mutant: the nudge goes to the tmux target, whatever pane that is now.
Send_byTarget(m) ==
  /\ At(m, "send")
  /\ Delivered(pane.id) /\ Sets(m, [monitor[m] EXCEPT !.pc = "record"])
  /\ UNCHANGED <<besideMonitors, lastNudge>>

\* The nudge goes to the pane that was observed.  tmux may fail before the paste or
\* after it, which the iteration takes for a nudge that was not sent, and the time
\* limit of the call ends the monitor.
Send(m) ==
  LET id == monitor[m].seen.id
      Fails == IterationEnds(m) \/ Sets(m, Off)
  IN  /\ At(m, "send")
      /\ \/ /\ pane.id = id /\ Delivered(id)
            /\ Sets(m, [monitor[m] EXCEPT !.pc = "record"]) \/ Fails
         \/ Fails /\ UNCHANGED nudge
      /\ UNCHANGED <<besideMonitors, lastNudge>>

\* Mutant: the state is written back as the iteration read it.
Record_stale(m) ==
  /\ At(m, "record")
  /\ IterationEnds(m)
  /\ lastNudge' = monitor[m].last /\ nudge' = [nudge EXCEPT !.kept = TRUE]
  /\ UNCHANGED besideMonitors

\* record_state after a nudge that was sent.
Record(m) ==
  /\ At(m, "record")
  /\ IterationEnds(m)
  /\ IF External(m) THEN UNCHANGED <<lastNudge, nudge>>
     ELSE lastNudge' = clock /\ nudge' = [nudge EXCEPT !.kept = TRUE]
  /\ UNCHANGED besideMonitors

-----------------------------------------------------------------------------
(* Starting and stopping                                                   *)

Loops == {m \in Monitors : monitor[m].kind = "loop"}
Begins(m, kind) ==
  /\ monitor[m] = Off
  /\ Sets(m, [Off EXCEPT !.pc = "begin", !.kind = kind, !.policy = bundle])

\* generic-remote-once and generic-loop.
StartOther(m) ==
  /\ Several
  /\ \E kind \in {"once", "external"} : Begins(m, kind)
  /\ UNCHANGED <<besideMonitors, lastNudge, nudge>>

besideCommands == <<mode, bundle, pane, lastNudge, clock, nudge>>
Goes(c, pc) == command' = [command EXCEPT ![c].pc = pc]

\* generic-remote-start, with --restart or without, and generic-remote-stop.
CommandBegin(c) ==
  \E op \in {"start", "restart", "stop"} :
    /\ commands.begun < MaxCommands[mode] /\ command[c].pc = "none"
    /\ Several \/ \A d \in Commands : command[d].pc = "none"
    /\ command' = [command EXCEPT ![c] = [pc |-> "check", op |-> op]]
    /\ commands' = [commands EXCEPT !.begun = @ + 1]
    /\ UNCHANGED <<besideCommands, monitor>>

\* Mutant: --restart does not wait for the window to be killed.
WindowCheck_noKill(c) ==
  LET op == command[c].op
  IN  /\ command[c].pc = "check"
      /\ Goes(c, CASE op = "stop" /\ Loops # {} -> "kill"
                   [] op = "restart" \/ (op = "start" /\ Loops = {}) -> "launch"
                   [] OTHER -> "none")
      /\ UNCHANGED <<besideCommands, monitor, commands>>

\* list-windows: whatever makes ssh or tmux fail is taken for a window that is not
\* there; only the time limit of the call ends the command.
WindowCheck(c) ==
  LET op == command[c].op
      there == Loops # {}
  IN  /\ command[c].pc = "check"
      /\ \/ /\ there /\ Goes(c, IF op = "start" THEN "none" ELSE "kill")
            /\ UNCHANGED commands
         \/ /\ Goes(c, IF op = "stop" THEN "none" ELSE "launch")
            /\ commands' = [commands EXCEPT !.misread = @ \/ (there /\ op # "stop")]
         \/ Goes(c, "none") /\ UNCHANGED commands
      /\ UNCHANGED <<besideCommands, monitor>>

\* kill-window by name.  A failure ends the command; the window is gone or is not.
WindowKill(c) ==
  /\ command[c].pc = "kill"
  /\ \/ \E m \in Loops : Sets(m, Off) /\ Goes(c, "none")
     \/ \E m \in Loops : Sets(m, Off) /\ command[c].op # "stop" /\ Goes(c, "launch")
     \/ Goes(c, "none") /\ UNCHANGED monitor
  /\ UNCHANGED <<besideCommands, commands>>

\* new-window, which may fail: the loop reads bundle.json when it starts.
WindowLaunch(c) ==
  /\ command[c].pc = "launch"
  /\ Goes(c, "none")
  /\ (\E m \in Monitors : Begins(m, "loop")) \/ UNCHANGED monitor
  /\ UNCHANGED <<besideCommands, commands>>

\* generic-remote-deploy: a loop that runs keeps the policy it has read.
Deploy ==
  /\ \E p \in Policies : p # bundle /\ p.checkPane = bundle.checkPane /\ bundle' = p
  /\ UNCHANGED <<mode, pane, lastNudge, clock, monitor, command, commands, nudge>>

-----------------------------------------------------------------------------
(* The worker and the time                                                 *)

Works ==
  /\ \E look \in Looks \ {pane.look} : pane' = [pane EXCEPT !.look = look]
  /\ UNCHANGED <<mode, bundle, lastNudge, clock, monitor, command, commands, nudge>>

PaneReplaced ==
  /\ pane.id = Configured
  /\ pane' = [id |-> Replaced, look |-> "idle"]
  /\ UNCHANGED <<mode, bundle, lastNudge, clock, monitor, command, commands, nudge>>

Tick ==
  /\ clock < MaxTime[mode]
  /\ clock' = clock + 1
  /\ UNCHANGED <<mode, bundle, pane, lastNudge, monitor, command, commands, nudge>>

Next ==
  \/ \E m \in Monitors :
       \/ ReadState(m) \/ Observe(m) \/ Judge(m) \/ Send(m) \/ Record(m)
       \/ StartOther(m)
  \/ \E c \in Commands :
       CommandBegin(c) \/ WindowCheck(c) \/ WindowKill(c) \/ WindowLaunch(c)
  \/ Deploy \/ Works \/ PaneReplaced \/ Tick

Spec == Init /\ [][Next]_vars

-----------------------------------------------------------------------------
(* Properties                                                              *)

\* A remote loop and nothing else, its commands one at a time and none that took its
\* window for absent.
Orderly == mode = "single" /\ ~commands.misread

\* docs/worker-monitor-architecture.md: "cooldown must have expired".  While the loop
\* is restarted and redeployed at will, in good order, two nudges are a cooldown apart,
\* unless the loop ended or tmux failed before state.json had the first.
KeepsCooldown ==
  Orderly /\ nudge.kept /\ ~nudge'.kept => clock - nudge.at >= Cooldown

\* However the monitors overlap and the worker's window is made anew between the
\* observation and the paste: no text is typed into a pane that was not configured.
OnlyConfiguredPane == bundle.checkPane => nudge.pane # Replaced

\* generic-remote-start is to refuse when there is a loop ("tmux window already
\* exists") and --restart to replace it: however calls of ssh fail, with effect or
\* without, there are never two for one worker.  Two things undo it.  A check whose
\* ssh fails is taken for an absent window (generic_control.py:1159-1160), and a
\* second loop is made even by commands one at a time; and of two commands that
\* overlap each may find no window before the other has made its own.
OneLoop == Orderly => Cardinality(Loops) <= 1
==============================================================================
