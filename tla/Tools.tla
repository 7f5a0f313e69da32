-------------------------------- MODULE Tools --------------------------------
(***************************************************************************)
(* The components beside the server.  They share no state, with it or with *)
(* each other, so that a behaviour is one of one component: kind says of   *)
(* which, and s1, s2, ... are its variables, None where it has fewer.      *)
(***************************************************************************)
EXTENDS Integers, Sequences, FiniteSets

CONSTANTS
  None, Kinds,                                                \* the components in play
  Monitors, MonitorCommands, LoopModes, Policies, Cooldown,
  MaxMonitorTime, MaxMonitorCommands,                         \* GenericMonitor
  NudgedWorkers, NudgeCommands, MaxNudgeCommands,             \* WorkerNudge
  FeedTasks, Publishers, FeedModes, QueueSize,
  MaxVersion, MaxEvents,                                      \* TaskFeed
  FeishuTasks, FeishuThreads, FeishuModes, Interval, Timeout, ListLimit,
  MaxFeishuTime, MaxRestarts, MaxFeishuCommands, MaxRows,     \* FeishuMirror
  TaskList, Gpus, SlotsPerGpu, DeployModes, MaxRuns,          \* V2Deploy
  Procs, Workers, Owner, Unnamed,                             \* GpuLock
  Threads, CaptureModes, MaxRequests, MaxPulls, MaxStarts,    \* OtelCapture
  Versions, Workspaces,                                       \* SkillHub
  Arms, StartModes, MaxRounds,                                \* WorkerStart
  RowTasks, NumberedTasks, MaxEntries, RowWorkspaces               \* LegacyRows

VARIABLES kind, s1, s2, s3, s4, s5, s6, s7, s8, s9

vars == <<kind, s1, s2, s3, s4, s5, s6, s7, s8, s9>>

-----------------------------------------------------------------------------
(* The components                                                          *)

mode == s1
command == s7
commands == s8
observation == s3

bundle == s2
pane == s3
lastNudge == s4
clock == s5
monitor == s6
nudge == s9

Monitor == INSTANCE GenericMonitor WITH
  Commands <- MonitorCommands, Modes <- LoopModes,
  MaxTime <- MaxMonitorTime, MaxCommands <- MaxMonitorCommands

config == s1
owner == s2
verdict == s4
nudges == s5

Nudge == INSTANCE WorkerNudge WITH
  Workers <- NudgedWorkers, Commands <- NudgeCommands, MaxCommands <- MaxNudgeCommands

proc == s1
clocks == s2

Lock == INSTANCE GpuLock

receiver == s2
thread == s3
body == s4
index == s5
requests == s6
local == s7
pulls == s8

Capture == INSTANCE OtelCapture WITH Modes <- CaptureModes

manifest == s1
version == s2
tmp == s3
active == s4
link == s5
sync == s6
synced == s7

Hub == INSTANCE SkillHub

workspace == s2
prompt == s3
status == s4
window == s5
start == s6

Start == INSTANCE WorkerStart WITH Modes <- StartModes

row == s2
publisher == s3
latest == s4
queue == s5
page == s6
events == s7
gap == s8

Feed == INSTANCE TaskFeed WITH Tasks <- FeedTasks, Modes <- FeedModes

table == s2
cache == s3
lastSync == s4
call == s5
time == s6
lost == s9

Feishu == INSTANCE FeishuMirror WITH
  Tasks <- FeishuTasks, Threads <- FeishuThreads, Modes <- FeishuModes,
  MaxTime <- MaxFeishuTime, MaxCommands <- MaxFeishuCommands

Deploy == INSTANCE V2Deploy WITH
  Modes <- DeployModes,
  mode <- s1, registry <- s2, session <- s3, legacy <- s4, run <- s5, runs <- s6,
  prompted <- s7

Rows == INSTANCE LegacyRows WITH
  Tasks <- RowTasks, Numbered <- NumberedTasks, Workspaces <- RowWorkspaces,
  tasks <- s1, workspaces <- s2, entries <- s3, rows <- s4

-----------------------------------------------------------------------------
None5to9 == s5 = None /\ s6 = None /\ s7 = None /\ s8 = None /\ s9 = None
None4to9 == s4 = None /\ None5to9

Init ==
  /\ kind \in Kinds
  /\ \/ kind = "monitor" /\ Monitor!Init
     \/ kind = "nudge" /\ Nudge!Init /\ s6 = None /\ s9 = None
     \/ kind = "feed" /\ Feed!Init /\ s9 = None
     \/ kind = "feishu" /\ Feishu!Init
     \/ kind = "deploy" /\ Deploy!Init /\ s8 = None /\ s9 = None
     \/ kind = "lock" /\ Lock!Init /\ None4to9
     \/ kind = "capture" /\ Capture!Init /\ s9 = None
     \/ kind = "hub" /\ Hub!Init /\ s8 = None /\ s9 = None
     \/ kind = "worker" /\ Start!Init /\ s7 = None /\ s8 = None /\ s9 = None
     \/ kind = "rows" /\ Rows!Init /\ None5to9

MonitorActs == kind = "monitor" /\ Monitor!Next /\ UNCHANGED kind
NudgeActs == kind = "nudge" /\ Nudge!Next /\ UNCHANGED <<kind, s6, s9>>
FeedActs == kind = "feed" /\ Feed!Next /\ UNCHANGED <<kind, s9>>
FeishuActs == kind = "feishu" /\ Feishu!Next /\ UNCHANGED kind
DeployActs == kind = "deploy" /\ Deploy!Next /\ UNCHANGED <<kind, s8, s9>>
LockActs == kind = "lock" /\ Lock!Next /\ UNCHANGED <<kind, s4, s5, s6, s7, s8, s9>>
CaptureActs == kind = "capture" /\ Capture!Next /\ UNCHANGED <<kind, s9>>
HubActs == kind = "hub" /\ Hub!Next /\ UNCHANGED <<kind, s8, s9>>
StartActs == kind = "worker" /\ Start!Next /\ UNCHANGED <<kind, s7, s8, s9>>
RowsActs == kind = "rows" /\ Rows!Next /\ UNCHANGED <<kind, s5, s6, s7, s8, s9>>

Next ==
  \/ MonitorActs \/ NudgeActs \/ FeedActs \/ FeishuActs \/ DeployActs
  \/ LockActs \/ CaptureActs \/ HubActs \/ StartActs \/ RowsActs

Spec == Init /\ [][Next]_vars

-----------------------------------------------------------------------------
(* The properties of the components                                        *)

KeepsCooldown == [][kind = "monitor" => Monitor!KeepsCooldown]_vars
OnlyConfiguredPane == kind = "monitor" => Monitor!OnlyConfiguredPane
OneLoop == kind = "monitor" => Monitor!OneLoop
RefusesReadOnly == kind = "nudge" => Nudge!RefusesReadOnly
ReachedIsGated == kind = "nudge" => Nudge!ReachedIsGated

NoGhost == kind = "feed" => Feed!NoGhost
DeletedStaysDeleted == kind = "feed" => Feed!DeletedStaysDeleted
CaughtUp == kind = "feed" => Feed!CaughtUp

RowsKept == [][kind = "feishu" => Feishu!KeepsRows]_vars
OneRowPerTask == kind = "feishu" => Feishu!OneRowPerTask
InitCompletes == kind = "feishu" => Feishu!InitCompletes
FirstStartedWins == kind = "rows" => Rows!FirstStartedWins

SlotsKept == kind = "deploy" => Deploy!SlotsKept
RecordedIsPrompted == kind = "deploy" => Deploy!RecordedIsPrompted

MeasuredPinned == kind = "lock" => Lock!MeasuredPinned
NoFalseAlarm == kind = "lock" => Lock!NoFalseAlarm
BypassReported == kind = "lock" => Lock!BypassReported

IndexedIsStored == kind = "capture" => Capture!IndexedIsStored
SyncedIsWhole == kind = "hub" => Hub!SyncedIsWhole
NeverRelabelled == [][kind = "worker" => Start!NeverRelabels]_vars
LaunchedArmRecorded == kind = "worker" => Start!LaunchedArmRecorded
==============================================================================
