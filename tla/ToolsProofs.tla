----------------------------- MODULE ToolsProofs -----------------------------
(***************************************************************************)
(* Proofs about the components beside the server, one after the other.     *)
(***************************************************************************)
EXTENDS Tools, FiniteSetTheorems, SequenceTheorems, WellFoundedInduction, TLAPS

-----------------------------------------------------------------------------
(* One component at a time                                                 *)

\* A behaviour of a component begins as that component does.
LEMMA OneBegins ==
  ASSUME Init
  PROVE  /\ kind = "monitor" => Monitor!Init
         /\ kind = "nudge" => Nudge!Init
         /\ kind = "feed" => Feed!Init
         /\ kind = "lock" => Lock!Init
         /\ kind = "capture" => Capture!Init
         /\ kind = "hub" => Hub!Init
         /\ kind = "worker" => Start!Init
         /\ kind = "deploy" => Deploy!Init
         /\ kind = "feishu" => Feishu!Init
         /\ kind = "rows" => Rows!Init
BY DEF Init

\* Its steps are steps of that component.
LEMMA OneActs ==
  ASSUME [Next]_vars
  PROVE  /\ UNCHANGED kind
         /\ kind = "monitor" => [Monitor!Next]_Monitor!vars
         /\ kind = "nudge" => [Nudge!Next]_Nudge!vars
         /\ kind = "feed" => [Feed!Next]_Feed!vars
         /\ kind = "lock" => [Lock!Next]_Lock!vars
         /\ kind = "capture" => [Capture!Next]_Capture!vars
         /\ kind = "hub" => [Hub!Next]_Hub!vars
         /\ kind = "worker" => [Start!Next]_Start!vars
         /\ kind = "deploy" => [Deploy!Next]_Deploy!vars
         /\ kind = "feishu" => [Feishu!Next]_Feishu!vars
         /\ kind = "rows" => [Rows!Next]_Rows!vars
<1>1. UNCHANGED vars =>
        /\ UNCHANGED kind /\ UNCHANGED Monitor!vars /\ UNCHANGED Nudge!vars
        /\ UNCHANGED Lock!vars /\ UNCHANGED Capture!vars /\ UNCHANGED Hub!vars
        /\ UNCHANGED Start!vars /\ UNCHANGED Feed!vars /\ UNCHANGED Deploy!vars
        /\ UNCHANGED Feishu!vars /\ UNCHANGED Rows!vars
  BY DEF vars, Monitor!vars, Nudge!vars, Lock!vars, Capture!vars, Hub!vars, Start!vars,
         Feed!vars, Deploy!vars, Feishu!vars, Rows!vars,
         mode, command, commands, observation, bundle, pane, lastNudge, clock, monitor, nudge,
         row, publisher, latest, queue, page, events, gap, config, owner, verdict, nudges,
         proc, clocks, receiver, thread, body, index, requests, local, pulls, manifest,
         version, tmp, active, link, sync, synced, workspace, prompt, status, window, start,
         table, cache, lastSync, call, time, lost
<1> QED
  BY <1>1 DEF Next, MonitorActs, NudgeActs, FeedActs, FeishuActs, DeployActs, LockActs,
              CaptureActs, HubActs, StartActs, RowsActs

-----------------------------------------------------------------------------
(* Nudging by hand                                                         *)

\* An observation that reached its worker has the worker's control and the mode.
Faithful(o) == o.reached => o.control = owner[o.worker] /\ o.mode = config

NudgeInv ==
  /\ command = [c \in NudgeCommands |-> command[c]]
  /\ observation # None => Faithful(observation)
  /\ \A c \in NudgeCommands : command[c].pc = "actuate" => Faithful(command[c].observation)
  /\ Nudge!ReachedIsGated

\* What a step of one command has to show.
LEMMA NudgeCommand ==
  ASSUME NudgeInv, NEW c \in NudgeCommands, NEW r,
         command' = [command EXCEPT ![c] = r], UNCHANGED <<config, owner>>,
         r.pc = "actuate" => Faithful(r.observation),
         observation' = observation \/ Faithful(observation'),
         nudges' = nudges \/ Nudge!ReachedIsGated'
  PROVE  NudgeInv'
<1>1. \A o : Faithful(o)' <=> Faithful(o)
  BY DEF Faithful
<1>2. observation' # None => Faithful(observation')
  BY DEF NudgeInv
<1>3. \A d \in NudgeCommands : command'[d].pc = "actuate" => Faithful(command'[d].observation)
  BY DEF NudgeInv
<1>4. Nudge!ReachedIsGated'
  BY DEF NudgeInv, Nudge!ReachedIsGated, Nudge!Ours
<1>5. command' = [d \in NudgeCommands |-> command'[d]]
  BY DEF NudgeInv
<1> QED
  BY <1>1, <1>2, <1>3, <1>4, <1>5 DEF NudgeInv, Faithful

\* Every step keeps it: the gates are those of an observation that holds.
LEMMA NudgeStep ==
  ASSUME NudgeInv, [Nudge!Next]_Nudge!vars
  PROVE  NudgeInv'
<1>1. CASE UNCHANGED Nudge!vars
  BY <1>1 DEF Nudge!vars, NudgeInv, Faithful, Nudge!ReachedIsGated, Nudge!Ours
<1>2. ASSUME NEW c \in NudgeCommands, NEW r, r.pc # "actuate", Nudge!Begins(c, r)
      PROVE  NudgeInv'
  BY <1>2, NudgeCommand DEF Nudge!Begins, Nudge!Sets, Nudge!files
<1>3. ASSUME NEW c \in NudgeCommands, Nudge!ObserveBegin(c)
      PROVE  NudgeInv'
  <2>1. PICK w \in NudgedWorkers : Nudge!Begins(c, [pc |-> "observe", worker |-> w])
    BY <1>3 DEF Nudge!ObserveBegin
  <2> QED
    BY <1>2, <2>1
<1>4. ASSUME NEW c \in NudgeCommands, Nudge!JudgeBegin(c)
      PROVE  NudgeInv'
  BY <1>2, <1>4 DEF Nudge!JudgeBegin
<1>5. ASSUME NEW c \in NudgeCommands, Nudge!ActuateBegin(c)
      PROVE  NudgeInv'
  <2>1. PICK override \in Nudge!MonitorModes \cup {None} :
               Nudge!Begins(c, [pc |-> "actuate", observation |-> observation,
                                override |-> override])
    BY <1>5 DEF Nudge!ActuateBegin
  <2>2. Faithful(observation)
    BY <1>5 DEF Nudge!ActuateBegin, NudgeInv
  <2> QED
    BY <2>1, <2>2, NudgeCommand DEF Nudge!Begins, Nudge!Sets, Nudge!files
<1>6. ASSUME NEW c \in NudgeCommands, Nudge!ObserveEnd(c)
      PROVE  NudgeInv'
  <2>1. Faithful(observation')
    BY <1>6 DEF Nudge!ObserveEnd, Nudge!Observed, Nudge!Failed, Faithful
  <2> QED
    BY <1>6, <2>1, NudgeCommand DEF Nudge!ObserveEnd, Nudge!Ends, Nudge!Sets, Nudge!Idle
<1>7. ASSUME NEW c \in NudgeCommands, Nudge!JudgeEnd(c)
      PROVE  NudgeInv'
  BY <1>7, NudgeCommand DEF Nudge!JudgeEnd, Nudge!Ends, Nudge!Sets, Nudge!Idle
<1>8. ASSUME NEW c \in NudgeCommands, Nudge!ActuateEnd(c)
      PROVE  NudgeInv'
  <2> DEFINE o == command[c].observation
             override == command[c].override
             n == [worker |-> o.worker, reached |-> o.reached, override |-> override]
  <2>1. Faithful(o)
    BY <1>8 DEF Nudge!ActuateEnd, NudgeInv
  <2>2. nudges' = nudges \/ (Nudge!WillSend(o, override) /\ nudges' = nudges \cup {n})
    BY <1>8 DEF Nudge!ActuateEnd
  <2>3. CASE Nudge!WillSend(o, override) /\ nudges' = nudges \cup {n}
    <3>1. IF o.reached THEN Nudge!Ours(o.worker) /\ (override = None => config = "active")
          ELSE override = "active"
      BY <2>1, <2>3 DEF Nudge!WillSend, Nudge!Control, Nudge!ModeOf, Nudge!Ours, Faithful
    <3>2. UNCHANGED <<config, owner>>
      BY <1>8 DEF Nudge!ActuateEnd, Nudge!Ends
    <3>3. ASSUME NEW m \in nudges'
          PROVE  IF m.reached THEN Nudge!Ours(m.worker) /\ (m.override = None => config = "active")
                 ELSE m.override = "active"
      <4>1. CASE m \in nudges
        BY <4>1 DEF NudgeInv, Nudge!ReachedIsGated
      <4>2. CASE m = n
        BY <3>1, <4>2
      <4> QED
        BY <2>3, <3>3, <4>1, <4>2
    <3>4. Nudge!ReachedIsGated'
      BY <3>2, <3>3 DEF Nudge!ReachedIsGated, Nudge!Ours
    <3> HIDE DEF o, override, n
    <3> QED
      BY <1>8, <3>2, <3>4, NudgeCommand
      DEF Nudge!ActuateEnd, Nudge!Ends, Nudge!Sets, Nudge!Idle, Nudge!files
  <2> QED
    BY <1>8, <2>2, <2>3, NudgeCommand
    DEF Nudge!ActuateEnd, Nudge!Ends, Nudge!Sets, Nudge!Idle, Nudge!files
<1> QED
  BY <1>1, <1>3, <1>4, <1>5, <1>6, <1>7, <1>8 DEF Nudge!Next

\* A nudge goes into the pane of a worker of the v2 control plane that is not
\* read-only, or the observation behind it failed and --mode active was given, for
\* any number of workers, commands at once and files written over.
THEOREM NudgesAreGated == Spec => []ReachedIsGated
<1>1. Nudge!Init => NudgeInv
  BY DEF Nudge!Init, Nudge!Idle, NudgeInv, Nudge!ReachedIsGated
<1>2. Init => (kind = "nudge" => NudgeInv)
  BY <1>1, OneBegins
<1>3. (kind = "nudge" => NudgeInv) /\ [Next]_vars => (kind = "nudge" => NudgeInv)'
  BY OneActs, NudgeStep
<1>4. (kind = "nudge" => NudgeInv) => ReachedIsGated
  BY DEF NudgeInv, ReachedIsGated
<1> QED
  BY <1>2, <1>3, <1>4, PTL DEF Spec

-----------------------------------------------------------------------------
(* The skill hub                                                           *)

\* Where a sync is, what it has copied and moved is whole; what the last one that
\* answered has put in place has not been touched since.
HubInv ==
  /\ manifest \in Versions
  /\ version = [v \in Versions |-> version[v]] /\ tmp = [v \in Versions |-> tmp[v]]
  /\ sync.pc # "none" => sync.version \in Versions
  /\ sync.pc \in {"remove", "replace"} => tmp[sync.version] = "whole"
  /\ sync.pc \in {"unlink", "link"} => version[sync.version] = "whole"
  /\ sync = [pc |-> sync.pc, version |-> sync.version]
  /\ synced # None => sync.pc = "none" /\ active = synced /\ version[synced] = "whole"

\* A run that goes on is where it was, with its version.
LEMMA HubGoes ==
  ASSUME NEW pc, sync = [pc |-> sync.pc, version |-> sync.version], Hub!Goes(pc)
  PROVE  sync' = [pc |-> pc, version |-> sync.version]
BY DEF Hub!Goes

\* Every step of a sync keeps it, wherever runs before it have ended.
LEMMA HubStep ==
  ASSUME HubInv, [Hub!Next]_Hub!vars
  PROVE  HubInv'
<1> USE DEF HubInv
<1>1. CASE UNCHANGED Hub!vars
  BY <1>1 DEF Hub!vars
<1>2. CASE Hub!ManifestChanged
  BY <1>2 DEF Hub!ManifestChanged
<1>3. CASE Hub!Begin
  BY <1>3 DEF Hub!Begin, Hub!NoSync, Hub!besideSync
<1>4. CASE Hub!ClearTmp
  BY <1>4, HubGoes DEF Hub!ClearTmp, Hub!besideSync, Hub!Removes, Hub!Changes, Hub!NoSync, Hub!At
<1>5. CASE Hub!CopyTmp
  <2>1. sync.pc = "copy" /\ UNCHANGED <<manifest, version, active, synced>> /\ synced = None
    BY <1>5 DEF Hub!CopyTmp, Hub!besideSync, Hub!At
  <2>2. CASE tmp' = [tmp EXCEPT ![sync.version] = "whole"] /\ Hub!Goes("remove")
    BY <2>1, <2>2, HubGoes
  <2>3. CASE tmp' = [tmp EXCEPT ![sync.version] = "partial"] /\ sync' = Hub!NoSync
    BY <2>1, <2>3 DEF Hub!NoSync
  <2> QED
    BY <1>5, <2>2, <2>3 DEF Hub!CopyTmp, Hub!Changes
<1>6. CASE Hub!RemoveVersion
  BY <1>6, HubGoes
  DEF Hub!RemoveVersion, Hub!besideSync, Hub!Removes, Hub!Changes, Hub!NoSync, Hub!At
<1>7. CASE Hub!ReplaceVersion
  <2>1. sync' = [pc |-> "unlink", version |-> sync.version]
    BY <1>7, HubGoes DEF Hub!ReplaceVersion
  <2>2. sync.pc = "replace" /\ sync.version \in Versions /\ synced' = None
      /\ manifest' = manifest
    BY <1>7 DEF Hub!ReplaceVersion, Hub!besideSync, Hub!At
  <2>3. /\ version' = [version EXCEPT ![sync.version] = "whole"]
        /\ tmp' = [tmp EXCEPT ![sync.version] = "none"]
    BY <1>7, <2>2 DEF Hub!ReplaceVersion
  <2> QED
    BY <2>1, <2>2, <2>3
<1>8. CASE Hub!Unlink
  BY <1>8, HubGoes DEF Hub!Unlink, Hub!NoSync, Hub!besideSync, Hub!At
<1>9. CASE Hub!Link
  BY <1>9 DEF Hub!Link, Hub!NoSync, Hub!besideSync, Hub!At
<1>10. CASE Hub!Crash
  BY <1>10 DEF Hub!Crash, Hub!besideSync, Hub!NoSync
<1>11. ASSUME NEW w \in Workspaces, Hub!LinkWorkspace(w) \/ Hub!DirectoryMade(w)
       PROVE  HubInv'
  BY <1>11 DEF Hub!LinkWorkspace, Hub!DirectoryMade
<1> QED
  BY <1>1, <1>2, <1>3, <1>4, <1>5, <1>6, <1>7, <1>8, <1>9, <1>10, <1>11 DEF Hub!Next

\* A sync that answered leaves every linked workspace with the whole of the version
\* it synced, however many runs had ended half way before it.
THEOREM SyncIsWhole == Spec => []SyncedIsWhole
<1>1. Hub!Init => HubInv
  BY DEF Hub!Init, Hub!NoSync, HubInv
<1>2. Init => (kind = "hub" => HubInv)
  BY <1>1, OneBegins
<1>3. (kind = "hub" => HubInv) /\ [Next]_vars => (kind = "hub" => HubInv)'
  BY OneActs, HubStep
<1>4. (kind = "hub" => HubInv) => SyncedIsWhole
  BY DEF HubInv, SyncedIsWhole, Hub!SyncedIsWhole, Hub!Reached
<1> QED
  BY <1>2, <1>3, <1>4, PTL DEF Spec

-----------------------------------------------------------------------------
(* The start of a worker                                                   *)

StatusRecs == [arm : Arms, rounds : Int, pane : BOOLEAN]
Pcs == {"none", "window", "prompt", "status", "launch", "identity", "save"}
Starts == [pc : Pcs, arm : Arms \cup {None}, dry : BOOLEAN, copy : StatusRecs \cup {None}]
Windows == [alive : BOOLEAN, arm : Arms \cup {None}, copy : StatusRecs \cup {None}]

StartTypes ==
  /\ start \in Starts /\ window \in Windows \cup {None} /\ status \in StatusRecs \cup {None}
  /\ prompt \in Arms \cup {None}
  /\ start.pc # "none" => start.arm \in Arms
  /\ start.pc \in {"launch", "identity", "save"} => status \in StatusRecs
  /\ start.pc = "save" => start.copy \in StatusRecs
  /\ window # None => status \in StatusRecs
  /\ window # None /\ window.copy # None => window.copy \in StatusRecs

\* Between the check for a window and the launch there is none; from the launch on
\* status.json, and every copy of it that will be written back, has the arm of the
\* prompt, until a start that has found no window writes both anew.
SameArm ==
  /\ ~start.dry
  /\ start.pc \in {"prompt", "status", "launch"} => window = None
  /\ start.pc = "status" => prompt = start.arm
  /\ start.pc \in {"launch", "identity", "save"} => status.arm = prompt
  /\ start.pc = "save" => start.copy.arm = prompt
  /\ window # None =>
       /\ status.arm = prompt /\ window.arm \in {None, prompt}
       /\ window.copy # None => window.copy.arm = prompt

StartInv == StartTypes /\ (mode = "launch" => SameArm)

\* Every step keeps it, wherever starts fail and whatever the worker writes back.
LEMMA StartStep ==
  ASSUME StartInv, [Start!Next]_Start!vars
  PROVE  StartInv'
<1> USE DEF StartInv, StartTypes, SameArm, Starts, Windows, Pcs
<1>1. CASE UNCHANGED Start!vars
  BY <1>1 DEF Start!vars
<1>2. CASE Start!InitWorkspace \/ Start!PromptGenerated
  BY <1>2 DEF Start!InitWorkspace, Start!PromptGenerated
<1>3. CASE Start!Begin
  BY <1>3 DEF Start!Begin, Start!NoStart
<1>4. CASE Start!WindowCheck
  <2>1. start.pc = "window" /\ UNCHANGED <<mode, workspace, prompt, status, window>>
    BY <1>4 DEF Start!WindowCheck, Start!At
  <2>2. CASE start' = Start!NoStart
    BY <2>1, <2>2 DEF Start!NoStart
  <2>3. CASE start' = [start EXCEPT !.pc = "prompt"] /\ (window = None \/ start.dry)
    BY <2>1, <2>3
  <2> QED
    BY <1>4, <2>2, <2>3 DEF Start!WindowCheck, Start!Goes
<1>5. CASE Start!WritePrompt
  <2>1. /\ start.pc = "prompt" /\ start' = [start EXCEPT !.pc = "status"] /\ prompt' = start.arm
        /\ UNCHANGED <<mode, workspace, status, window>>
    BY <1>5 DEF Start!WritePrompt, Start!At, Start!Goes
  <2>2. /\ start'.pc = "status" /\ start'.arm = start.arm /\ start'.dry = start.dry
        /\ start' \in Starts /\ start.arm \in Arms
    BY <2>1
  <2>3. StartTypes'
    BY <2>1, <2>2
  <2>4. mode = "launch" => SameArm'
    BY <2>1, <2>2
  <2> QED
    BY <2>1, <2>3, <2>4
<1>6. CASE Start!WriteStatus
  <2>1. start.pc = "status" /\ start.arm \in Arms /\ UNCHANGED <<mode, workspace, prompt, window>>
    BY <1>6 DEF Start!WriteStatus, Start!At
  <2>2. status' \in StatusRecs /\ status'.arm = start.arm
    BY <1>6, <2>1 DEF Start!WriteStatus, StatusRecs
  <2>3. CASE start.dry /\ start' = Start!NoStart
    BY <2>1, <2>2, <2>3 DEF Start!NoStart
  <2>4. CASE ~start.dry /\ start' = [start EXCEPT !.pc = "launch"]
    BY <2>1, <2>2, <2>4
  <2> QED
    BY <1>6, <2>3, <2>4 DEF Start!WriteStatus, Start!Goes
<1>7. CASE Start!Launch
  BY <1>7 DEF Start!Launch, Start!At, Start!Goes, Start!NewWindow
<1>8. CASE Start!ReadIdentity
  BY <1>8 DEF Start!ReadIdentity, Start!At
<1>9. CASE Start!SaveIdentity
  BY <1>9 DEF Start!SaveIdentity, Start!At, Start!NoStart, StatusRecs
<1>10. CASE Start!Fail
  BY <1>10 DEF Start!Fail, Start!NoStart
<1>11. CASE Start!ReadsPrompt
  BY <1>11 DEF Start!ReadsPrompt, Start!besideWorker, Start!Works
<1>12. CASE Start!ReadsStatus
  BY <1>12 DEF Start!ReadsStatus, Start!besideWorker, Start!Works
<1>13. CASE Start!WritesStatus
  BY <1>13 DEF Start!WritesStatus, Start!besideWorker, Start!Works, StatusRecs
<1>14. CASE Start!Exits
  BY <1>14 DEF Start!Exits, Start!besideWorker, Start!Works
<1>15. CASE Start!WindowClosed
  BY <1>15 DEF Start!WindowClosed, Start!besideWorker
<1> QED
  BY <1>1, <1>2, <1>3, <1>4, <1>5, <1>6, <1>7, <1>8, <1>9, <1>10, <1>11, <1>12, <1>13, <1>14,
     <1>15 DEF Start!Next

\* What status.json records is the arm the worker was given, for any arms, however
\* starts fail, workers exit and windows are closed.
THEOREM ArmIsRecorded == Spec => []LaunchedArmRecorded
<1>1. Start!Init => StartInv
  BY DEF Start!Init, Start!NoStart, StartInv, StartTypes, SameArm, Starts, Pcs
<1>2. Init => (kind = "worker" => StartInv)
  BY <1>1, OneBegins
<1>3. (kind = "worker" => StartInv) /\ [Next]_vars => (kind = "worker" => StartInv)'
  BY OneActs, StartStep
<1>4. (kind = "worker" => StartInv) => LaunchedArmRecorded
  BY DEF StartInv, SameArm, LaunchedArmRecorded, Start!LaunchedArmRecorded,
         Start!Works
<1> QED
  BY <1>2, <1>3, <1>4, PTL DEF Spec

-----------------------------------------------------------------------------
(* The lock of a GPU                                                       *)

ProcRecs ==
  [pc : {"none", "starting", "opened", "locked", "running", "ended"},
   way : {"gpu-run", "gpu_lock", "direct", "stray"}, file : {"uuid", "index"},
   pinned : BOOLEAN, wrapper : BOOLEAN, attached : BOOLEAN]

\* A process that is none is NoProc, and a wrapper is there until its command runs;
\* gpu_lock.sh is none any more when it has become the command.
GoodProc(r) ==
  /\ r \in ProcRecs
  /\ r.pc = "none" => r = Lock!NoProc
  /\ r.wrapper => r.way = "gpu-run"
  /\ r.pc \in {"starting", "opened"} => r.way = "gpu_lock" \/ r.wrapper
  /\ r.pc \in {"locked", "ended"} => r.wrapper

ProcsGood == proc \in [Procs -> ProcRecs] /\ \A p \in Procs : GoodProc(proc[p])

\* A step of a command changes its process alone.
Moved(p, r) ==
  /\ proc' = [proc EXCEPT ![p] = r] /\ GoodProc(r)

\* A step of one command leaves the processes good, and the others as they were.
LEMMA ProcMoves ==
  ASSUME ProcsGood, NEW p \in Procs, NEW r, Moved(p, r)
  PROVE  ProcsGood' /\ proc'[p] = r /\ \A q \in Procs \ {p} : proc'[q] = proc[q]
BY DEF ProcsGood, GoodProc, Moved, Lock!NoProc

\* A process that goes on is what it was, but for its pc.
LEMMA ProcGoes ==
  ASSUME ProcsGood, NEW p \in Procs, NEW pc, Lock!Goes(p, pc)
  PROVE  proc' = [proc EXCEPT ![p] = [proc[p] EXCEPT !.pc = pc]]
BY DEF Lock!Goes, ProcsGood

\* Three kinds of step: a process starts, which no observation has seen end; it goes
\* on, as what it was; or it ends.
StartsNew(p) == proc[p].pc = "none" /\ p \notin observation.gone
Continues(p, r) ==
  /\ proc[p].pc # "none" /\ r.pc # "none" /\ r.way = proc[p].way
  /\ r.attached => proc[p].attached
  /\ proc[p].pc = "running" /\ ~Lock!Wrapped(p) => r.pc = "running"
  /\ \/ observation' = observation
     \/ \E used \in BOOLEAN : observation' = [observation EXCEPT !.used = @ \/ used]
Ended(p, r) ==
  /\ proc[p].pc # "none" /\ r = Lock!NoProc
  /\ observation' = [observation EXCEPT !.gone = @ \cup {p}]

CommandOf(p) ==
  \/ Lock!Start(p) \/ Lock!OpenFile(p) \/ Lock!Lock(p) \/ Lock!Pin(p) \/ Lock!CommandEnds(p)
  \/ Lock!Reset(p) \/ Lock!WrapperKilled(p) \/ Lock!Detached(p)

\* The exclusion of flock and the clocks: what the step does to both.
LocksRightly(p, r) ==
  /\ r.pc \in {"locked", "running", "ended"} /\ r.way \in {"gpu-run", "gpu_lock"} =>
       \/ Lock!HoldsLock(p) /\ r.file = proc[p].file
       \/ \A q \in Procs : Lock!HoldsLock(q) => proc[q].file # r.file
  /\ \/ clocks' = clocks \/ clocks' = "pinned"
     \/ Lock!HoldsLock(p) /\ r.pc = "none" /\ clocks' = proc[p].file
  /\ r.pc = "running" /\ r.way = "gpu-run" /\ r.pinned =>
       \/ clocks' = "pinned"
       \/ /\ clocks' = clocks /\ proc[p].pc = "running" /\ proc[p].way = "gpu-run"
          /\ proc[p].pinned /\ r.file = proc[p].file

\* Every step of a command is of one of these kinds, and locks rightly.
LEMMA CommandStep ==
  ASSUME ProcsGood, NEW p \in Procs, CommandOf(p)
  PROVE  \E r \in ProcRecs :
           /\ Moved(p, r) /\ LocksRightly(p, r)
           /\ (StartsNew(p) /\ observation' = observation) \/ Continues(p, r) \/ Ended(p, r)
<1> DEFINE Goal(r) == /\ Moved(p, r) /\ LocksRightly(p, r)
                      /\ \/ StartsNew(p) /\ observation' = observation
                         \/ Continues(p, r) \/ Ended(p, r)
<1>0. GoodProc(proc[p]) /\ proc[p] \in ProcRecs
  BY DEF ProcsGood
<1>1. CASE /\ Lock!Ends(p) /\ proc[p].pc # "none"
           /\ clocks' = clocks \/ (Lock!HoldsLock(p) /\ clocks' = proc[p].file)
  <2>1. Lock!NoProc \in ProcRecs /\ GoodProc(Lock!NoProc)
    BY DEF Lock!NoProc, ProcRecs, GoodProc
  <2>2. Goal(Lock!NoProc)
    BY <1>1, <2>1 DEF Lock!Ends, Ended, Moved, LocksRightly, Lock!NoProc
  <2> QED
    BY <2>1, <2>2
<1>2. CASE Lock!Start(p)
  <2> DEFINE PC(way) == IF way \in {"direct", "stray"} THEN "running" ELSE "starting"
             here == Owner[p] \in Workers
             wraps(way) == way = "gpu-run"
  <2>1. PICK way \in Lock!Ways, file \in Lock!LockFiles :
          proc' = [proc EXCEPT ![p] =
            [pc |-> PC(way), way |-> way, file |-> file, pinned |-> FALSE,
             wrapper |-> wraps(way), attached |-> here]]
    BY <1>2 DEF Lock!Start
  <2> DEFINE r == [pc |-> PC(way), way |-> way, file |-> file, pinned |-> FALSE,
                   wrapper |-> wraps(way), attached |-> here]
  <2>4. here \in BOOLEAN /\ wraps(way) \in BOOLEAN
    OBVIOUS
  <2>6. PC(way) \in {"running", "starting"} /\ file \in {"uuid", "index"}
    BY DEF Lock!LockFiles
  <2>5. proc' = [proc EXCEPT ![p] = r]
    BY <2>1
  <2>7. r \in ProcRecs
    <3> HIDE DEF PC, here, wraps
    <3> QED
      BY <2>4, <2>6 DEF ProcRecs, Lock!Ways
  <2>2. r \in ProcRecs /\ GoodProc(r)
    BY <2>7 DEF GoodProc, Lock!Ways
  <2>3. LocksRightly(p, r)
    BY <1>2 DEF LocksRightly, Lock!Start, Lock!Ways
  <2>8. Goal(r)
    BY <1>2, <2>5, <2>2, <2>3 DEF StartsNew, Moved, Lock!Start, Lock!At
  <2> QED
    BY <2>2, <2>8
<1>3. ASSUME NEW pc \in {"opened", "locked", "running", "ended"}, Lock!Goes(p, pc),
             GoodProc([proc[p] EXCEPT !.pc = pc]),
             LocksRightly(p, [proc[p] EXCEPT !.pc = pc]), proc[p].pc # "none",
             proc[p].pc = "running" => Lock!Wrapped(p),
             \/ observation' = observation
             \/ \E used \in BOOLEAN : observation' = [observation EXCEPT !.used = @ \/ used]
      PROVE  \E r \in ProcRecs : Goal(r)
  <2> DEFINE r == [proc[p] EXCEPT !.pc = pc]
  <2>1. r \in ProcRecs /\ r.pc = pc /\ r.way = proc[p].way /\ r.attached = proc[p].attached
    BY <1>0 DEF ProcRecs
  <2>2. Moved(p, r)
    BY <1>3, ProcGoes DEF Moved
  <2>3. Continues(p, r)
    BY <1>3, <2>1 DEF Continues
  <2>4. Goal(r)
    BY <1>3, <2>2, <2>3
  <2> QED
    BY <2>1, <2>4
<1>4. CASE Lock!OpenFile(p)
  BY <1>0, <1>3, <1>4 DEF Lock!OpenFile, Lock!At, GoodProc, ProcRecs, LocksRightly
<1>5. CASE Lock!Lock(p)
  BY <1>0, <1>3, <1>5 DEF Lock!Lock, Lock!At, GoodProc, ProcRecs, LocksRightly
<1>6. CASE Lock!Pin(p)
  <2>1. PICK pins \in BOOLEAN :
          /\ clocks' = IF pins THEN "pinned" ELSE clocks
          /\ proc' = [proc EXCEPT ![p].pc = "running", ![p].pinned = pins]
    BY <1>6 DEF Lock!Pin
  <2> DEFINE r == [proc[p] EXCEPT !.pc = "running", !.pinned = pins]
  <2>2. /\ r \in ProcRecs /\ r.pc = "running" /\ r.way = "gpu-run" /\ r.wrapper
        /\ r.attached = proc[p].attached /\ r.pinned = pins /\ r.file = proc[p].file
        /\ proc[p].pc = "locked" /\ proc[p].way = "gpu-run"
    BY <1>0, <1>6 DEF ProcRecs, GoodProc, Lock!Pin, Lock!At
  <2>3. proc' = [proc EXCEPT ![p] = r]
    BY <2>1 DEF ProcsGood
  <2>4. Moved(p, r)
    BY <2>2, <2>3 DEF Moved, GoodProc
  <2>5. LocksRightly(p, r)
    BY <2>1, <2>2 DEF LocksRightly, Lock!HoldsLock, Lock!Wrapped
  <2>6. Continues(p, r)
    BY <1>6, <2>2 DEF Continues, Lock!Pin
  <2>7. Goal(r)
    BY <2>4, <2>5, <2>6
  <2> QED
    BY <2>2, <2>7
<1>7. CASE Lock!CommandEnds(p)
  <2>1. CASE Lock!Ends(p)
    BY <1>1, <1>7, <2>1 DEF Lock!CommandEnds, Lock!At
  <2>2. CASE proc[p].wrapper /\ Lock!Goes(p, "ended") /\ observation' = observation
    BY <1>0, <1>3, <1>7, <2>2
    DEF Lock!CommandEnds, Lock!At, GoodProc, ProcRecs, LocksRightly, Lock!HoldsLock, Lock!Wrapped
  <2> QED
    BY <1>7, <2>1, <2>2 DEF Lock!CommandEnds
<1>8. CASE Lock!Reset(p)
  BY <1>0, <1>1, <1>8 DEF Lock!Reset, Lock!At, GoodProc, Lock!HoldsLock, Lock!Wrapped
<1>9. CASE Lock!WrapperKilled(p)
  <2>1. CASE Lock!Ends(p)
    BY <1>0, <1>1, <1>9, <2>1 DEF Lock!WrapperKilled, Lock!Wrapped, GoodProc, Lock!NoProc
  <2>2. CASE /\ Lock!At(p, "running") /\ proc[p].wrapper /\ observation' = observation
             /\ proc' = [proc EXCEPT ![p].wrapper = FALSE, ![p].attached = FALSE]
    <3> DEFINE r == [proc[p] EXCEPT !.wrapper = FALSE, !.attached = FALSE]
    <3>1. /\ r \in ProcRecs /\ r.pc = "running" /\ r.way = "gpu-run"
          /\ ~r.attached /\ ~r.wrapper /\ r.file = proc[p].file /\ r.pinned = proc[p].pinned
      BY <1>0, <2>2 DEF ProcRecs, GoodProc, Lock!At
    <3>2. proc' = [proc EXCEPT ![p] = r]
      BY <2>2 DEF ProcsGood
    <3>3. Moved(p, r)
      BY <3>1, <3>2 DEF Moved, GoodProc
    <3>4. LocksRightly(p, r)
      BY <1>0, <1>9, <2>2, <3>1
      DEF LocksRightly, Lock!WrapperKilled, Lock!HoldsLock, Lock!Wrapped, Lock!At, GoodProc
    <3>5. Continues(p, r)
      BY <1>0, <2>2, <3>1 DEF Continues, Lock!At, GoodProc
    <3>6. Goal(r)
      BY <3>3, <3>4, <3>5
    <3> QED
      BY <3>1, <3>6
  <2> QED
    BY <1>9, <2>1, <2>2 DEF Lock!WrapperKilled
<1>10. CASE Lock!Detached(p)
  <2> DEFINE r == [proc[p] EXCEPT !.attached = FALSE]
  <2>1. /\ r \in ProcRecs /\ r.pc = proc[p].pc /\ r.way = proc[p].way /\ ~r.attached
        /\ r.wrapper = proc[p].wrapper /\ r.file = proc[p].file /\ r.pinned = proc[p].pinned
    BY <1>0 DEF ProcRecs
  <2>7. proc[p].pc # "none"
    BY <1>0, <1>10 DEF GoodProc, Lock!Detached, Lock!NoProc
  <2>2. proc' = [proc EXCEPT ![p] = r]
    BY <1>10 DEF Lock!Detached, ProcsGood
  <2>3. Moved(p, r)
    BY <1>0, <2>1, <2>2, <2>7 DEF Moved, GoodProc
  <2>4. LocksRightly(p, r)
    BY <1>0, <1>10, <2>1 DEF LocksRightly, Lock!Detached, Lock!HoldsLock, Lock!Wrapped
  <2>5. Continues(p, r)
    BY <1>10, <2>1, <2>7 DEF Continues, Lock!Detached
  <2>6. Goal(r)
    BY <2>3, <2>4, <2>5
  <2> QED
    BY <2>1, <2>6
<1> QED
  BY <1>2, <1>4, <1>5, <1>6, <1>7, <1>8, <1>9, <1>10 DEF CommandOf

\* A lock file excludes, and who measures under gpu-run.sh has the clocks pinned.
LockInv ==
  /\ ProcsGood
  /\ \A p, q \in Procs :
       Lock!HoldsLock(p) /\ Lock!HoldsLock(q) /\ proc[p].file = proc[q].file => p = q
  /\ Lock!MeasuredPinned

\* Every step keeps it: the lock is free when it is taken, and the clocks are reset by
\* who holds it.
LEMMA LockStep ==
  ASSUME LockInv, [Lock!Next]_Lock!vars
  PROVE  LockInv'
<1>1. CASE UNCHANGED proc /\ UNCHANGED clocks
  BY <1>1 DEF LockInv, ProcsGood, Lock!HoldsLock, Lock!Wrapped, Lock!MeasuredPinned, Lock!At
<1>2. ASSUME NEW p \in Procs, CommandOf(p)
      PROVE  LockInv'
  <2>1. PICK r \in ProcRecs : Moved(p, r) /\ LocksRightly(p, r)
    BY <1>2, CommandStep DEF LockInv
  <2>2. ProcsGood' /\ proc'[p] = r /\ \A q \in Procs \ {p} : proc'[q] = proc[q]
    BY <2>1, ProcMoves DEF LockInv
  <2>3. \A q \in Procs \ {p} : Lock!HoldsLock(q)' <=> Lock!HoldsLock(q)
    BY <2>2 DEF Lock!HoldsLock, Lock!Wrapped
  <2>4. Lock!HoldsLock(p)' =>
          \/ Lock!HoldsLock(p) /\ r.file = proc[p].file
          \/ \A q \in Procs : Lock!HoldsLock(q) => proc[q].file # r.file
    BY <2>1, <2>2 DEF Lock!HoldsLock, Lock!Wrapped, LocksRightly
  <2>5. \A q, t \in Procs :
          Lock!HoldsLock(q)' /\ Lock!HoldsLock(t)' /\ proc'[q].file = proc'[t].file => q = t
    BY <2>2, <2>3, <2>4 DEF LockInv
  <2>6. ASSUME NEW q \in Procs, proc'[q].way = "gpu-run", proc'[q].pc = "running",
               proc'[q].pinned, clocks' # "pinned"
        PROVE  clocks' # proc'[q].file /\ clocks' \in Lock!LockFiles
    <3>1. CASE q = p
      <4>1. /\ clocks' = clocks /\ proc[p].pc = "running" /\ proc[p].way = "gpu-run"
            /\ proc[p].pinned /\ r.file = proc[p].file
        BY <2>1, <2>2, <2>6, <3>1 DEF LocksRightly
      <4> QED
        BY <2>2, <2>6, <3>1, <4>1 DEF LockInv, Lock!MeasuredPinned, Lock!At
    <3>2. CASE q # p
      <4>1. /\ proc[q] = proc'[q] /\ Lock!HoldsLock(q)
            /\ clocks # "pinned" => clocks # proc[q].file /\ clocks \in Lock!LockFiles
        BY <2>2, <2>6, <3>2 DEF LockInv, Lock!MeasuredPinned, Lock!At, Lock!HoldsLock, Lock!Wrapped
      <4>2. Lock!HoldsLock(p) => proc[p].file # proc[q].file
        BY <3>2, <4>1 DEF LockInv
      <4>3. proc[p].file \in Lock!LockFiles
        BY DEF LockInv, ProcsGood, ProcRecs, Lock!LockFiles
      <4> QED
        BY <2>1, <2>6, <4>1, <4>2, <4>3 DEF LocksRightly
    <3> QED
      BY <3>1, <3>2
  <2> QED
    BY <2>2, <2>5, <2>6 DEF LockInv, Lock!MeasuredPinned, Lock!At
<1> QED
  BY <1>1, <1>2
  DEF Lock!Next, Lock!vars, CommandOf, Lock!ObserveLock, Lock!ObserveTree, Lock!ObserveApps,
      Lock!Reports, Lock!ObservationLost

\* While a command runs under a gpu-run.sh that could pin the clocks they stay pinned,
\* for any number of wrappers that wait, end, fail and are killed, and for clocks that
\* cannot always be pinned or reset; only a wrapper of another lock file undoes it.
THEOREM MeasuresPinned == Spec => []MeasuredPinned
<1>1. Lock!Init => LockInv
  BY DEF Lock!Init, Lock!NoProc, LockInv, ProcsGood, GoodProc, ProcRecs, Lock!HoldsLock,
         Lock!Wrapped, Lock!MeasuredPinned, Lock!At
<1>2. Init => (kind = "lock" => LockInv)
  BY <1>1, OneBegins
<1>3. (kind = "lock" => LockInv) /\ [Next]_vars => (kind = "lock" => LockInv)'
  BY OneActs, LockStep
<1>4. (kind = "lock" => LockInv) => MeasuredPinned
  BY DEF LockInv, MeasuredPinned
<1> QED
  BY <1>2, <1>3, <1>4, PTL DEF Spec

\* What an observation has read, and what it must not forget: a process it knows the
\* end of is none; who had the file open is wrapped or has ended; the bare commands
\* run still or have ended, and those that are attached are in the tree.
Observations ==
  [pc : {"idle", "tree", "apps", "done"}, worker : Workers, fuser : SUBSET Procs,
   tree : SUBSET Procs, tools : SUBSET Procs, reported : SUBSET Procs, ok : BOOLEAN,
   failed : BOOLEAN, errors : BOOLEAN, gone : SUBSET Procs, opened : SUBSET Procs, present : SUBSET Procs, used : BOOLEAN]

EndedIsNone == \A p \in observation.gone : proc[p] = Lock!NoProc

OpenedIsWrapped == \A p \in observation.opened \ observation.gone : Lock!Wrapped(p)

PresentRuns ==
  \A p \in observation.present \ observation.gone :
    proc[p].pc = "running" /\ ~Lock!Wrapped(p) /\ Owner[p] = observation.worker

FuserIsOpened ==
  observation.pc \in {"tree", "apps"} =>
    /\ ~observation.failed => observation.fuser = observation.opened
    /\ ~observation.used => \A p \in observation.fuser : Owner[p] # observation.worker

TreeIsAttached ==
  observation.pc = "apps" =>
    /\ \A p \in observation.tree : Owner[p] = observation.worker
    /\ ~observation.errors => \A p \in observation.present \ observation.gone :
         proc[p].attached =>
           p \in observation.tree /\ (proc[p].way = "stray" \/ p \in observation.tools)
    /\ \A p \in observation.tools : p \in observation.tree

ObservationInv ==
  /\ ProcsGood /\ observation \in Observations
  /\ EndedIsNone /\ OpenedIsWrapped /\ PresentRuns /\ FuserIsOpened /\ TreeIsAttached
  /\ Lock!NoFalseAlarm /\ Lock!BypassReported

\* A step of a command.
LEMMA ObservedCommand ==
  ASSUME ObservationInv, NEW p \in Procs, CommandOf(p)
  PROVE  ObservationInv'
<1>1. PICK r \in ProcRecs :
        /\ Moved(p, r) /\ LocksRightly(p, r)
        /\ (StartsNew(p) /\ observation' = observation) \/ Continues(p, r) \/ Ended(p, r)
  BY CommandStep DEF ObservationInv
<1>2. ProcsGood' /\ proc'[p] = r /\ \A q \in Procs \ {p} : proc'[q] = proc[q]
  BY <1>1, ProcMoves DEF ObservationInv
<1>3. proc[p].pc = "none" => proc[p] = Lock!NoProc /\ ~Lock!Wrapped(p) /\ ~proc[p].attached
  BY DEF ObservationInv, ProcsGood, GoodProc, Lock!NoProc, Lock!Wrapped
<1>4. observation \in Observations
  BY DEF ObservationInv
<1>5. /\ observation' \in Observations
      /\ observation'.pc = observation.pc /\ observation'.worker = observation.worker
      /\ observation'.fuser = observation.fuser /\ observation'.tree = observation.tree
      /\ observation'.tools = observation.tools /\ observation'.reported = observation.reported
      /\ observation'.failed = observation.failed /\ observation'.opened = observation.opened
      /\ observation'.present = observation.present /\ observation'.ok = observation.ok
      /\ observation'.errors = observation.errors
      /\ observation.used => observation'.used
      /\ observation'.gone = IF Ended(p, r) THEN observation.gone \cup {p} ELSE observation.gone
  <2>1. CASE Ended(p, r)
    BY <1>4, <2>1 DEF Ended, Observations
  <2>2. CASE ~Ended(p, r) /\ Continues(p, r)
    BY <1>4, <2>2 DEF Continues, Observations
  <2>3. CASE ~Ended(p, r) /\ observation' = observation
    BY <1>4, <2>3
  <2> QED
    BY <1>1, <2>1, <2>2, <2>3
<1>6. EndedIsNone'
  <2>1. ASSUME NEW q \in observation'.gone
        PROVE  proc'[q] = Lock!NoProc
    <3>1. CASE Ended(p, r) /\ q = p
      BY <1>2, <3>1 DEF Ended
    <3>2. CASE q \in observation.gone /\ q # p
      BY <1>2, <1>4, <3>2 DEF ObservationInv, EndedIsNone, Observations
    <3>3. CASE q \in observation.gone /\ q = p
      <4>1. proc[p].pc = "none"
        BY <3>3 DEF ObservationInv, EndedIsNone, Lock!NoProc
      <4> QED
        BY <1>1, <3>3, <4>1 DEF StartsNew, Continues, Ended
    <3> QED
      BY <1>5, <2>1, <3>1, <3>2, <3>3
  <2> QED
    BY <2>1 DEF EndedIsNone, Lock!NoProc
<1>7. OpenedIsWrapped'
  BY <1>1, <1>2, <1>3, <1>4, <1>5
  DEF ObservationInv, OpenedIsWrapped, StartsNew, Continues, Ended, Observations, Lock!Wrapped
<1>8. PresentRuns'
  BY <1>1, <1>2, <1>3, <1>4, <1>5
  DEF ObservationInv, PresentRuns, StartsNew, Continues, Ended, Observations, Lock!Wrapped
<1>9. FuserIsOpened'
  BY <1>4, <1>5 DEF ObservationInv, FuserIsOpened
<1>10. TreeIsAttached'
  BY <1>1, <1>2, <1>3, <1>4, <1>5
  DEF ObservationInv, TreeIsAttached, PresentRuns, EndedIsNone, StartsNew, Continues, Ended,
      Observations
<1>11. Lock!NoFalseAlarm'
  BY <1>5 DEF ObservationInv, Lock!NoFalseAlarm
<1>12. Lock!BypassReported'
  BY <1>1, <1>2, <1>3, <1>4, <1>5
  DEF ObservationInv, Lock!BypassReported, PresentRuns, StartsNew, Continues, Ended, Observations
<1> QED
  BY <1>2, <1>5, <1>6, <1>7, <1>8, <1>9, <1>10, <1>11, <1>12 DEF ObservationInv

\* A step of the observer.
LEMMA ObserverStep ==
  ASSUME ObservationInv, UNCHANGED proc,
         \/ \E w \in Workers : Lock!ObserveLock(w)
         \/ Lock!ObserveTree \/ Lock!ObserveApps \/ Lock!ObservationLost
  PROVE  ObservationInv'
<1>1. ProcsGood' /\ observation \in Observations
  BY DEF ObservationInv, ProcsGood
<1>2. \A p : Lock!Wrapped(p)' <=> Lock!Wrapped(p)
  BY DEF Lock!Wrapped
<1>3. ASSUME NEW w \in Workers, Lock!ObserveLock(w)
      PROVE  ObservationInv'
  <2>1. PICK failed \in BOOLEAN :
          LET open == {p \in Procs : Lock!HasOpen(p)}
              bare == {p \in Lock!Own(w) : Lock!At(p, "running") /\ ~Lock!Wrapped(p)}
          IN  observation' = [Lock!NoObservation EXCEPT
                !.pc = "tree", !.worker = w, !.failed = failed,
                !.fuser = IF failed THEN {} ELSE open,
                !.opened = open, !.present = bare, !.used = open \cap Lock!Own(w) # {}]
    BY <1>3 DEF Lock!ObserveLock
  <2> DEFINE open == {p \in Procs : Lock!HasOpen(p)}
  <2>2. /\ observation'.pc = "tree" /\ observation'.worker = w /\ observation'.failed = failed
        /\ observation'.fuser = IF failed THEN {} ELSE open
        /\ observation'.opened = open /\ observation'.gone = {} /\ observation'.tree = {}
        /\ observation'.tools = {} /\ observation'.reported = {}
        /\ observation'.present =
             {p \in Procs : Owner[p] = w /\ proc[p].pc = "running" /\ ~Lock!Wrapped(p)}
        /\ observation'.used = (\E p \in open : Owner[p] = w)
        /\ observation' \in Observations
    BY <2>1 DEF Lock!NoObservation, Lock!Own, Lock!At, Observations
  <2>3. \A p \in open : Lock!Wrapped(p)
    BY DEF Lock!HasOpen, Lock!HasFile
  <2> HIDE DEF open
  <2> QED
    BY <1>1, <1>2, <2>2, <2>3
    DEF ObservationInv, EndedIsNone, OpenedIsWrapped, PresentRuns, FuserIsOpened, TreeIsAttached,
        Lock!NoFalseAlarm, Lock!BypassReported
<1>4. CASE Lock!ObserveTree
  <2> DEFINE Read(answered) ==
               {p \in Procs : answered /\ Owner[p] = observation.worker /\ proc[p].attached}
  <2>1. PICK answered \in BOOLEAN :
        /\ observation.pc = "tree"
        /\ observation' = [observation EXCEPT !.pc = "apps", !.tree = Read(answered),
             !.tools = {p \in Read(answered) : proc[p].way # "stray"}, !.errors = ~answered]
    BY <1>4 DEF Lock!ObserveTree, Lock!Tree, Lock!Own
  <2>2. /\ observation'.pc = "apps" /\ observation'.worker = observation.worker
        /\ observation'.failed = observation.failed /\ observation'.fuser = observation.fuser
        /\ observation'.opened = observation.opened /\ observation'.gone = observation.gone
        /\ observation'.present = observation.present /\ observation'.used = observation.used
        /\ observation'.tree = Read(answered)
        /\ observation'.tools = {p \in Read(answered) : proc[p].way # "stray"}
        /\ observation'.errors = ~answered
        /\ observation' \in Observations
    BY <1>1, <2>1 DEF Observations
  <2>3. /\ ObservationInv /\ \A p : Lock!Wrapped(p)' <=> Lock!Wrapped(p)
        /\ ProcsGood' /\ proc' = proc
    BY <1>1, <1>2
  <2>4. EndedIsNone' /\ OpenedIsWrapped'
    BY <2>2, <2>3 DEF ObservationInv, EndedIsNone, OpenedIsWrapped
  <2>5. PresentRuns' /\ FuserIsOpened'
    BY <2>1, <2>2, <2>3 DEF ObservationInv, PresentRuns, FuserIsOpened
  <2>6. TreeIsAttached'
    <3>1. \A p \in observation.present \ observation.gone :
            p \in Procs /\ Owner[p] = observation.worker
      BY <1>1, <2>3 DEF ObservationInv, PresentRuns, Observations
    <3> QED
      BY <2>2, <2>3, <3>1 DEF TreeIsAttached
  <2>7. Lock!NoFalseAlarm' /\ Lock!BypassReported'
    BY <2>2 DEF Lock!NoFalseAlarm, Lock!BypassReported
  <2> QED
    BY <2>2, <2>3, <2>4, <2>5, <2>6, <2>7 DEF ObservationInv
<1>5. CASE Lock!ObserveApps
  <2> DEFINE held == Lock!HeldByWorker(observation.fuser)
             Found(answered) ==
               {p \in observation.tools : ~held}
                 \cup {p \in observation.tree : answered /\ proc[p].way = "stray"}
  <2>1. PICK answered \in BOOLEAN, old \in BOOLEAN :
        /\ observation.pc = "apps"
        /\ observation' = [observation EXCEPT !.pc = "done",
             !.fuser = {}, !.tree = {}, !.tools = {},
             !.reported = Found(answered), !.errors = @ \/ ~answered,
             !.ok = (Found(answered) = {} /\ ~old)]
    BY <1>5 DEF Lock!ObserveApps, Lock!Reports
  <2>2. /\ observation'.pc = "done" /\ observation'.worker = observation.worker
        /\ observation'.failed = observation.failed
        /\ observation'.opened = observation.opened /\ observation'.gone = observation.gone
        /\ observation'.present = observation.present /\ observation'.used = observation.used
        /\ observation'.reported = Found(answered)
        /\ observation'.errors = (observation.errors \/ ~answered)
        /\ observation'.ok => Found(answered) = {}
        /\ observation' \in Observations
    BY <1>1, <2>1 DEF Observations
  <2>3. EndedIsNone' /\ OpenedIsWrapped' /\ PresentRuns' /\ FuserIsOpened' /\ TreeIsAttached'
    BY <1>2, <2>2
    DEF ObservationInv, EndedIsNone, OpenedIsWrapped, PresentRuns, FuserIsOpened, TreeIsAttached
  <2>4. ASSUME NEW p \in observation.opened, p \in Found(answered), ~observation.failed
        PROVE  FALSE
    <3>1. CASE p \in observation.tools /\ ~held
      BY <2>1, <2>4, <3>1
      DEF ObservationInv, FuserIsOpened, TreeIsAttached, Lock!HeldByWorker
    <3>2. CASE p \in observation.tree /\ proc[p].way = "stray"
      BY <2>4, <3>2
      DEF ObservationInv, OpenedIsWrapped, EndedIsNone, Lock!Wrapped, Lock!NoProc
    <3> QED
      BY <2>4, <3>1, <3>2
  <2>5. Lock!NoFalseAlarm'
    BY <2>2, <2>4 DEF Lock!NoFalseAlarm
  <2>6. ASSUME NEW p \in observation.present \ observation.gone, proc[p].attached,
               observation.used => proc[p].way = "stray", answered, ~observation.errors
        PROVE  p \in Found(answered)
    <3>1. p \in observation.tree /\ (proc[p].way = "stray" \/ p \in observation.tools)
      BY <2>1, <2>6 DEF ObservationInv, TreeIsAttached
    <3>2. ~observation.used => ~held
      BY <2>1 DEF ObservationInv, TreeIsAttached, FuserIsOpened, Lock!HeldByWorker
    <3> QED
      BY <2>6, <3>1, <3>2
  <2>7. Lock!BypassReported'
    BY <2>2, <2>6 DEF Lock!BypassReported
  <2> QED
    BY <1>1, <2>2, <2>3, <2>5, <2>7 DEF ObservationInv
<1>6. CASE Lock!ObservationLost
  <2>1. /\ observation'.pc = "idle" /\ observation'.gone = {} /\ observation'.opened = {}
        /\ observation'.present = {} /\ observation' \in Observations
    BY <1>1, <1>6 DEF Lock!ObservationLost, Lock!NoObservation, Observations
  <2> QED
    BY <1>1, <2>1
    DEF ObservationInv, EndedIsNone, OpenedIsWrapped, PresentRuns, FuserIsOpened, TreeIsAttached,
        Lock!NoFalseAlarm, Lock!BypassReported
<1> QED
  BY <1>3, <1>4, <1>5, <1>6

\* Every step keeps what an observation knows.
LEMMA ObservationStep ==
  ASSUME ObservationInv, [Lock!Next]_Lock!vars
  PROVE  ObservationInv'
<1>1. CASE UNCHANGED Lock!vars
  BY <1>1
  DEF Lock!vars, ObservationInv, ProcsGood, EndedIsNone, OpenedIsWrapped, PresentRuns,
      FuserIsOpened, TreeIsAttached, Lock!NoFalseAlarm, Lock!BypassReported, Lock!Wrapped
<1>2. CASE \E p \in Procs : CommandOf(p)
  BY <1>2, ObservedCommand
<1>3. CASE \/ \E w \in Workers : Lock!ObserveLock(w)
           \/ Lock!ObserveTree \/ Lock!ObserveApps \/ Lock!ObservationLost
  <2>1. UNCHANGED proc
    BY <1>3 DEF Lock!ObserveLock, Lock!ObserveTree, Lock!ObserveApps, Lock!Reports,
                Lock!ObservationLost
  <2> QED
    BY <1>3, <2>1, ObserverStep
<1> QED
  BY <1>1, <1>2, <1>3 DEF Lock!Next, CommandOf

\* Before the first observation nothing is known; there is a worker to observe.
LEMMA ObservationInit ==
  ASSUME Workers # {}, Lock!Init
  PROVE  ObservationInv
<1>1. proc = [p \in Procs |-> Lock!NoProc] /\ observation = Lock!NoObservation
  BY DEF Lock!Init
<1>2. ProcsGood
  BY <1>1 DEF Lock!NoProc, ProcsGood, GoodProc, ProcRecs
<1>3. (CHOOSE w \in Workers : TRUE) \in Workers
  OBVIOUS
<1>4. /\ observation \in Observations /\ observation.pc = "idle" /\ observation.gone = {}
      /\ observation.opened = {} /\ observation.present = {}
  BY <1>1, <1>3 DEF Lock!NoObservation, Observations
<1> QED
  BY <1>2, <1>4
  DEF ObservationInv, EndedIsNone, OpenedIsWrapped, PresentRuns, FuserIsOpened, TreeIsAttached,
      Lock!NoFalseAlarm, Lock!BypassReported

\* So the invariant of the observations holds of every behaviour of the lock.
LEMMA ObservationHolds ==
  ASSUME Workers # {}
  PROVE  Spec => [](kind = "lock" => ObservationInv)
<1>1. Init => (kind = "lock" => ObservationInv)
  BY OneBegins, ObservationInit
<1>2. (kind = "lock" => ObservationInv) /\ [Next]_vars => (kind = "lock" => ObservationInv)'
  BY OneActs, ObservationStep
<1> QED
  BY <1>1, <1>2, PTL DEF Spec

\* What had the lock file open when an observation began is not reported by it, for
\* any processes that start, end and are killed while it reads.
THEOREM NoAlarmIsFalse ==
  ASSUME Workers # {}
  PROVE  Spec => []NoFalseAlarm
<1>1. (kind = "lock" => ObservationInv) => NoFalseAlarm
  BY DEF ObservationInv, NoFalseAlarm
<1> QED
  BY <1>1, ObservationHolds, PTL

\* A bare command that runs all through an observation is reported, unless its
\* worker had the lock meanwhile and the command is on the GPU of the worker.
THEOREM BypassIsReported ==
  ASSUME Workers # {}
  PROVE  Spec => []BypassReported
<1>1. (kind = "lock" => ObservationInv) => BypassReported
  BY DEF ObservationInv, BypassReported
<1> QED
  BY <1>1, ObservationHolds, PTL

-----------------------------------------------------------------------------
(* The generic monitor                                                     *)

\* A policy says four things, times are numbers, and None is none of the values.
MonitorConstants ==
  /\ Policies \subseteq Monitor!Policy
  /\ Cooldown \in Int
  /\ None \notin Int /\ None \notin {"loop", "once", "external", "replaced"}

Panes == [id : {"configured", "replaced"}, look : {"idle", "busy"}]
MonitorRecs ==
  [pc : {"off", "begin", "observe", "judge", "send", "record"},
   kind : {None, "loop", "once", "external"}, policy : Monitor!Policy \cup {None},
   last : Int \cup {None}, seen : Panes \cup {None}]
Nudges == [at : Int \cup {None}, kept : BOOLEAN, pane : {None, "configured", "replaced"}]

\* A monitor holds a policy that says of the pane what the bundle says; about to send
\* it has seen what the policy asks for.
GoodMonitor(r) ==
  /\ r \in MonitorRecs
  /\ r.pc = "off" => r = Monitor!Off
  /\ r.pc # "off" => r.policy \in Monitor!Policy /\ r.policy.checkPane = bundle.checkPane
                     /\ r.kind # None
  /\ r.pc \in {"judge", "send"} => r.seen \in Panes
  /\ r.pc = "send" => (r.policy.checkPane => r.seen.id = "configured")

MonitorInv ==
  /\ bundle \in Monitor!Policy /\ pane \in Panes /\ clock \in Int
  /\ lastNudge \in Int \cup {None} /\ nudge \in Nudges
  /\ monitor \in [Monitors -> MonitorRecs] /\ \A m \in Monitors : GoodMonitor(monitor[m])
  /\ Monitor!OnlyConfiguredPane

\* What a step of one monitor, or of a command that starts or kills it, makes of it.
Becomes(m, r) ==
  GoodMonitor(r) /\ Monitor!Sets(m, r) /\ UNCHANGED <<bundle, pane, clock>>

\* A step of one monitor leaves the others as they were.
LEMMA MonitorBecomes ==
  ASSUME MonitorInv, NEW m \in Monitors, NEW r, Becomes(m, r),
         lastNudge' \in Int \cup {None}, nudge' \in Nudges,
         nudge' = nudge \/ Monitor!OnlyConfiguredPane'
  PROVE  /\ MonitorInv' /\ monitor'[m] = r
         /\ \A n \in Monitors \ {m} : monitor'[n] = monitor[n]
<1>1. bundle' = bundle
  BY DEF Becomes
<1>2. monitor' \in [Monitors -> MonitorRecs] /\ monitor'[m] = r
      /\ \A n \in Monitors \ {m} : monitor'[n] = monitor[n]
  BY DEF Becomes, GoodMonitor, MonitorInv, Monitor!Sets
<1>3. \A n \in Monitors : GoodMonitor(monitor[n])'
  BY <1>1, <1>2 DEF MonitorInv, Becomes, GoodMonitor, Monitor!Off
<1>4. Monitor!OnlyConfiguredPane'
  BY DEF MonitorInv, Becomes, Monitor!OnlyConfiguredPane
<1> QED
  BY <1>2, <1>3, <1>4 DEF MonitorInv, Becomes, GoodMonitor, Monitor!Off

\* The end of an iteration.
EndsAs(m, r) ==
  \/ r = Monitor!Off
  \/ /\ r.pc = "begin" /\ r.kind = monitor[m].kind /\ r.policy = monitor[m].policy

\* A monitor whose iteration has ended begins again with its policy, or is off.
LEMMA IterationEnd ==
  ASSUME MonitorInv, NEW m \in Monitors, monitor[m].pc # "off",
         Monitor!IterationEnds(m) \/ Monitor!Sets(m, Monitor!Off), UNCHANGED <<bundle, pane, clock>>
  PROVE  \E r \in MonitorRecs : Becomes(m, r) /\ EndsAs(m, r)
<1>1. monitor[m] \in MonitorRecs /\ GoodMonitor(monitor[m])
  BY DEF MonitorInv
<1>2. CASE Monitor!Sets(m, Monitor!Off)
  <2>1. Monitor!Off \in MonitorRecs /\ GoodMonitor(Monitor!Off)
    BY DEF Monitor!Off, MonitorRecs, GoodMonitor
  <2> QED
    BY <1>2, <2>1 DEF Becomes, EndsAs
<1>3. CASE Monitor!Sets(m, [monitor[m] EXCEPT !.pc = "begin", !.seen = None, !.last = None])
  <2> DEFINE r == [monitor[m] EXCEPT !.pc = "begin", !.seen = None, !.last = None]
  <2>1. r \in MonitorRecs /\ r.pc = "begin" /\ r.kind = monitor[m].kind
        /\ r.policy = monitor[m].policy
    BY <1>1 DEF MonitorRecs
  <2>2. GoodMonitor(r)
    BY <1>1, <2>1 DEF GoodMonitor
  <2> HIDE DEF r
  <2>3. Becomes(m, r) /\ EndsAs(m, r)
    BY <1>3, <2>1, <2>2 DEF Becomes, EndsAs, r
  <2> QED
    BY <2>1, <2>3
<1> QED
  BY <1>2, <1>3 DEF Monitor!IterationEnds

\* A step to the next pc, with what was read.
LEMMA ReadStateStep ==
  ASSUME MonitorConstants, MonitorInv, NEW m \in Monitors, Monitor!ReadState(m)
  PROVE  \E r \in MonitorRecs :
           /\ Becomes(m, r) /\ r.pc = "observe" /\ r.kind = monitor[m].kind
           /\ r.kind = "loop" => r.last = lastNudge
<1> DEFINE r == [monitor[m] EXCEPT !.pc = "observe",
                   !.last = IF monitor[m].kind = "external" THEN None ELSE lastNudge]
<1>1. monitor[m] \in MonitorRecs /\ GoodMonitor(monitor[m]) /\ monitor[m].pc = "begin"
  BY DEF MonitorInv, Monitor!ReadState, Monitor!At
<1>2. /\ r \in MonitorRecs /\ r.pc = "observe" /\ r.kind = monitor[m].kind
      /\ r.policy = monitor[m].policy /\ (r.kind = "loop" => r.last = lastNudge)
  BY <1>1 DEF MonitorRecs, MonitorInv
<1>3. Monitor!Sets(m, r) /\ UNCHANGED <<bundle, pane, clock>>
  BY DEF Monitor!ReadState, Monitor!besideMonitors, Monitor!External
<1>4. GoodMonitor(r)
  BY <1>1, <1>2 DEF GoodMonitor
<1> HIDE DEF r
<1> QED
  BY <1>2, <1>3, <1>4 DEF Becomes

\* An observation: the pane is seen, or the iteration ends.
LEMMA ObserveStep ==
  ASSUME MonitorInv, NEW m \in Monitors, Monitor!Observe(m)
  PROVE  \E r \in MonitorRecs :
           /\ Becomes(m, r)
           /\ \/ EndsAs(m, r)
              \/ r.pc = "judge" /\ r.kind = monitor[m].kind /\ r.last = monitor[m].last
<1>1. monitor[m] \in MonitorRecs /\ GoodMonitor(monitor[m]) /\ monitor[m].pc = "observe"
  BY DEF MonitorInv, Monitor!Observe, Monitor!At
<1>2. UNCHANGED <<bundle, pane, clock>>
  BY DEF Monitor!Observe, Monitor!besideMonitors
<1>3. CASE Monitor!IterationEnds(m)
  BY <1>1, <1>2, <1>3, IterationEnd
<1>4. CASE Monitor!Sees(m)
  <2> DEFINE r == [monitor[m] EXCEPT !.pc = "judge", !.seen = pane]
  <2>1. /\ r \in MonitorRecs /\ r.pc = "judge" /\ r.kind = monitor[m].kind
        /\ r.policy = monitor[m].policy /\ r.last = monitor[m].last /\ r.seen = pane
    BY <1>1 DEF MonitorRecs, MonitorInv
  <2>2. GoodMonitor(r)
    BY <1>1, <2>1 DEF GoodMonitor, MonitorInv
  <2>3. Monitor!Sets(m, r)
    BY <1>4 DEF Monitor!Sees
  <2> HIDE DEF r
  <2> QED
    BY <1>2, <2>1, <2>2, <2>3 DEF Becomes
<1> QED
  BY <1>3, <1>4 DEF Monitor!Observe, Monitor!Unreachable

\* A verdict: the pane seen is the configured one and the cooldown is over when a
\* nudge is to be sent, or the iteration ends.
LEMMA JudgeStep ==
  ASSUME MonitorInv, NEW m \in Monitors, Monitor!Judge(m)
  PROVE  \E r \in MonitorRecs :
           /\ Becomes(m, r)
           /\ \/ EndsAs(m, r)
              \/ /\ r.pc = "send" /\ r.kind = monitor[m].kind /\ r.last = monitor[m].last
                 /\ r.last # None => clock - r.last >= Cooldown
<1>1. /\ monitor[m] \in MonitorRecs /\ GoodMonitor(monitor[m]) /\ monitor[m].pc = "judge"
  BY DEF MonitorInv, Monitor!Judge, Monitor!At
<1>2. UNCHANGED <<bundle, pane, clock>>
  BY DEF Monitor!Judge, Monitor!besideMonitors
<1>3. CASE Monitor!IterationEnds(m) \/ Monitor!Sets(m, Monitor!Off)
  BY <1>1, <1>2, <1>3, IterationEnd
<1>4. CASE Monitor!Eligible(m) /\ Monitor!Sets(m, [monitor[m] EXCEPT !.pc = "send"])
  <2> DEFINE r == [monitor[m] EXCEPT !.pc = "send"]
  <2>1. /\ r \in MonitorRecs /\ r.pc = "send" /\ r.kind = monitor[m].kind
        /\ r.policy = monitor[m].policy /\ r.last = monitor[m].last /\ r.seen = monitor[m].seen
    BY <1>1 DEF MonitorRecs
  <2>2. /\ r.policy.checkPane => r.seen.id = "configured"
        /\ r.last # None => clock - r.last >= Cooldown
    BY <1>4, <2>1 DEF Monitor!Eligible, Monitor!Configured
  <2>3. GoodMonitor(r)
    BY <1>1, <2>1, <2>2 DEF GoodMonitor
  <2>4. Monitor!Sets(m, r)
    BY <1>4
  <2> HIDE DEF r
  <2> QED
    BY <1>2, <2>1, <2>2, <2>3, <2>4 DEF Becomes
<1> QED
  BY <1>3, <1>4 DEF Monitor!Judge

\* A nudge: into the pane that was observed.
LEMMA SendStep ==
  ASSUME MonitorConstants, MonitorInv, NEW m \in Monitors, Monitor!Send(m)
  PROVE  /\ \E r \in MonitorRecs :
              /\ Becomes(m, r)
              /\ \/ EndsAs(m, r)
                 \/ r.pc = "record" /\ r.kind = monitor[m].kind /\ nudge'.at = clock
         /\ lastNudge' = lastNudge /\ nudge' \in Nudges
         /\ nudge' = nudge \/ (nudge'.at = clock /\ ~nudge'.kept)
         /\ nudge' = nudge \/ Monitor!OnlyConfiguredPane'
<1>1. /\ monitor[m] \in MonitorRecs /\ GoodMonitor(monitor[m]) /\ monitor[m].pc = "send"
  BY DEF MonitorInv, Monitor!Send, Monitor!At
<1>2. UNCHANGED <<bundle, pane, clock>> /\ lastNudge' = lastNudge
  BY DEF Monitor!Send, Monitor!besideMonitors
<1> DEFINE id == monitor[m].seen.id
<1>3. /\ id \in {"configured", "replaced"}
      /\ bundle.checkPane => id = "configured"
  BY <1>1 DEF GoodMonitor, Panes
<1>4. \/ nudge' = nudge
      \/ nudge' = [at |-> clock, kept |-> FALSE, pane |-> id]
  BY DEF Monitor!Send, Monitor!Delivered
<1>5. nudge' \in Nudges /\ (nudge' = nudge \/ (nudge'.at = clock /\ ~nudge'.kept))
  <2>1. CASE nudge' = nudge
    BY <2>1 DEF MonitorInv
  <2>2. CASE nudge' = [at |-> clock, kept |-> FALSE, pane |-> id]
    <3>1. clock \in Int
      BY DEF MonitorInv
    <3> HIDE DEF id
    <3> QED
      BY <1>3, <2>2, <3>1 DEF Nudges
  <2> QED
    BY <1>4, <2>1, <2>2
<1>6. nudge' = nudge \/ Monitor!OnlyConfiguredPane'
  BY <1>2, <1>3, <1>4 DEF Monitor!OnlyConfiguredPane, Monitor!Replaced
<1>7. CASE Monitor!IterationEnds(m) \/ Monitor!Sets(m, Monitor!Off)
  BY <1>1, <1>2, <1>5, <1>6, <1>7, IterationEnd
<1>8. CASE /\ nudge' = [at |-> clock, kept |-> FALSE, pane |-> id]
           /\ Monitor!Sets(m, [monitor[m] EXCEPT !.pc = "record"])
  <2> DEFINE r == [monitor[m] EXCEPT !.pc = "record"]
  <2>1. /\ r \in MonitorRecs /\ r.pc = "record" /\ r.kind = monitor[m].kind
        /\ r.policy = monitor[m].policy
    BY <1>1 DEF MonitorRecs
  <2>2. GoodMonitor(r)
    BY <1>1, <2>1 DEF GoodMonitor
  <2>3. Monitor!Sets(m, r) /\ nudge'.at = clock
    BY <1>8
  <2> HIDE DEF r
  <2> QED
    BY <1>2, <1>5, <1>6, <2>1, <2>2, <2>3 DEF Becomes
<1> QED
  BY <1>7, <1>8 DEF Monitor!Send, Monitor!Delivered

\* state.json gets the time, unless the loop is the external one.
LEMMA RecordStep ==
  ASSUME MonitorInv, NEW m \in Monitors, Monitor!Record(m)
  PROVE  /\ \E r \in MonitorRecs : Becomes(m, r) /\ EndsAs(m, r)
         /\ lastNudge' \in Int \cup {None} /\ nudge' \in Nudges
         /\ nudge'.at = nudge.at /\ nudge'.pane = nudge.pane
         /\ \/ monitor[m].kind = "external" /\ UNCHANGED <<lastNudge, nudge>>
            \/ lastNudge' = clock
<1>1. monitor[m] \in MonitorRecs /\ monitor[m].pc = "record"
  BY DEF MonitorInv, Monitor!Record, Monitor!At
<1>2. UNCHANGED <<bundle, pane, clock>> /\ Monitor!IterationEnds(m)
  BY DEF Monitor!Record, Monitor!besideMonitors
<1>3. \E r \in MonitorRecs : Becomes(m, r) /\ EndsAs(m, r)
  BY <1>1, <1>2, IterationEnd
<1> QED
  BY <1>3 DEF Monitor!Record, Monitor!External, MonitorInv, Nudges

\* A monitor is started with the policy of the bundle.
LEMMA BeginsStep ==
  ASSUME MonitorConstants, MonitorInv, NEW m \in Monitors,
         NEW k \in {"loop", "once", "external"}, Monitor!Begins(m, k),
         UNCHANGED <<bundle, pane, clock>>
  PROVE  \E r \in MonitorRecs : Becomes(m, r) /\ r.pc = "begin" /\ r.kind = k
<1> DEFINE r == [Monitor!Off EXCEPT !.pc = "begin", !.kind = k, !.policy = bundle]
<1>1. r \in MonitorRecs /\ r.pc = "begin" /\ r.kind = k /\ r.policy = bundle
  BY DEF Monitor!Off, MonitorRecs, MonitorInv
<1>2. GoodMonitor(r)
  BY <1>1 DEF GoodMonitor, MonitorConstants, MonitorInv
<1>3. Monitor!Sets(m, r)
  BY DEF Monitor!Begins
<1> HIDE DEF r
<1> QED
  BY <1>1, <1>2, <1>3 DEF Becomes

\* With one remote loop, its commands in good order: nothing but that loop runs;
\* what it goes by is the time in state.json, which is no earlier than the last
\* nudge it has kept.
SingleInv ==
  /\ \A m \in Monitors : monitor[m].pc # "off" => monitor[m].kind = "loop"
  /\ \A m, n \in Monitors : monitor[m].pc # "off" /\ monitor[n].pc # "off" => m = n
  /\ \A c, d \in MonitorCommands : command[c].pc # "none" /\ command[d].pc # "none" => c = d
  /\ \A c \in MonitorCommands :
       command[c].pc = "launch" => \A m \in Monitors : monitor[m].pc = "off"
  /\ \A m \in Monitors :
       /\ monitor[m].pc \in {"observe", "judge", "send"} => monitor[m].last = lastNudge
       /\ monitor[m].pc = "send" /\ lastNudge # None => clock - lastNudge >= Cooldown
       /\ monitor[m].pc = "record" => nudge.at # None
  /\ nudge.at # None => nudge.at <= clock
  /\ nudge.kept => nudge.at # None /\ lastNudge # None /\ nudge.at <= lastNudge

CommandsTyped ==
  /\ command \in [MonitorCommands -> [pc : {"none", "check", "kill", "launch"},
                                   op : {None, "start", "restart", "stop"}]]
  /\ commands \in [begun : Nat, misread : BOOLEAN]

MonitorsInv == MonitorInv /\ CommandsTyped /\ (Monitor!Orderly => SingleInv)

\* A step of a monitor that runs leaves the one loop the one loop.
LEMMA SingleBecomes ==
  ASSUME MonitorConstants, MonitorInv, MonitorInv', SingleInv, NEW m \in Monitors, NEW r,
         monitor[m].pc # "off", monitor'[m] = r,
         \A n \in Monitors \ {m} : monitor'[n] = monitor[n],
         r = Monitor!Off \/ r.kind = monitor[m].kind, UNCHANGED <<command, clock>>,
         r.pc \in {"observe", "judge", "send"} => r.last = lastNudge',
         r.pc = "send" /\ lastNudge' # None => clock - lastNudge' >= Cooldown,
         r.pc = "record" => nudge'.at # None,
         nudge'.at # None => nudge'.at <= clock,
         nudge'.kept => nudge'.at # None /\ lastNudge' # None /\ nudge'.at <= lastNudge'
  PROVE  SingleInv'
<1>1. \A n \in Monitors \ {m} : monitor'[n].pc = "off"
  BY DEF SingleInv
<1>2. r.pc # "off" => r.kind = "loop"
  BY DEF SingleInv, Monitor!Off
<1>3. \A c \in MonitorCommands : command[c].pc # "launch"
  BY DEF SingleInv
<1> QED
  BY <1>1, <1>2, <1>3 DEF SingleInv

\* Every step of a monitor.
LEMMA MonitorStep ==
  ASSUME MonitorConstants, MonitorsInv, NEW m \in Monitors,
         \/ Monitor!ReadState(m) \/ Monitor!Observe(m) \/ Monitor!Judge(m) \/ Monitor!Send(m)
         \/ Monitor!Record(m) \/ Monitor!StartOther(m)
  PROVE  MonitorsInv'
<1> USE DEF MonitorsInv
<1>1. ASSUME NEW r, Becomes(m, r), lastNudge' = lastNudge, nudge' = nudge
      PROVE  MonitorInv' /\ monitor'[m] = r /\ \A n \in Monitors \ {m} : monitor'[n] = monitor[n]
  BY <1>1, MonitorBecomes DEF MonitorInv
<1>2. (Monitor!Orderly' => Monitor!Orderly) /\ UNCHANGED <<command, clock>> /\ CommandsTyped'
  BY DEF CommandsTyped, Monitor!Orderly, Monitor!ReadState, Monitor!Observe, Monitor!Judge, Monitor!Send,
         Monitor!Record, Monitor!StartOther, Monitor!besideMonitors
<1>3. CASE Monitor!ReadState(m)
  <2>1. PICK r \in MonitorRecs :
          /\ Becomes(m, r) /\ r.pc = "observe" /\ r.kind = monitor[m].kind
          /\ r.kind = "loop" => r.last = lastNudge
    BY <1>3, ReadStateStep
  <2>2. lastNudge' = lastNudge /\ nudge' = nudge /\ monitor[m].pc # "off"
    BY <1>3 DEF Monitor!ReadState, Monitor!At
  <2>3. MonitorInv' /\ monitor'[m] = r /\ \A n \in Monitors \ {m} : monitor'[n] = monitor[n]
    BY <1>1, <2>1, <2>2
  <2>4. ASSUME Monitor!Orderly
        PROVE  SingleInv'
    <3>1. monitor[m].kind = "loop"
      BY <2>2, <2>4 DEF SingleInv
    <3> QED
      BY <1>2, <2>1, <2>2, <2>3, <2>4, <3>1, SingleBecomes DEF SingleInv
  <2> QED
    BY <1>2, <2>3, <2>4
<1>4. CASE Monitor!Observe(m)
  <2>1. PICK r \in MonitorRecs :
          /\ Becomes(m, r)
          /\ \/ EndsAs(m, r)
             \/ r.pc = "judge" /\ r.kind = monitor[m].kind /\ r.last = monitor[m].last
    BY <1>4, ObserveStep
  <2>2. lastNudge' = lastNudge /\ nudge' = nudge /\ monitor[m].pc = "observe"
    BY <1>4 DEF Monitor!Observe, Monitor!At
  <2>3. MonitorInv' /\ monitor'[m] = r /\ \A n \in Monitors \ {m} : monitor'[n] = monitor[n]
    BY <1>1, <2>1, <2>2
  <2>4. ASSUME Monitor!Orderly
        PROVE  SingleInv'
    BY <1>2, <2>1, <2>2, <2>3, <2>4, SingleBecomes DEF SingleInv, EndsAs, Monitor!Off
  <2> QED
    BY <1>2, <2>3, <2>4
<1>5. CASE Monitor!Judge(m)
  <2>1. PICK r \in MonitorRecs :
          /\ Becomes(m, r)
          /\ \/ EndsAs(m, r)
             \/ /\ r.pc = "send" /\ r.kind = monitor[m].kind /\ r.last = monitor[m].last
                /\ r.last # None => clock - r.last >= Cooldown
    BY <1>5, JudgeStep
  <2>2. lastNudge' = lastNudge /\ nudge' = nudge /\ monitor[m].pc = "judge"
    BY <1>5 DEF Monitor!Judge, Monitor!At
  <2>3. MonitorInv' /\ monitor'[m] = r /\ \A n \in Monitors \ {m} : monitor'[n] = monitor[n]
    BY <1>1, <2>1, <2>2
  <2>4. ASSUME Monitor!Orderly
        PROVE  SingleInv'
    BY <1>2, <2>1, <2>2, <2>3, <2>4, SingleBecomes DEF SingleInv, EndsAs, Monitor!Off
  <2> QED
    BY <1>2, <2>3, <2>4
<1>6. CASE Monitor!Send(m)
  <2>1. /\ lastNudge' = lastNudge /\ nudge' \in Nudges
        /\ nudge' = nudge \/ (nudge'.at = clock /\ ~nudge'.kept)
        /\ nudge' = nudge \/ Monitor!OnlyConfiguredPane'
    BY <1>6, SendStep
  <2>2. PICK r \in MonitorRecs :
          /\ Becomes(m, r)
          /\ \/ EndsAs(m, r)
             \/ r.pc = "record" /\ r.kind = monitor[m].kind /\ nudge'.at = clock
    BY <1>6, SendStep
  <2>3. monitor[m].pc = "send"
    BY <1>6 DEF Monitor!Send, Monitor!At
  <2>4. lastNudge' \in Int \cup {None} /\ clock \in Int
    BY <2>1 DEF MonitorInv
  <2>5. MonitorInv' /\ monitor'[m] = r /\ \A n \in Monitors \ {m} : monitor'[n] = monitor[n]
    BY <2>1, <2>2, <2>4, MonitorBecomes
  <2>6. ASSUME Monitor!Orderly
        PROVE  SingleInv'
    <3>1. nudge'.at # None => nudge'.at <= clock
      BY <2>1, <2>4, <2>6 DEF SingleInv
    <3>2. nudge'.kept => nudge'.at # None /\ lastNudge' # None /\ nudge'.at <= lastNudge'
      BY <2>1, <2>6 DEF SingleInv
    <3>3. r.pc \in {"begin", "off", "record"}
      BY <2>2 DEF EndsAs, Monitor!Off
    <3>4. r.pc = "record" => nudge'.at # None
      BY <2>2, <2>4 DEF EndsAs, Monitor!Off, MonitorConstants
    <3>5. r = Monitor!Off \/ r.kind = monitor[m].kind
      BY <2>2 DEF EndsAs
    <3> QED
      BY <1>2, <2>3, <2>5, <2>6, <3>1, <3>2, <3>3, <3>4, <3>5, SingleBecomes
  <2> QED
    BY <1>2, <2>5, <2>6
<1>7. CASE Monitor!Record(m)
  <2>1. PICK r \in MonitorRecs : Becomes(m, r) /\ EndsAs(m, r)
    BY <1>7, RecordStep
  <2>2. /\ lastNudge' \in Int \cup {None} /\ nudge' \in Nudges
        /\ nudge'.at = nudge.at /\ nudge'.pane = nudge.pane
        /\ \/ monitor[m].kind = "external" /\ UNCHANGED <<lastNudge, nudge>>
           \/ lastNudge' = clock
    BY <1>7, RecordStep
  <2>3. monitor[m].pc = "record" /\ clock \in Int
    BY <1>7 DEF Monitor!Record, Monitor!At, MonitorInv
  <2>4. Monitor!OnlyConfiguredPane'
    BY <2>1, <2>2 DEF MonitorInv, Monitor!OnlyConfiguredPane, Becomes
  <2>5. MonitorInv' /\ monitor'[m] = r /\ \A n \in Monitors \ {m} : monitor'[n] = monitor[n]
    BY <2>1, <2>2, <2>4, MonitorBecomes
  <2>6. ASSUME Monitor!Orderly
        PROVE  SingleInv'
    <3>1. monitor[m].kind = "loop" /\ nudge.at # None /\ nudge.at <= clock
      BY <2>3, <2>6 DEF SingleInv
    <3>2. lastNudge' = clock /\ clock # None
      BY <2>2, <2>3, <3>1 DEF MonitorConstants
    <3>3. r.pc \in {"begin", "off"} /\ (r = Monitor!Off \/ r.kind = monitor[m].kind)
      BY <2>1 DEF EndsAs, Monitor!Off
    <3> QED
      BY <1>2, <2>2, <2>3, <2>5, <2>6, <3>1, <3>2, <3>3, SingleBecomes
  <2> QED
    BY <1>2, <2>5, <2>6
<1>8. CASE Monitor!StartOther(m)
  <2>1. PICK k \in {"once", "external"} : Monitor!Begins(m, k)
    BY <1>8 DEF Monitor!StartOther
  <2>2. UNCHANGED <<bundle, pane, clock, lastNudge, nudge>> /\ ~Monitor!Orderly
    BY <1>8 DEF Monitor!StartOther, Monitor!besideMonitors, Monitor!Several, Monitor!Orderly
  <2>3. PICK r \in MonitorRecs : Becomes(m, r)
    BY <2>1, <2>2, BeginsStep
  <2> QED
    BY <1>1, <1>2, <2>2, <2>3
<1> QED
  BY <1>3, <1>4, <1>5, <1>6, <1>7, <1>8

\* A command goes on; the monitors and the times stay as they are.
LEMMA CommandGoes ==
  ASSUME MonitorsInv, NEW c \in MonitorCommands, NEW pc \in {"none", "check", "kill", "launch"},
         NEW op \in {None, "start", "restart", "stop"},
         command' = [command EXCEPT ![c] = [pc |-> pc, op |-> op]],
         commands' \in [begun : Nat, misread : BOOLEAN], Monitor!Orderly' => Monitor!Orderly,
         UNCHANGED <<bundle, pane, lastNudge, clock, nudge, monitor>>,
         Monitor!Orderly' =>
           /\ \A d \in MonitorCommands \ {c} : command[d].pc = "none"
           /\ pc = "launch" => \A m \in Monitors : monitor[m].pc = "off"
  PROVE  MonitorsInv'
<1>1. MonitorInv'
  BY DEF MonitorsInv, MonitorInv, GoodMonitor, Monitor!Off, Monitor!OnlyConfiguredPane
<1>2. /\ CommandsTyped' /\ command'[c].pc = pc
      /\ \A d \in MonitorCommands \ {c} : command'[d] = command[d]
  BY DEF MonitorsInv, CommandsTyped
<1>3. Monitor!Orderly' => SingleInv'
  BY <1>2 DEF MonitorsInv, SingleInv
<1> QED
  BY <1>1, <1>2, <1>3 DEF MonitorsInv

\* Every step of a command: to "launch" only from a window that is not there, or is
\* killed, when commands run one at a time.
LEMMA WindowStep ==
  ASSUME MonitorConstants, MonitorsInv, NEW c \in MonitorCommands,
         \/ Monitor!CommandBegin(c) \/ Monitor!WindowCheck(c) \/ Monitor!WindowKill(c)
         \/ Monitor!WindowLaunch(c)
  PROVE  MonitorsInv'
<1>1. command[c] \in [pc : {"none", "check", "kill", "launch"},
                      op : {None, "start", "restart", "stop"}]
  BY DEF MonitorsInv, CommandsTyped
<1>2. UNCHANGED <<bundle, pane, lastNudge, clock, nudge>>
  BY DEF Monitor!CommandBegin, Monitor!WindowCheck, Monitor!WindowKill, Monitor!WindowLaunch,
         Monitor!besideCommands
<1>3. ASSUME NEW pc, Monitor!Goes(c, pc)
      PROVE  command' = [command EXCEPT ![c] = [pc |-> pc, op |-> command[c].op]]
  <2>1. [command[c] EXCEPT !.pc = pc] = [pc |-> pc, op |-> command[c].op]
    BY <1>1
  <2>2. command' = [command EXCEPT ![c] = [command[c] EXCEPT !.pc = pc]]
    BY <1>3 DEF Monitor!Goes
  <2> QED
    BY <2>1, <2>2
<1>10. /\ Monitor!Orderly' => Monitor!Orderly
       /\ commands' \in [begun : Nat, misread : BOOLEAN]
       /\ command[c].pc \in {"kill", "launch"} => commands' = commands
  <2>1. commands \in [begun : Nat, misread : BOOLEAN] /\ mode' = mode
    BY DEF MonitorsInv, CommandsTyped, Monitor!CommandBegin, Monitor!WindowCheck,
           Monitor!WindowKill, Monitor!WindowLaunch, Monitor!besideCommands
  <2> DEFINE misread == commands.misread \/ (Monitor!Loops # {} /\ command[c].op # "stop")
  <2>2. \/ commands' = [commands EXCEPT !.begun = @ + 1] /\ command[c].pc = "none"
        \/ commands' = [commands EXCEPT !.misread = misread] /\ command[c].pc = "check"
        \/ commands' = commands
    BY DEF Monitor!CommandBegin, Monitor!WindowCheck, Monitor!WindowKill, Monitor!WindowLaunch
  <2>3. misread \in BOOLEAN /\ (commands.misread => misread)
    OBVIOUS
  <2> HIDE DEF misread
  <2>4. commands' \in [begun : Nat, misread : BOOLEAN]
    BY <2>1, <2>2, <2>3
  <2>5. commands.misread => commands'.misread
    BY <2>1, <2>2, <2>3
  <2>6. command[c].pc \in {"kill", "launch"} => commands' = commands
    BY <2>2
  <2> QED
    BY <2>1, <2>4, <2>5, <2>6 DEF Monitor!Orderly
<1>4. Monitor!Orderly /\ command[c].pc # "none"
        => \A d \in MonitorCommands \ {c} : command[d].pc = "none"
  BY DEF MonitorsInv, SingleInv
<1>5. \A m \in Monitors : monitor[m].kind = "loop" => monitor[m].pc # "off"
  BY DEF MonitorsInv, MonitorInv, GoodMonitor, Monitor!Off, MonitorConstants
<1>6. CASE Monitor!CommandBegin(c)
  <2>1. PICK op \in {"start", "restart", "stop"} :
          command' = [command EXCEPT ![c] = [pc |-> "check", op |-> op]]
    BY <1>6 DEF Monitor!CommandBegin
  <2>2. monitor' = monitor /\ (Monitor!Orderly => \A d \in MonitorCommands : command[d].pc = "none")
    BY <1>6 DEF Monitor!CommandBegin, Monitor!Several, Monitor!Orderly
  <2> QED
    BY <1>2, <1>10, <2>1, <2>2, CommandGoes
<1>7. CASE Monitor!WindowCheck(c)
  <2>1. monitor' = monitor /\ command[c].pc # "none"
    BY <1>7 DEF Monitor!WindowCheck
  <2>2. PICK pc \in {"none", "kill", "launch"} :
          /\ Monitor!Goes(c, pc)
          /\ pc = "launch" /\ Monitor!Orderly' => Monitor!Loops = {}
    <3>1. commands \in [begun : Nat, misread : BOOLEAN]
      BY DEF MonitorsInv, CommandsTyped
    <3> QED
      BY <1>7, <3>1 DEF Monitor!WindowCheck, Monitor!Orderly
  <2>3. pc = "launch" /\ Monitor!Orderly' => \A m \in Monitors : monitor[m].pc = "off"
    BY <1>10, <2>2 DEF Monitor!Loops, MonitorsInv, SingleInv
  <2> QED
    BY <1>1, <1>2, <1>3, <1>4, <1>10, <2>1, <2>2, <2>3, CommandGoes
<1>8. CASE Monitor!WindowKill(c)
  <2>1. PICK pc \in {"none", "launch"} : Monitor!Goes(c, pc)
    BY <1>8 DEF Monitor!WindowKill
  <2>2. command[c].pc = "kill" /\ commands' = commands
    BY <1>8 DEF Monitor!WindowKill
  <2>3. command' = [command EXCEPT ![c] = [pc |-> pc, op |-> command[c].op]]
    BY <1>3, <2>1
  <2>4. CASE Monitor!Goes(c, "none") /\ UNCHANGED monitor
    BY <1>1, <1>2, <1>3, <1>4, <1>10, <2>2, <2>4, CommandGoes
  <2>5. CASE \E m \in Monitor!Loops : Monitor!Sets(m, Monitor!Off)
    <3>1. PICK m \in Monitors : monitor[m].pc # "off" /\ Monitor!Sets(m, Monitor!Off)
      BY <1>5, <2>5 DEF Monitor!Loops
    <3>2. Becomes(m, Monitor!Off)
      BY <1>2, <3>1 DEF Becomes, GoodMonitor, Monitor!Off, MonitorRecs
    <3>3. /\ MonitorInv' /\ monitor'[m] = Monitor!Off
          /\ \A n \in Monitors \ {m} : monitor'[n] = monitor[n]
      BY <1>2, <3>2, MonitorBecomes DEF MonitorsInv, MonitorInv
    <3>4. /\ CommandsTyped' /\ \A d \in MonitorCommands \ {c} : command'[d] = command[d]
      BY <1>1, <1>10, <2>3 DEF MonitorsInv, CommandsTyped
    <3>5. Monitor!Orderly => \A n \in Monitors : monitor'[n].pc = "off"
      BY <3>1, <3>3 DEF MonitorsInv, SingleInv, Monitor!Off
    <3>6. Monitor!Orderly => \A d \in MonitorCommands \ {c} : command'[d].pc = "none"
      BY <1>4, <2>2, <3>4
    <3>7. Monitor!Orderly' => SingleInv'
      BY <1>2, <1>10, <3>5, <3>6 DEF MonitorsInv, SingleInv
    <3> QED
      BY <1>2, <3>3, <3>4, <3>7 DEF MonitorsInv
  <2> QED
    BY <1>8, <2>4, <2>5 DEF Monitor!WindowKill
<1>9. CASE Monitor!WindowLaunch(c)
  <2>1. /\ command[c].pc = "launch" /\ commands' = commands
        /\ command' = [command EXCEPT ![c] = [pc |-> "none", op |-> command[c].op]]
    BY <1>3, <1>9 DEF Monitor!WindowLaunch
  <2>2. CASE UNCHANGED monitor
    BY <1>1, <1>2, <1>4, <1>10, <2>1, <2>2, CommandGoes
  <2>3. CASE \E m \in Monitors : Monitor!Begins(m, "loop")
    <3>1. PICK m \in Monitors : Monitor!Begins(m, "loop")
      BY <2>3
    <3>2. PICK r \in MonitorRecs : Becomes(m, r) /\ r.pc = "begin" /\ r.kind = "loop"
      BY <1>2, <3>1, BeginsStep DEF MonitorsInv
    <3>3. /\ MonitorInv' /\ monitor'[m] = r
          /\ \A n \in Monitors \ {m} : monitor'[n] = monitor[n]
      BY <1>2, <3>2, MonitorBecomes DEF MonitorsInv, MonitorInv
    <3>4. /\ CommandsTyped' /\ \A d \in MonitorCommands \ {c} : command'[d] = command[d]
          /\ command'[c].pc = "none"
      BY <1>1, <1>10, <2>1 DEF MonitorsInv, CommandsTyped
    <3>5. Monitor!Orderly => \A n \in Monitors \ {m} : monitor'[n].pc = "off"
      BY <2>1, <3>3 DEF MonitorsInv, SingleInv
    <3>6. Monitor!Orderly => \A d \in MonitorCommands : command'[d].pc = "none"
      BY <1>4, <2>1, <3>4
    <3>7. Monitor!Orderly' => SingleInv'
      BY <1>2, <1>10, <3>2, <3>3, <3>5, <3>6 DEF MonitorsInv, SingleInv
    <3> QED
      BY <1>2, <3>3, <3>4, <3>7 DEF MonitorsInv
  <2> QED
    BY <1>9, <2>2, <2>3 DEF Monitor!WindowLaunch
<1> QED
  BY <1>6, <1>7, <1>8, <1>9

\* Every step keeps it.
LEMMA MonitorsStep ==
  ASSUME MonitorConstants, MonitorsInv, [Monitor!Next]_Monitor!vars
  PROVE  MonitorsInv'
<1> USE DEF MonitorsInv
<1>1. CASE UNCHANGED Monitor!vars
  BY <1>1 DEF Monitor!vars, MonitorInv, GoodMonitor, Monitor!Off, Monitor!OnlyConfiguredPane,
              SingleInv, CommandsTyped, Monitor!Orderly
<1>2. ASSUME NEW m \in Monitors,
             \/ Monitor!ReadState(m) \/ Monitor!Observe(m) \/ Monitor!Judge(m) \/ Monitor!Send(m)
             \/ Monitor!Record(m) \/ Monitor!StartOther(m)
      PROVE  MonitorsInv'
  BY <1>2, MonitorStep
<1>3. ASSUME NEW c \in MonitorCommands,
             \/ Monitor!CommandBegin(c) \/ Monitor!WindowCheck(c) \/ Monitor!WindowKill(c)
             \/ Monitor!WindowLaunch(c)
      PROVE  MonitorsInv'
  BY <1>3, WindowStep
<1>4. CASE Monitor!Deploy
  <2>1. PICK p \in Policies : p.checkPane = bundle.checkPane /\ bundle' = p
    BY <1>4 DEF Monitor!Deploy
  <2>2. /\ bundle' \in Monitor!Policy /\ bundle'.checkPane = bundle.checkPane
        /\ UNCHANGED <<mode, pane, lastNudge, clock, monitor, command, commands, nudge>>
    BY <1>4, <2>1 DEF Monitor!Deploy, MonitorConstants
  <2> QED
    BY <2>2 DEF MonitorInv, GoodMonitor, Monitor!Off, Monitor!OnlyConfiguredPane, SingleInv,
                CommandsTyped, Monitor!Orderly
<1>5. CASE Monitor!Works \/ Monitor!PaneReplaced
  <2>1. /\ pane' \in Panes
        /\ UNCHANGED <<mode, bundle, lastNudge, clock, monitor, command, commands, nudge>>
    BY <1>5
    DEF Monitor!Works, Monitor!PaneReplaced, Monitor!Replaced, Monitor!Looks, MonitorInv, Panes
  <2> QED
    BY <2>1 DEF MonitorInv, GoodMonitor, Monitor!Off, Monitor!OnlyConfiguredPane, SingleInv,
                CommandsTyped, Monitor!Orderly
<1>6. CASE Monitor!Tick
  <2>1. /\ clock' = clock + 1 /\ clock \in Int
        /\ UNCHANGED <<mode, bundle, pane, lastNudge, monitor, command, commands, nudge>>
    BY <1>6 DEF Monitor!Tick, MonitorInv
  <2>2. MonitorInv' /\ CommandsTyped'
    BY <2>1 DEF MonitorInv, GoodMonitor, Monitor!Off, Monitor!OnlyConfiguredPane, CommandsTyped
  <2>3. nudge.at \in Int \cup {None} /\ lastNudge \in Int \cup {None}
    BY DEF MonitorInv, Nudges
  <2>4. Monitor!Orderly' => SingleInv'
    BY <2>1, <2>3 DEF SingleInv, MonitorConstants, Monitor!Orderly
  <2> QED
    BY <2>1, <2>2, <2>4
<1> QED
  BY <1>1, <1>2, <1>3, <1>4, <1>5, <1>6 DEF Monitor!Next

\* At first no monitor runs.
LEMMA MonitorsInit ==
  ASSUME MonitorConstants, Monitor!Init
  PROVE  MonitorsInv
<1>1. MonitorInv
  BY DEF Monitor!Init, Monitor!Off, MonitorInv, GoodMonitor, MonitorRecs, MonitorConstants, Nudges,
         Panes, Monitor!Configured, Monitor!Replaced, Monitor!OnlyConfiguredPane
<1>2. CommandsTyped
  BY DEF Monitor!Init, CommandsTyped
<1>3. SingleInv
  BY DEF Monitor!Init, Monitor!Off, SingleInv
<1> QED
  BY <1>1, <1>2, <1>3 DEF MonitorsInv

\* So the invariant of the monitors holds of every behaviour of theirs.
LEMMA MonitorsHold ==
  ASSUME MonitorConstants
  PROVE  Spec => [](kind = "monitor" => MonitorsInv)
<1>1. Init => (kind = "monitor" => MonitorsInv)
  BY OneBegins, MonitorsInit
<1>2. (kind = "monitor" => MonitorsInv) /\ [Next]_vars => (kind = "monitor" => MonitorsInv)'
  BY OneActs, MonitorsStep
<1> QED
  BY <1>1, <1>2, PTL DEF Spec

\* No text is typed into a pane that was not configured, for any monitors, commands
\* and policies, and whenever the window of the worker is made anew.
THEOREM OnlyConfiguredPaneTyped ==
  ASSUME MonitorConstants
  PROVE  Spec => []OnlyConfiguredPane
<1>1. (kind = "monitor" => MonitorsInv) => OnlyConfiguredPane
  BY DEF MonitorsInv, MonitorInv, OnlyConfiguredPane
<1> QED
  BY <1>1, MonitorsHold, PTL

\* Commands one at a time, of which none takes a window that is there for absent,
\* never leave two remote loops for one worker, whatever calls of ssh fail, with
\* effect or without.
THEOREM OneLoopStays ==
  ASSUME MonitorConstants
  PROVE  Spec => []OneLoop
<1>1. ASSUME MonitorsInv
      PROVE  Monitor!OneLoop
  <2>1. ASSUME Monitor!Orderly
        PROVE  Monitor!Cardinality(Monitor!Loops) <= 1
    <3>1. \A m, n \in Monitor!Loops : m = n
      BY <1>1, <2>1 DEF MonitorsInv, MonitorInv, SingleInv, GoodMonitor, Monitor!Off,
                        Monitor!Loops, MonitorConstants
    <3>2. Monitor!Cardinality(Monitor!Loops) = Cardinality(Monitor!Loops)
      BY DEF Monitor!Cardinality, Cardinality
    <3>3. CASE Monitor!Loops = {}
      BY <3>3, <3>2, FS_EmptySet
    <3>4. CASE Monitor!Loops # {}
      <4>1. PICK m : Monitor!Loops = {m}
        BY <3>1, <3>4
      <4>2. Cardinality({m}) = 1
        BY FS_Singleton
      <4> QED
        BY <3>2, <4>1, <4>2
    <3> QED
      BY <3>3, <3>4
  <2> QED
    BY <2>1 DEF Monitor!OneLoop
<1>2. (kind = "monitor" => MonitorsInv) => OneLoop
  BY <1>1 DEF OneLoop
<1> QED
  BY <1>2, MonitorsHold, PTL

\* With one remote loop and its commands in good order, two nudges are a cooldown
\* apart, for any cooldown and times, unless the loop ended or tmux failed before
\* state.json had the first.
THEOREM CooldownIsKept ==
  ASSUME MonitorConstants
  PROVE  Spec => KeepsCooldown
<1>1. ASSUME MonitorsInv, [Monitor!Next]_Monitor!vars
      PROVE  [Monitor!KeepsCooldown]_Monitor!vars
  <2> SUFFICES ASSUME Monitor!Orderly, nudge.kept, ~nudge'.kept
               PROVE  clock - nudge.at >= Cooldown
    BY DEF Monitor!KeepsCooldown
  <2>1. nudge' # nudge
    OBVIOUS
  <2>2. PICK m \in Monitors : Monitor!Send(m) \/ Monitor!Record(m)
    BY <1>1, <2>1
    DEF Monitor!Next, Monitor!vars, Monitor!ReadState, Monitor!Observe, Monitor!Judge,
        Monitor!StartOther, Monitor!CommandBegin, Monitor!WindowCheck, Monitor!WindowKill,
        Monitor!WindowLaunch, Monitor!Deploy, Monitor!Works, Monitor!PaneReplaced,
        Monitor!Tick, Monitor!besideCommands
  <2>3. nudge \in Nudges /\ clock \in Int /\ lastNudge \in Int \cup {None}
    BY <1>1 DEF MonitorsInv, MonitorInv
  <2>4. CASE Monitor!Send(m)
    <3>1. monitor[m].pc = "send"
      BY <2>4 DEF Monitor!Send, Monitor!At
    <3>2. /\ clock - lastNudge >= Cooldown /\ nudge.at <= lastNudge
          /\ nudge.at \in Int /\ lastNudge \in Int
      BY <1>1, <2>3, <3>1 DEF MonitorsInv, SingleInv, Nudges
    <3> QED
      BY <2>3, <3>2 DEF MonitorConstants
  <2>5. CASE Monitor!Record(m)
    BY <2>3, <2>5 DEF Monitor!Record, Nudges
  <2> QED
    BY <2>2, <2>4, <2>5
<1>2. (kind = "monitor" => MonitorsInv) /\ [Next]_vars
        => [kind = "monitor" => Monitor!KeepsCooldown]_vars
  <2>1. UNCHANGED Monitor!vars => UNCHANGED nudge
    BY DEF Monitor!vars
  <2> QED
    BY <1>1, <2>1, OneActs DEF Monitor!KeepsCooldown
<1> QED
  BY <1>2, MonitorsHold, PTL DEF Spec, KeepsCooldown

-----------------------------------------------------------------------------
(* A telemetry run                                                         *)

ThreadRecs == [pc : {"idle", "number", "body", "index"}, request : Nat, sequence : Nat]
IndexRows == [sequence : Nat, request : Nat]
Copies ==
  [there : BOOLEAN, left : SUBSET {"body", "index"}, body : Seq(Nat), index : Seq(IndexRows),
   whole : BOOLEAN, still : BOOLEAN]
Receivers == [state : {"up", "stopping", "dead"}, sequence : Nat, starts : Nat]

CaptureTypes ==
  /\ receiver \in Receivers /\ thread \in [Threads -> ThreadRecs]
  /\ body \in Seq(Nat) /\ index \in Seq(IndexRows) /\ requests \in Nat /\ local \in Copies

\* A thread that writes has a number of its own, which no row has yet.
Numbered(t) == thread[t].pc \in {"body", "index"}

NumbersApart ==
  /\ \A t \in Threads : Numbered(t) =>
       thread[t].sequence \in 1..receiver.sequence
  /\ \A t, u \in Threads : Numbered(t) /\ Numbered(u) /\ thread[t].sequence = thread[u].sequence
       => t = u
  /\ \A i \in 1..Len(index) : index[i].sequence \in 1..receiver.sequence
  /\ \A i \in 1..Len(index), t \in Threads : Numbered(t) =>
       index[i].sequence # thread[t].sequence

\* The row of a body that is written, or about to be.
Stored(n, request) == n \in 1..Len(body) /\ body[n] = request

RowsStored ==
  /\ \A t \in Threads : thread[t].pc = "index" => Stored(thread[t].sequence, thread[t].request)
  /\ \A i \in 1..Len(index) : Stored(index[i].sequence, index[i].request)

\* Once no request comes and none is under way nothing is written, and a copy begun
\* then is a copy.
CopyIsStill ==
  /\ local.left # {} => ~local.whole
  /\ local.still /\ (local.left # {} \/ local.whole) =>
       /\ receiver.state # "up" /\ \A t \in Threads : thread[t].pc = "idle"
       /\ "body" \notin local.left => local.body = body
       /\ "index" \notin local.left => local.index = index

CaptureInv == CaptureTypes /\ (mode = "once" => NumbersApart /\ RowsStored /\ CopyIsStill)

\* A body written under a number of its own leaves the others, and is there.
LEMMA BodyWritten ==
  ASSUME body \in Seq(Nat), NEW n \in Nat \ {0}, NEW request \in Nat,
         body' = [i \in 1..(IF n > Len(body) THEN n ELSE Len(body)) |->
                    IF i = n THEN request ELSE IF i <= Len(body) THEN body[i] ELSE 0]
  PROVE  /\ body' \in Seq(Nat) /\ Stored(n, request)'
         /\ \A m, r : m # n /\ Stored(m, r) => Stored(m, r)'
<1> DEFINE k == IF n > Len(body) THEN n ELSE Len(body)
<1>1. k \in Nat /\ Len(body) \in Nat /\ n \in 1..k /\ 1..Len(body) \subseteq 1..k
  OBVIOUS
<1>2. \A i \in 1..Len(body) : body[i] \in Nat
  BY ElementOfSeq
<1>3. body' \in [1..k -> Nat]
  BY <1>1, <1>2
<1>4. body' \in Seq(Nat)
  BY <1>1, <1>3, SeqDef
<1>5. Len(body') = k
  BY <1>1, <1>3, <1>4, LenProperties
<1>6. body'[n] = request /\ \A m \in 1..Len(body) : m # n => body'[m] = body[m]
  BY <1>1
<1> QED
  BY <1>1, <1>4, <1>5, <1>6 DEF Stored

\* A step of a thread.
LEMMA ThreadStep ==
  ASSUME CaptureInv, NEW t \in Threads,
         \/ Capture!Request(t) \/ Capture!Number(t) \/ Capture!WriteBody(t)
         \/ Capture!AppendRow(t)
  PROVE  CaptureInv'
<1>1. CaptureTypes /\ thread[t] \in ThreadRecs
  BY DEF CaptureInv, CaptureTypes
<1>2. UNCHANGED <<mode, local>>
  BY DEF Capture!Request, Capture!Number, Capture!Numbers, Capture!WriteBody,
         Capture!AppendRow, Capture!besideThread
<1>3. ASSUME NEW r \in ThreadRecs, thread' = [thread EXCEPT ![t] = r]
      PROVE  /\ thread' \in [Threads -> ThreadRecs] /\ thread'[t] = r
             /\ \A u \in Threads \ {t} : thread'[u] = thread[u]
  BY <1>1, <1>3 DEF CaptureTypes
\* No copy is still while a request comes or is under way.
<1>4. ASSUME mode = "once", CopyIsStill, receiver.state = "up" \/ thread[t].pc # "idle"
      PROVE  CopyIsStill'
  BY <1>2, <1>4 DEF CopyIsStill
<1>6. CASE Capture!Request(t)
  <2> DEFINE r == [Capture!Idle EXCEPT !.pc = "number", !.request = requests']
  <2>1. /\ receiver.state = "up" /\ requests' = requests + 1 /\ thread' = [thread EXCEPT ![t] = r]
        /\ UNCHANGED <<receiver, body, index>>
    BY <1>6 DEF Capture!Request
  <2>2. r \in ThreadRecs /\ r.pc = "number" /\ requests' \in Nat
    <3>1. requests' \in Nat
      BY <1>1, <2>1 DEF CaptureTypes
    <3>2. \A q \in Nat :
            /\ [Capture!Idle EXCEPT !.pc = "number", !.request = q] \in ThreadRecs
            /\ [Capture!Idle EXCEPT !.pc = "number", !.request = q].pc = "number"
      BY DEF Capture!Idle, ThreadRecs
    <3> QED
      BY <3>1, <3>2
  <2>3. /\ thread' \in [Threads -> ThreadRecs] /\ thread'[t] = r
        /\ \A u \in Threads \ {t} : thread'[u] = thread[u]
    BY <1>3, <2>1, <2>2
  <2> HIDE DEF r
  <2>4. CaptureTypes'
    BY <1>1, <1>2, <2>1, <2>2, <2>3 DEF CaptureTypes
  <2>5. ASSUME mode = "once"
        PROVE  NumbersApart' /\ RowsStored' /\ CopyIsStill'
    BY <1>4, <2>1, <2>2, <2>3, <2>5 DEF CaptureInv, NumbersApart, RowsStored, Numbered, Stored
  <2> QED
    BY <1>2, <2>4, <2>5 DEF CaptureInv
<1>7. CASE Capture!Number(t)
  <2> DEFINE n == receiver.sequence + 1
             r == [thread[t] EXCEPT !.pc = "body", !.sequence = n]
  <2>1. /\ thread[t].pc = "number" /\ thread' = [thread EXCEPT ![t] = r]
        /\ receiver' = [receiver EXCEPT !.sequence = n] /\ UNCHANGED <<body, index, requests>>
    BY <1>1, <1>7 DEF Capture!Number, Capture!Numbers, Capture!At, CaptureTypes
  <2>2. r \in ThreadRecs /\ r.pc = "body" /\ r.sequence = n /\ n \in Nat
    <3>1. n \in Nat
      BY <1>1 DEF CaptureTypes, Receivers
    <3> HIDE DEF n
    <3> QED
      BY <1>1, <3>1 DEF ThreadRecs
  <2>3. /\ receiver' \in Receivers /\ receiver'.sequence = n /\ receiver'.state = receiver.state
        /\ receiver.sequence \in Nat
    BY <1>1, <2>1, <2>2 DEF CaptureTypes, Receivers
  <2>4. /\ thread' \in [Threads -> ThreadRecs] /\ thread'[t] = r
        /\ \A u \in Threads \ {t} : thread'[u] = thread[u]
    BY <1>3, <2>1, <2>2
  <2>5. CaptureTypes'
    BY <1>1, <1>2, <2>1, <2>3, <2>4 DEF CaptureTypes
  <2>6. n = receiver.sequence + 1 /\ \A k \in 1..receiver.sequence : k \in 1..n /\ k # n
    BY <2>3
  <2> HIDE DEF n, r
  <2>7. ASSUME mode = "once"
        PROVE  NumbersApart'
    <3>1. NumbersApart /\ n \in 1..n
      BY <2>2, <2>3, <2>6, <2>7 DEF CaptureInv
    <3>2. \A u \in Threads : Numbered(u)' <=> (u = t \/ Numbered(u))
      BY <2>2, <2>4 DEF Numbered
    <3>3. \A u \in Threads : Numbered(u) => thread[u].sequence # n
      BY <2>6, <3>1 DEF NumbersApart
    <3>4. \A i \in 1..Len(index) : index[i].sequence # n
      BY <2>6, <3>1 DEF NumbersApart
    <3> QED
      BY <2>1, <2>2, <2>3, <2>4, <2>6, <3>1, <3>2, <3>3, <3>4 DEF NumbersApart
  <2>8. ASSUME mode = "once"
        PROVE  RowsStored' /\ CopyIsStill'
    BY <1>4, <2>1, <2>2, <2>3, <2>4, <2>8 DEF CaptureInv, RowsStored, Stored
  <2> QED
    BY <1>2, <2>5, <2>7, <2>8 DEF CaptureInv
<1>8. CASE Capture!WriteBody(t)
  <2> DEFINE n == thread[t].sequence
             r == [thread[t] EXCEPT !.pc = "index"]
  <2>1. /\ thread[t].pc = "body" /\ thread' = [thread EXCEPT ![t] = r]
        /\ body' = [i \in 1..(IF n > Len(body) THEN n ELSE Len(body)) |->
                      IF i = n THEN thread[t].request ELSE IF i <= Len(body) THEN body[i] ELSE 0]
        /\ UNCHANGED <<receiver, index, requests>>
    BY <1>1, <1>8 DEF Capture!WriteBody, Capture!Goes, Capture!At, CaptureTypes
  <2>2. r \in ThreadRecs /\ r.pc = "index" /\ r.sequence = n /\ r.request = thread[t].request
      /\ n \in Nat /\ thread[t].request \in Nat
    BY <1>1 DEF ThreadRecs
  <2>3. /\ thread' \in [Threads -> ThreadRecs] /\ thread'[t] = r
        /\ \A u \in Threads \ {t} : thread'[u] = thread[u]
    BY <1>3, <2>1, <2>2
  <2> HIDE DEF r
  <2>4. body' \in Seq(Nat)
    <3>1. CASE n = 0
      <4>1. /\ Len(body) \in Nat /\ \A i \in 1..Len(body) : body[i] \in Nat
            /\ body' = [i \in 1..Len(body) |-> body[i]]
        BY <1>1, <2>1, <2>2, <3>1, ElementOfSeq, LenProperties DEF CaptureTypes
      <4> QED
        BY <4>1, SeqDef
    <3>2. CASE n # 0
      BY <1>1, <2>1, <2>2, <3>2, BodyWritten DEF CaptureTypes
    <3> QED
      BY <3>1, <3>2
  <2>5. CaptureTypes'
    BY <1>1, <1>2, <2>1, <2>3, <2>4 DEF CaptureTypes
  <2>6. ASSUME mode = "once"
        PROVE  NumbersApart' /\ RowsStored' /\ CopyIsStill'
    <3>1. NumbersApart /\ RowsStored /\ CopyIsStill /\ Numbered(t)
      BY <2>1, <2>6 DEF CaptureInv, Numbered
    <3>2. \A u \in Threads : Numbered(u)' <=> Numbered(u)
      BY <2>1, <2>2, <2>3 DEF Numbered
    <3>3. \A u \in Threads : thread'[u].sequence = thread[u].sequence
      BY <2>2, <2>3
    <3>4. NumbersApart'
      BY <2>1, <3>1, <3>2, <3>3 DEF NumbersApart
    <3>5. n \in Nat \ {0}
      BY <1>1, <2>2, <3>1 DEF NumbersApart, CaptureTypes, Receivers
    <3>6. /\ Stored(n, thread[t].request)'
          /\ \A m, q : m # n /\ Stored(m, q) => Stored(m, q)'
      <4> DEFINE request == thread[t].request
      <4>1. body' \in Seq(Nat)
        BY <2>4
      <4> QED
        BY <1>1, <2>1, <2>2, <3>5, BodyWritten DEF CaptureTypes
    <3>7. RowsStored'
      BY <2>1, <2>2, <2>3, <3>1, <3>6 DEF RowsStored, NumbersApart, Numbered
    <3>8. CopyIsStill'
      BY <1>4, <2>1, <2>6, <3>1
    <3> QED
      BY <3>4, <3>7, <3>8
  <2> QED
    BY <1>2, <2>5, <2>6 DEF CaptureInv
<1>9. CASE Capture!AppendRow(t)
  <2> DEFINE r == [sequence |-> thread[t].sequence, request |-> thread[t].request]
  <2>1. /\ thread[t].pc = "index" /\ index' = Append(index, r)
        /\ thread' = [thread EXCEPT ![t] = Capture!Idle] /\ UNCHANGED <<receiver, body, requests>>
    BY <1>9 DEF Capture!AppendRow, Capture!At
  <2>2. Capture!Idle \in ThreadRecs /\ Capture!Idle.pc = "idle"
    BY DEF Capture!Idle, ThreadRecs
  <2>3. /\ thread' \in [Threads -> ThreadRecs] /\ thread'[t].pc = "idle"
        /\ \A u \in Threads \ {t} : thread'[u] = thread[u]
    BY <1>3, <2>1, <2>2
  <2>4. r \in IndexRows /\ r.sequence = thread[t].sequence /\ r.request = thread[t].request
    BY <1>1 DEF ThreadRecs, IndexRows
  <2> HIDE DEF r
  <2>5. /\ index' \in Seq(IndexRows) /\ Len(index') = Len(index) + 1 /\ Len(index) \in Nat
        /\ \A i \in 1..Len(index) : index'[i] = index[i]
        /\ index'[Len(index) + 1] = r
    BY <1>1, <2>1, <2>4, AppendProperties, LenProperties DEF CaptureTypes
  <2>6. \A i \in 1..Len(index') : index'[i] = r \/ (i \in 1..Len(index) /\ index'[i] = index[i])
    BY <2>5
  <2>7. CaptureTypes'
    BY <1>1, <1>2, <2>1, <2>3, <2>5 DEF CaptureTypes
  <2>8. ASSUME mode = "once"
        PROVE  NumbersApart' /\ RowsStored' /\ CopyIsStill'
    <3>1. NumbersApart /\ RowsStored /\ CopyIsStill /\ Numbered(t)
      BY <2>1, <2>8 DEF CaptureInv, Numbered
    <3>2. \A u \in Threads : Numbered(u)' <=> (u # t /\ Numbered(u))
      BY <2>3 DEF Numbered
    <3>3. NumbersApart'
      BY <2>1, <2>3, <2>4, <2>6, <3>1, <3>2 DEF NumbersApart
    <3>4. RowsStored'
      BY <2>1, <2>3, <2>4, <2>6, <3>1 DEF RowsStored, Stored
    <3>5. CopyIsStill'
      BY <1>4, <2>1, <2>8, <3>1
    <3> QED
      BY <3>3, <3>4, <3>5
  <2> QED
    BY <1>2, <2>7, <2>8 DEF CaptureInv
<1> QED
  BY <1>6, <1>7, <1>8, <1>9

\* Telling the receiver to stop, its end, and starting it again, which a run of one
\* receiver does not.
LEMMA ReceiverStep ==
  ASSUME CaptureInv, Capture!Stop \/ Capture!Killed \/ Capture!StartAgain
  PROVE  CaptureInv'
<1>1. CaptureTypes
  BY DEF CaptureInv
<1>4. CASE Capture!Stop
  <2>1. /\ receiver' = [receiver EXCEPT !.state = "stopping"]
        /\ UNCHANGED <<mode, local, thread, body, index, requests>>
    BY <1>4 DEF Capture!Stop, Capture!besideThread
  <2>2. /\ receiver' \in Receivers /\ receiver'.sequence = receiver.sequence
        /\ receiver'.state # "up"
    BY <1>1, <2>1 DEF CaptureTypes, Receivers
  <2> QED
    BY <1>1, <2>1, <2>2
    DEF CaptureInv, CaptureTypes, NumbersApart, RowsStored, CopyIsStill, Numbered, Stored
<1>2. CASE Capture!Killed
  <2>1. /\ receiver' = [receiver EXCEPT !.state = "dead"]
        /\ thread' = [t \in Threads |-> Capture!Idle]
        /\ UNCHANGED <<mode, local, body, index, requests>>
    BY <1>2 DEF Capture!Killed, Capture!besideThread
  <2>2. /\ receiver' \in Receivers /\ receiver'.sequence = receiver.sequence
        /\ receiver'.state # "up"
        /\ thread' \in [Threads -> ThreadRecs] /\ \A t \in Threads : thread'[t].pc = "idle"
    BY <1>1, <2>1 DEF CaptureTypes, Receivers, ThreadRecs, Capture!Idle
  <2> QED
    BY <1>1, <2>1, <2>2
    DEF CaptureInv, CaptureTypes, NumbersApart, RowsStored, CopyIsStill, Numbered, Stored
<1>3. CASE Capture!StartAgain
  <2>1. /\ receiver' = [state |-> "up", sequence |-> 0, starts |-> receiver.starts + 1]
        /\ local' = [local EXCEPT !.still = FALSE] /\ mode' # "once"
        /\ UNCHANGED <<mode, thread, body, index, requests>>
    BY <1>3 DEF Capture!StartAgain
  <2>2. receiver' \in Receivers
    BY <1>1, <2>1 DEF CaptureTypes, Receivers
  <2>3. local' \in Copies
    BY <1>1, <2>1 DEF CaptureTypes, Copies
  <2> QED
    BY <1>1, <2>1, <2>2, <2>3 DEF CaptureInv, CaptureTypes
<1> QED
  BY <1>2, <1>3, <1>4

\* A step of a pull.
LEMMA PullStep ==
  ASSUME CaptureInv,
         Capture!Pull \/ Capture!Copy("body") \/ Capture!Copy("index") \/ Capture!PullFails
  PROVE  CaptureInv'
<1>1. CaptureTypes /\ local \in Copies /\ receiver \in Receivers
  BY DEF CaptureInv, CaptureTypes
<1>2. UNCHANGED <<mode, receiver, thread, body, index, requests>>
  BY DEF Capture!Pull, Capture!Copy, Capture!PullFails, Capture!besidePull
<1>3. ASSUME local' \in Copies, mode = "once" => CopyIsStill'
      PROVE  CaptureInv'
  BY <1>1, <1>2, <1>3 DEF CaptureInv, CaptureTypes, NumbersApart, RowsStored, Numbered, Stored
<1>4. CASE Capture!Pull
  <2> DEFINE quiet == receiver.state # "up" /\ \A t \in Threads : thread[t].pc = "idle"
  <2>1. \/ local' = [Capture!NoCopy EXCEPT !.there = TRUE, !.left = {"body", "index"},
                                          !.still = quiet]
        \/ local' = Capture!NoCopy
    BY <1>4 DEF Capture!Pull, Capture!At
  <2>4. quiet \in BOOLEAN
    OBVIOUS
  <2>2. << >> \in Seq(Nat) /\ << >> \in Seq(IndexRows)
    OBVIOUS
  <2>3. /\ local' \in Copies /\ ~local'.whole /\ local'.left \in {{}, {"body", "index"}}
        /\ local'.still /\ local'.left # {} => quiet
    <3> HIDE DEF quiet
    <3>1. CASE local' = Capture!NoCopy
      BY <2>2, <3>1 DEF Capture!NoCopy, Copies
    <3>2. CASE local' = [there |-> TRUE, left |-> {"body", "index"}, body |-> << >>,
                         index |-> << >>, whole |-> FALSE, still |-> quiet]
      BY <2>2, <2>4, <3>2 DEF Copies
    <3> QED
      BY <2>1, <3>1, <3>2 DEF Capture!NoCopy
  <2> QED
    BY <1>2, <1>3, <2>3 DEF CaptureInv, CopyIsStill
<1>5. CASE Capture!PullFails
  <2>1. /\ local' \in Copies /\ local'.left = {} /\ local'.whole = local.whole /\ local.left # {}
    BY <1>1, <1>5 DEF Capture!PullFails, Copies
  <2> QED
    BY <1>2, <1>3, <2>1 DEF CaptureInv, CopyIsStill
<1>6. CASE Capture!Copy("body")
  <2>1. /\ "body" \in local.left
        /\ local' = [local EXCEPT !.left = @ \ {"body"}, !.whole = local.left = {"body"},
                                  !.body = body]
    BY <1>6 DEF Capture!Copy
  <2>2. /\ local' \in Copies /\ local'.left = local.left \ {"body"}
        /\ local'.whole = (local.left = {"body"}) /\ local'.body = body
        /\ local'.index = local.index /\ local'.still = local.still
    BY <1>1, <2>1 DEF Copies, CaptureTypes
  <2> QED
    BY <1>2, <1>3, <2>1, <2>2 DEF CaptureInv, CopyIsStill
<1>7. CASE Capture!Copy("index")
  <2>1. /\ "index" \in local.left
        /\ local' = [local EXCEPT !.left = @ \ {"index"}, !.whole = local.left = {"index"},
                                  !.index = index]
    BY <1>7 DEF Capture!Copy
  <2>2. /\ local' \in Copies /\ local'.left = local.left \ {"index"}
        /\ local'.whole = (local.left = {"index"}) /\ local'.index = index
        /\ local'.body = local.body /\ local'.still = local.still
    BY <1>1, <2>1 DEF Copies, CaptureTypes
  <2> QED
    BY <1>2, <1>3, <2>1, <2>2 DEF CaptureInv, CopyIsStill
<1> QED
  BY <1>4, <1>5, <1>6, <1>7

\* Every step keeps it.
LEMMA CaptureStep ==
  ASSUME CaptureInv, [Capture!Next]_Capture!vars
  PROVE  CaptureInv'
<1>1. CASE UNCHANGED Capture!vars
  BY <1>1 DEF Capture!vars, CaptureInv, CaptureTypes, NumbersApart, RowsStored, CopyIsStill,
              Numbered, Stored
<1> QED
  BY <1>1, ThreadStep, ReceiverStep, PullStep DEF Capture!Next

\* Each row of the index has the body of its own request, for any number of threads
\* and requests and wherever the receiver is stopped or killed; so it is in a copy
\* that was pulled whole once no request came or was under way.
THEOREM RowsHaveTheirBodies == Spec => []IndexedIsStored
<1>1. Capture!Init => CaptureInv
  <2> SUFFICES ASSUME Capture!Init
               PROVE  CaptureInv
    OBVIOUS
  <2>1. << >> \in Seq(Nat) /\ << >> \in Seq(IndexRows) /\ Len(<< >>) = 0
    OBVIOUS
  <2>2. CaptureTypes
    BY <2>1 DEF Capture!Init, Capture!Idle, Capture!NoCopy, CaptureTypes, Receivers, ThreadRecs,
                Copies
  <2>3. NumbersApart /\ RowsStored /\ CopyIsStill
    BY <2>1 DEF Capture!Init, Capture!Idle, Capture!NoCopy, NumbersApart, RowsStored, CopyIsStill,
                Numbered
  <2> QED
    BY <2>2, <2>3 DEF CaptureInv
<1>2. ASSUME CaptureInv
      PROVE  Capture!IndexedIsStored
  <2>1. /\ DOMAIN index = 1..Len(index) /\ DOMAIN body = 1..Len(body)
    BY <1>2, LenProperties DEF CaptureInv, CaptureTypes
  <2>2. ASSUME mode = "once"
        PROVE  Capture!RowsHaveBodies(index, body)
    BY <1>2, <2>1, <2>2 DEF CaptureInv, RowsStored, Stored, Capture!RowsHaveBodies
  <2>3. ASSUME mode = "once", local.whole, local.still
        PROVE  local.index = index /\ local.body = body
    BY <1>2, <2>3 DEF CaptureInv, CopyIsStill
  <2> QED
    BY <2>2, <2>3 DEF Capture!IndexedIsStored
<1>3. Init => (kind = "capture" => CaptureInv)
  BY <1>1, OneBegins
<1>4. (kind = "capture" => CaptureInv) /\ [Next]_vars => (kind = "capture" => CaptureInv)'
  BY OneActs, CaptureStep
<1>5. (kind = "capture" => CaptureInv) => IndexedIsStored
  BY <1>2 DEF IndexedIsStored
<1> QED
  BY <1>3, <1>4, <1>5, PTL DEF Spec

-----------------------------------------------------------------------------
(* The feed of the dashboard                                               *)

FeedEvents == [task : FeedTasks, view : Int \ {0}]

\* The tasks are finite, and no queue is None.
FeedConstants == IsFiniteSet(FeedTasks) /\ None \notin Seq(FeedEvents)

FeedPublishers ==
  [pc : {"idle", "latest", "emit"}, task : FeedTasks \cup {None}, view : Int]
FeedPages ==
  [stream : {"closed", "connecting", "subscribed", "open"}, replay : Seq(FeedEvents),
   list : [FeedTasks -> Int] \cup {None}, loaded : BOOLEAN, shown : [FeedTasks -> Int],
   known : SUBSET FeedTasks, deleted : SUBSET FeedTasks, buffered : Seq(FeedEvents),
   unknown : [FeedTasks -> Int], asked : [FeedTasks -> {"no", "sent", "there", "missing"}]]

\* A publisher at work has a view of a task, and a page that has asked has a queue.
FeedTypes ==
  /\ row \in [FeedTasks -> Int] /\ latest \in [FeedTasks -> Int]
  /\ publisher \in [Publishers -> FeedPublishers]
  /\ \A p \in Publishers :
       IF publisher[p].pc = "idle" THEN publisher[p] = Feed!Idle
       ELSE publisher[p].task \in FeedTasks /\ publisher[p].view # 0
  /\ page \in FeedPages
  /\ IF page.stream \in {"closed", "connecting"} THEN queue = None ELSE queue \in Seq(FeedEvents)

\* The page shows the tasks it knows, none of them deleted, and before it has the
\* list it knows of none.
PageHolds(q) ==
  /\ \A t \in FeedTasks : q.shown[t] # 0 <=> t \in q.known
  /\ q.known \cap q.deleted = {}
  /\ ~q.loaded => q.known = {} /\ \A t \in FeedTasks : q.asked[t] = "no"

\* What the page takes for a task that is there: it shows it, or is about to.
Believed(q, t) ==
  t \in q.known \/ (q.list # None /\ q.list[t] > 0) \/ q.asked[t] = "there"

\* If it has missed nothing, the task is there, or the page will hear that it is not.
Heard ==
  ~gap => \A t \in FeedTasks :
            Believed(page, t) /\ t \notin page.deleted
              => Feed!Exists(t) \/ Feed!TombstoneUnderWay(t)

FeedInv == FeedTypes /\ PageHolds(page) /\ Heard

\* A page that is not open holds nothing.
LEMMA FeedInit ==
  ASSUME Feed!Init
  PROVE  FeedInv
<1>1. /\ << >> \in Seq(FeedEvents) /\ Feed!Nothing \in [FeedTasks -> Int]
  BY DEF Feed!Nothing
<1>2. page = [stream |-> "closed", replay |-> <<>>, list |-> None, loaded |-> FALSE,
              shown |-> Feed!Nothing, known |-> {}, deleted |-> {}, buffered |-> <<>>,
              unknown |-> Feed!Nothing, asked |-> [t \in FeedTasks |-> "no"]]
  BY DEF Feed!Init, Feed!NewPage
<1>3. page \in FeedPages /\ page.stream = "closed"
  BY <1>1, <1>2 DEF FeedPages
<1>4. FeedTypes
  BY <1>1, <1>3 DEF Feed!Init, Feed!Idle, FeedTypes, FeedPublishers
<1>5. PageHolds(page) /\ \A t \in FeedTasks : ~Believed(page, t)
  BY <1>2 DEF PageHolds, Believed, Feed!Nothing
<1> QED
  BY <1>4, <1>5 DEF FeedInv, Heard

\* A publisher begins with a view that is there, or with the tombstone.
LEMMA PublishStep ==
  ASSUME FeedInv, NEW p \in Publishers, NEW t \in FeedTasks, NEW view \in Int \ {0},
         Feed!Publishes(p, t, view), row' \in [FeedTasks -> Int],
         \A u \in FeedTasks : row[u] > 0 => row'[u] > 0 \/ (u = t /\ view = Feed!Gone)
  PROVE  FeedInv'
<1>1. /\ publisher[p] = Feed!Idle
      /\ publisher' = [publisher EXCEPT ![p] = [pc |-> "latest", task |-> t, view |-> view]]
      /\ UNCHANGED <<mode, page, latest, queue, gap>>
  BY DEF Feed!Publishes, Feed!besideServer
<1>2. /\ publisher' \in [Publishers -> FeedPublishers]
      /\ publisher'[p] = [pc |-> "latest", task |-> t, view |-> view]
      /\ \A q \in Publishers \ {p} : publisher'[q] = publisher[q]
  BY <1>1 DEF FeedInv, FeedTypes, FeedPublishers
<1>3. FeedTypes'
  BY <1>1, <1>2 DEF FeedInv, FeedTypes, Feed!Idle
<1>4. PageHolds(page)'
  BY <1>1 DEF FeedInv, PageHolds
<1>5. ASSUME NEW u \in FeedTasks, Feed!TombstoneUnderWay(u)
      PROVE  Feed!TombstoneUnderWay(u)'
  BY <1>1, <1>2, <1>5 DEF Feed!TombstoneUnderWay, Feed!Idle, Feed!Gone
<1>6. view = Feed!Gone => Feed!TombstoneUnderWay(t)'
  BY <1>2 DEF Feed!TombstoneUnderWay, Feed!Gone
<1>7. Heard'
  BY <1>1, <1>5, <1>6 DEF FeedInv, Heard, Believed, Feed!Exists
<1> QED
  BY <1>3, <1>4, <1>7 DEF FeedInv

\* A view on its way to the queues is on its way.
LEMMA RenderStep ==
  ASSUME FeedInv, NEW p \in Publishers, Feed!RenderLatest(p)
  PROVE  FeedInv'
<1>1. /\ publisher[p].pc = "latest" /\ publisher' = [publisher EXCEPT ![p].pc = "emit"]
      /\ UNCHANGED <<mode, page, row, queue, gap>>
      /\ latest' = [latest EXCEPT ![publisher[p].task] =
                      IF publisher[p].view = Feed!Gone THEN 0 ELSE publisher[p].view]
  BY DEF Feed!RenderLatest, Feed!besideServer
<1>2. publisher \in [Publishers -> FeedPublishers] /\ latest \in [FeedTasks -> Int]
  BY DEF FeedInv, FeedTypes
<1>3. publisher[p] \in FeedPublishers
  BY <1>2
<1>4. latest' \in [FeedTasks -> Int]
  <2> DEFINE v == IF publisher[p].view = Feed!Gone THEN 0 ELSE publisher[p].view
  <2>1. v \in Int
    BY <1>3 DEF FeedPublishers
  <2>2. latest' = [latest EXCEPT ![publisher[p].task] = v]
    BY <1>1
  <2> HIDE DEF v
  <2> QED
    BY <1>2, <2>1, <2>2
<1>5. [publisher[p] EXCEPT !.pc = "emit"] \in FeedPublishers
      /\ [publisher[p] EXCEPT !.pc = "emit"].pc = "emit"
      /\ [publisher[p] EXCEPT !.pc = "emit"].task = publisher[p].task
      /\ [publisher[p] EXCEPT !.pc = "emit"].view = publisher[p].view
  BY <1>3 DEF FeedPublishers
<1>6. /\ publisher' \in [Publishers -> FeedPublishers]
      /\ publisher'[p].pc = "emit" /\ publisher'[p].task = publisher[p].task
      /\ publisher'[p].view = publisher[p].view
      /\ \A q \in Publishers \ {p} : publisher'[q] = publisher[q]
  BY <1>1, <1>2, <1>5
<1>7. FeedTypes'
  BY <1>1, <1>4, <1>6 DEF FeedInv, FeedTypes
<1>8. \A u \in FeedTasks : Feed!TombstoneUnderWay(u) => Feed!TombstoneUnderWay(u)'
  BY <1>1, <1>6 DEF Feed!TombstoneUnderWay
<1> QED
  BY <1>1, <1>7, <1>8 DEF FeedInv, PageHolds, Heard, Believed, Feed!Exists

\* A queue that drops its oldest event has missed it; a page that hears of no
\* event has not asked yet, or has missed it.
LEMMA EmitStep ==
  ASSUME FeedConstants, FeedInv, NEW p \in Publishers, Feed!Emit(p)
  PROVE  FeedInv'
<1> DEFINE e == [task |-> publisher[p].task, view |-> publisher[p].view]
<1>1. /\ publisher[p].pc = "emit" /\ publisher' = [publisher EXCEPT ![p] = Feed!Idle]
      /\ UNCHANGED <<mode, page, row, latest>>
  BY DEF Feed!Emit, Feed!besideServer
<1>2. \/ /\ queue = None /\ UNCHANGED queue
         /\ ~gap' => ~gap /\ page.list = None /\ ~page.loaded
      \/ queue # None /\ queue' = Append(queue, e) /\ (~gap' => ~gap)
      \/ queue # None /\ queue' = Append(Tail(queue), e) /\ gap'
  <2>1. CASE queue = None
    BY <2>1 DEF Feed!Emit
  <2>2. CASE queue # None /\ Len(queue) # QueueSize
    BY <2>2 DEF Feed!Emit
  <2>3. CASE queue # None /\ Len(queue) = QueueSize
    BY <2>3 DEF Feed!Emit
  <2> QED
    BY <2>1, <2>2, <2>3
<1>3. publisher \in [Publishers -> FeedPublishers] /\ publisher[p] \in FeedPublishers
  BY DEF FeedInv, FeedTypes
<1>4. e \in FeedEvents /\ e.task = publisher[p].task /\ e.view = publisher[p].view
  BY <1>1, <1>3 DEF FeedInv, FeedTypes, FeedPublishers, FeedEvents, Feed!Idle
<1> HIDE DEF e
<1>5. /\ publisher' \in [Publishers -> FeedPublishers] /\ publisher'[p] = Feed!Idle
      /\ \A q \in Publishers \ {p} : publisher'[q] = publisher[q]
  BY <1>1, <1>3 DEF FeedPublishers, Feed!Idle
<1>6. queue # None => queue \in Seq(FeedEvents) /\ page.stream \notin {"closed", "connecting"}
  BY DEF FeedInv, FeedTypes
<1>7. queue' = queue \/ (queue # None /\ queue' \in Seq(FeedEvents))
  <2>1. ASSUME queue # None
        PROVE  Append(queue, e) \in Seq(FeedEvents)
    BY <1>4, <1>6, <2>1, AppendProperties
  <2>2. ASSUME queue # None, queue = << >>
        PROVE  Tail(queue) = << >>
    BY <2>2
  <2>3. ASSUME queue # None
        PROVE  Append(Tail(queue), e) \in Seq(FeedEvents)
    <3>1. Tail(queue) \in Seq(FeedEvents)
      BY <1>6, <2>2, <2>3, HeadTailProperties
    <3> QED
      BY <1>4, <3>1, AppendProperties
  <2> QED
    BY <1>2, <2>1, <2>3
<1>8. FeedTypes'
  BY <1>1, <1>5, <1>6, <1>7 DEF FeedInv, FeedTypes, Feed!Idle
<1>9. ASSUME ~gap', queue = None, NEW t \in FeedTasks
      PROVE  ~Believed(page, t)
  BY <1>2, <1>9 DEF FeedInv, PageHolds, Believed
<1>10. ASSUME ~gap', queue # None, NEW t \in FeedTasks, Feed!TombstoneUnderWay(t)
       PROVE  Feed!TombstoneUnderWay(t)'
  <2>1. /\ queue' = Append(queue, e) /\ queue \in Seq(FeedEvents)
        /\ Len(queue') = Len(queue) + 1 /\ Len(queue) \in Nat
        /\ \A i \in 1..Len(queue) : queue'[i] = queue[i]
        /\ queue'[Len(queue) + 1] = e
        /\ DOMAIN queue' = 1..(Len(queue) + 1) /\ DOMAIN queue = 1..Len(queue)
    BY <1>2, <1>4, <1>6, <1>10, AppendProperties, LenProperties
  <2>2. queue' # None
    BY <1>7, <1>10 DEF FeedConstants
  <2> QED
    BY <1>4, <1>5, <1>10, <2>1, <2>2 DEF Feed!TombstoneUnderWay
<1>11. Heard'
  BY <1>1, <1>2, <1>9, <1>10 DEF FeedInv, Heard, Believed, Feed!Exists
<1> QED
  BY <1>1, <1>8, <1>11 DEF FeedInv, PageHolds

\* What a step of the page, and of the server for it, has to show.
LEMMA PageBecomes ==
  ASSUME FeedInv, UNCHANGED <<row, publisher, latest>>,
         page' \in FeedPages, PageHolds(page'),
         IF page'.stream \in {"closed", "connecting"} THEN queue' = None
         ELSE queue' \in Seq(FeedEvents),
         ~gap' => ~gap,
         ASSUME ~gap', NEW t \in FeedTasks, t \notin page'.deleted
         PROVE  /\ Feed!TombstoneUnderWay(t) => Feed!TombstoneUnderWay(t)'
                /\ Believed(page', t) => (Believed(page, t) /\ t \notin page.deleted)
                                         \/ Feed!Exists(t)
  PROVE  FeedInv'
<1>1. FeedTypes'
  BY DEF FeedInv, FeedTypes
<1>2. Heard'
  BY DEF FeedInv, Heard, Feed!Exists, Believed
<1> QED
  BY <1>1, <1>2 DEF FeedInv, PageHolds

\* The stream opens with an empty queue and replays what is latest; a break that loses
\* an event has missed it.
LEMMA StreamStep ==
  ASSUME FeedConstants, FeedInv,
         Feed!Mount \/ Feed!Subscribe \/ Feed!Replay \/ Feed!Disconnect
  PROVE  FeedInv'
<1>1. page \in FeedPages /\ PageHolds(page) /\ << >> \in Seq(FeedEvents)
  BY DEF FeedInv, FeedTypes
<1>2. UNCHANGED <<row, publisher, latest>>
  BY DEF Feed!Mount, Feed!Subscribe, Feed!Replay, Feed!Disconnect, Feed!besidePage
<1>3. CASE Feed!Mount
  <2>1. /\ page.stream = "closed" /\ UNCHANGED <<queue, gap>>
        /\ page' = [stream |-> "connecting", replay |-> <<>>, list |-> None, loaded |-> FALSE,
                    shown |-> Feed!Nothing, known |-> {}, deleted |-> {}, buffered |-> <<>>,
                    unknown |-> Feed!Nothing, asked |-> [t \in FeedTasks |-> "no"]]
    BY <1>3 DEF Feed!Mount, Feed!NewPage
  <2>2. page' \in FeedPages /\ page'.stream = "connecting" /\ queue' = None
    BY <1>1, <2>1 DEF FeedPages, Feed!Nothing, FeedInv, FeedTypes
  <2>3. PageHolds(page') /\ \A t \in FeedTasks : ~Believed(page', t)
    BY <2>1 DEF PageHolds, Believed, Feed!Nothing
  <2>4. \A t \in FeedTasks : Feed!TombstoneUnderWay(t) => Feed!TombstoneUnderWay(t)'
    BY <1>2, <2>1 DEF Feed!TombstoneUnderWay
  <2> QED
    BY <1>2, <2>1, <2>2, <2>3, <2>4, PageBecomes
<1>4. CASE Feed!Subscribe
  <2>1. /\ page.stream = "connecting" /\ UNCHANGED gap /\ queue' = << >>
        /\ page' = [page EXCEPT !.stream = "subscribed"]
    BY <1>4 DEF Feed!Subscribe
  <2>2. page' \in FeedPages /\ page'.stream = "subscribed" /\ queue = None
    BY <1>1, <2>1 DEF FeedPages, FeedInv, FeedTypes
  <2>3. PageHolds(page') /\ \A t \in FeedTasks : Believed(page', t) = Believed(page, t)
    BY <1>1, <2>1 DEF PageHolds, Believed, FeedPages
  <2>4. \A t \in FeedTasks : Feed!TombstoneUnderWay(t) => Feed!TombstoneUnderWay(t)'
    BY <1>2, <2>2 DEF Feed!TombstoneUnderWay
  <2>5. page'.deleted = page.deleted
    BY <1>1, <2>1 DEF FeedPages
  <2> QED
    BY <1>1, <1>2, <2>1, <2>2, <2>3, <2>4, <2>5, PageBecomes
<1>5. CASE Feed!Replay
  <2> DEFINE T == {t \in FeedTasks : latest[t] # 0}
  <2>1. PICK order \in [1..Feed!Cardinality(T) -> T] :
          page' = [page EXCEPT !.stream = "open",
                     !.replay = [i \in DOMAIN order |->
                                   [task |-> order[i], view |-> latest[order[i]]]]]
    BY <1>5 DEF Feed!Replay
  <2>2. page.stream = "subscribed" /\ UNCHANGED <<queue, gap>>
    BY <1>5 DEF Feed!Replay
  <2>3. Feed!Cardinality(T) \in Nat
    <3>1. IsFiniteSet(T)
      BY FS_Subset DEF FeedConstants
    <3>2. Feed!Cardinality(T) = Cardinality(T)
      BY DEF Feed!Cardinality, Cardinality
    <3> QED
      BY <3>1, <3>2, FS_CardinalityType
  <2>4. \A i \in 1..Feed!Cardinality(T) :
          [task |-> order[i], view |-> latest[order[i]]] \in FeedEvents
    BY DEF FeedEvents, FeedInv, FeedTypes
  <2> DEFINE n == Feed!Cardinality(T)
             s == [i \in DOMAIN order |-> [task |-> order[i], view |-> latest[order[i]]]]
  <2>5. s = [i \in 1..n |-> s[i]] /\ \A i \in 1..n : s[i] \in FeedEvents
    BY <2>4
  <2>6. page' = [page EXCEPT !.stream = "open", !.replay = s]
    BY <2>1
  <2> HIDE DEF s, n
  <2>7. s \in Seq(FeedEvents)
    <3>1. n \in Nat
      BY <2>3 DEF n
    <3>2. s \in [1..n -> FeedEvents]
      BY <2>5
    <3> QED
      BY <3>1, <3>2, SeqDef
  <2>8. page' \in FeedPages /\ page'.stream = "open" /\ queue' \in Seq(FeedEvents)
        /\ page'.deleted = page.deleted
    BY <1>1, <2>2, <2>6, <2>7 DEF FeedPages, FeedInv, FeedTypes
  <2>9. PageHolds(page') /\ \A t \in FeedTasks : Believed(page', t) = Believed(page, t)
    BY <1>1, <2>6 DEF PageHolds, Believed, FeedPages
  <2>10. \A t \in FeedTasks : Feed!TombstoneUnderWay(t) => Feed!TombstoneUnderWay(t)'
    BY <1>2, <2>2 DEF Feed!TombstoneUnderWay
  <2> QED
    BY <1>1, <1>2, <2>2, <2>8, <2>9, <2>10, PageBecomes
<1>6. CASE Feed!Disconnect
  <2>1. /\ page' = [page EXCEPT !.stream = "connecting", !.replay = <<>>]
        /\ queue' = None /\ (~gap' => ~gap /\ queue = << >>)
    BY <1>6 DEF Feed!Disconnect
  <2>2. page' \in FeedPages /\ page'.stream = "connecting" /\ page'.deleted = page.deleted
    BY <1>1, <2>1 DEF FeedPages
  <2>3. PageHolds(page') /\ \A t \in FeedTasks : Believed(page', t) = Believed(page, t)
    BY <1>1, <2>1 DEF PageHolds, Believed, FeedPages
  <2>4. ASSUME ~gap', NEW t \in FeedTasks, Feed!TombstoneUnderWay(t)
        PROVE  Feed!TombstoneUnderWay(t)'
    <3>1. DOMAIN queue = {}
      BY <2>1, <2>4
    <3> QED
      BY <1>2, <2>4, <3>1 DEF Feed!TombstoneUnderWay
  <2> QED
    BY <1>1, <1>2, <2>1, <2>2, <2>3, <2>4, PageBecomes
<1> QED
  BY <1>3, <1>4, <1>5, <1>6

\* A set of places in a list has a last one.
LEMMA LastExists ==
  ASSUME NEW n \in Nat, NEW T \in SUBSET (1..n), T # {}
  PROVE  \E i \in T : \A j \in T : j <= i
<1> DEFINE D == {n - i : i \in T}
           R == OpToRel(<, Nat)
<1>1. D \in SUBSET Nat /\ D # {}
  <2>1. \A i \in T : n - i \in Nat
    OBVIOUS
  <2>2. PICK i \in T : TRUE
    OBVIOUS
  <2>3. n - i \in D
    OBVIOUS
  <2> QED
    BY <2>1, <2>3
<1>2. PICK d \in D : \A e \in D : ~ (<<e, d>> \in R)
  <2>1. IsWellFoundedOn(R, Nat)
    BY NatLessThanWellFounded
  <2> HIDE DEF R, D
  <2> QED
    BY <1>1, <2>1, WFMin
<1>3. \A e \in D : ~ (e < d)
  BY <1>1, <1>2 DEF OpToRel
<1>4. PICK i \in T : d = n - i
  OBVIOUS
<1>5. \A j \in T : j <= i
  <2> TAKE j \in T
  <2>1. n - j \in D
    OBVIOUS
  <2> HIDE DEF D
  <2> QED
    BY <1>3, <1>4, <2>1
<1> QED
  BY <1>5

\* The last buffered event of a task is one of its views.
LEMMA LastBufferedIsView ==
  ASSUME page \in FeedPages, NEW t \in FeedTasks, Feed!Buffered(t) # {}
  PROVE  Feed!LastBuffered(t) \in Int \ {0}
<1>1. page.buffered \in Seq(FeedEvents)
  BY DEF FeedPages
<1>2. /\ DOMAIN page.buffered = 1..Len(page.buffered) /\ Len(page.buffered) \in Nat
      /\ \A i \in 1..Len(page.buffered) : page.buffered[i] \in FeedEvents
  BY <1>1, LenProperties, ElementOfSeq
<1>3. Feed!Buffered(t) \in SUBSET (1..Len(page.buffered))
  BY <1>2 DEF Feed!Buffered
<1>4. \E i \in Feed!Buffered(t) : \A j \in Feed!Buffered(t) : j <= i
  BY <1>2, <1>3, LastExists
<1>5. (CHOOSE i \in Feed!Buffered(t) : \A j \in Feed!Buffered(t) : j <= i) \in Feed!Buffered(t)
  BY <1>4
<1> QED
  BY <1>2, <1>3, <1>5 DEF Feed!LastBuffered, FeedEvents

\* The list has the tasks that are there.
LEMMA ListReadStep ==
  ASSUME FeedInv, Feed!ListRead
  PROVE  FeedInv'
<1>1. page \in FeedPages /\ PageHolds(page) /\ row \in [FeedTasks -> Int]
  BY DEF FeedInv, FeedTypes
<1>2. /\ UNCHANGED <<row, publisher, latest, queue, gap>>
      /\ page' = [page EXCEPT !.list = row]
  BY DEF Feed!ListRead, Feed!besidePage
<1>3. /\ page' \in FeedPages /\ page'.stream = page.stream /\ page'.deleted = page.deleted
      /\ page'.list = row
  BY <1>1, <1>2 DEF FeedPages
<1>4. PageHolds(page')
  BY <1>1, <1>2 DEF PageHolds, FeedPages
<1>5. \A t \in FeedTasks : Believed(page', t) => Believed(page, t) \/ Feed!Exists(t)
  BY <1>1, <1>2 DEF Believed, FeedPages, Feed!Exists
<1>6. \A t \in FeedTasks : Feed!TombstoneUnderWay(t) => Feed!TombstoneUnderWay(t)'
  BY <1>2 DEF Feed!TombstoneUnderWay
<1> QED
  BY <1>1, <1>2, <1>3, <1>4, <1>5, <1>6, PageBecomes DEF FeedInv, FeedTypes

\* The page takes from the list the tasks that it has not seen deleted.
LEMMA ListArrivesStep ==
  ASSUME FeedInv, Feed!ListArrives
  PROVE  FeedInv'
<1> DEFINE listed == Feed!Listed \ page.deleted
           shown == [t \in FeedTasks |-> IF t \in listed THEN Feed!WithBuffered[t] ELSE 0]
<1>1. page \in FeedPages /\ PageHolds(page) /\ << >> \in Seq(FeedEvents)
  BY DEF FeedInv, FeedTypes
<1>2. /\ UNCHANGED <<row, publisher, latest, queue>> /\ page.list # None /\ (~gap' => ~gap)
      /\ page' = [page EXCEPT !.list = None, !.loaded = TRUE, !.buffered = <<>>,
                      !.known = listed, !.shown = shown]
  BY DEF Feed!ListArrives, Feed!Loads, Feed!besidePage
<1>3. \A t \in listed : t \in FeedTasks /\ page.list[t] > 0 /\ t \notin page.deleted
  BY DEF Feed!Listed
<1>4. page.list \in [FeedTasks -> Int]
  BY <1>1, <1>2 DEF FeedPages
<1>5. \A t \in listed : Feed!WithBuffered[t] \in Int \ {0}
  BY <1>1, <1>3, <1>4, LastBufferedIsView DEF Feed!WithBuffered
<1>6. shown \in [FeedTasks -> Int] /\ \A t \in FeedTasks : shown[t] # 0 <=> t \in listed
  BY <1>5
<1> HIDE DEF listed, shown
<1>7. listed \in SUBSET FeedTasks
  BY <1>3
<1>8. /\ page' \in FeedPages /\ page'.stream = page.stream /\ page'.deleted = page.deleted
      /\ page'.list = None /\ page'.loaded /\ page'.known = listed /\ page'.shown = shown
      /\ page'.asked = page.asked
  BY <1>1, <1>2, <1>6, <1>7 DEF FeedPages
<1>9. PageHolds(page')
  BY <1>3, <1>6, <1>8 DEF PageHolds
<1>10. \A t \in FeedTasks : Believed(page', t) => Believed(page, t)
  BY <1>2, <1>3, <1>8 DEF Believed
<1>11. \A t \in FeedTasks : Feed!TombstoneUnderWay(t) => Feed!TombstoneUnderWay(t)'
  BY <1>2 DEF Feed!TombstoneUnderWay
<1> QED
  BY <1>1, <1>2, <1>8, <1>9, <1>10, <1>11, PageBecomes DEF FeedInv, FeedTypes

\* A task is confirmed only if it was there when the server read the list.
LEMMA ConfirmStep ==
  ASSUME FeedInv, NEW t \in FeedTasks, Feed!ConfirmRead(t) \/ Feed!ConfirmArrives(t)
  PROVE  FeedInv'
<1>1. page \in FeedPages /\ PageHolds(page)
  BY DEF FeedInv, FeedTypes
<1>2. UNCHANGED <<row, publisher, latest, queue>> /\ (~gap' => ~gap)
  BY DEF Feed!ConfirmRead, Feed!ConfirmArrives, Feed!besidePage
<1>3. page.asked[t] # "no" /\ page.loaded
  BY <1>1 DEF Feed!ConfirmRead, Feed!ConfirmArrives, PageHolds
<1>4. CASE Feed!ConfirmRead(t)
  <2>1. /\ page' \in FeedPages /\ page'.stream = page.stream /\ page'.deleted = page.deleted
        /\ PageHolds(page')
    BY <1>1, <1>3, <1>4 DEF Feed!ConfirmRead, FeedPages, PageHolds
  <2>2. \A u \in FeedTasks : Believed(page', u) => Believed(page, u) \/ Feed!Exists(u)
    BY <1>1, <1>4 DEF Feed!ConfirmRead, FeedPages, Believed
  <2>3. \A u \in FeedTasks : Feed!TombstoneUnderWay(u) => Feed!TombstoneUnderWay(u)'
    BY <1>2 DEF Feed!TombstoneUnderWay
  <2> QED
    BY <1>2, <2>1, <2>2, <2>3, PageBecomes DEF FeedInv, FeedTypes
<1>5. CASE Feed!ConfirmArrives(t)
  <2> DEFINE asked == [page.asked EXCEPT ![t] = "no"]
             shown == [page.shown EXCEPT ![t] = page.unknown[t]]
             unknown == [page.unknown EXCEPT ![t] = 0]
  <2>1. \/ page' = [page EXCEPT !.asked = asked]
        \/ /\ page.asked[t] = "there" /\ t \notin page.deleted /\ page.unknown[t] # 0
           /\ page' = [page EXCEPT !.asked = asked, !.known = page.known \cup {t},
                                   !.shown = shown, !.unknown = unknown]
    BY <1>5 DEF Feed!ConfirmArrives
  <2>2. /\ asked \in [FeedTasks -> {"no", "sent", "there", "missing"}]
        /\ asked[t] = "no" /\ \A u \in FeedTasks \ {t} : asked[u] = page.asked[u]
        /\ shown \in [FeedTasks -> Int] /\ unknown \in [FeedTasks -> Int]
        /\ shown[t] = page.unknown[t] /\ \A u \in FeedTasks \ {t} : shown[u] = page.shown[u]
    BY <1>1 DEF FeedPages
  <2> HIDE DEF asked, shown, unknown
  <2>3. /\ page' \in FeedPages /\ page'.stream = page.stream /\ page'.deleted = page.deleted
        /\ page'.loaded = page.loaded /\ page'.list = page.list /\ page'.asked = asked
        /\ \/ page'.known = page.known /\ page'.shown = page.shown
           \/ /\ page.asked[t] = "there" /\ t \notin page.deleted /\ page.unknown[t] # 0
              /\ page'.known = page.known \cup {t} /\ page'.shown = shown
    <3>1. CASE page' = [page EXCEPT !.asked = asked]
      BY <1>1, <2>2, <3>1 DEF FeedPages
    <3>2. CASE page' = [page EXCEPT !.asked = asked, !.known = page.known \cup {t},
                                    !.shown = shown, !.unknown = unknown]
      BY <1>1, <2>1, <2>2, <3>2 DEF FeedPages
    <3> QED
      BY <2>1, <3>1, <3>2
  <2>4. PageHolds(page')
    BY <1>1, <1>3, <2>2, <2>3 DEF PageHolds
  <2>5. \A u \in FeedTasks : Believed(page', u) => Believed(page, u)
    BY <2>2, <2>3 DEF Believed
  <2>6. \A u \in FeedTasks : Feed!TombstoneUnderWay(u) => Feed!TombstoneUnderWay(u)'
    BY <1>2 DEF Feed!TombstoneUnderWay
  <2> QED
    BY <1>2, <2>3, <2>4, <2>5, <2>6, PageBecomes DEF FeedInv, FeedTypes
<1> QED
  BY <1>4, <1>5

\* An event makes the page take no task for there that it did not, and none that the
\* event says is gone.
LEMMA OnLiveBecomes ==
  ASSUME page \in FeedPages, PageHolds(page), NEW t \in FeedTasks, NEW view \in Int \ {0}
  PROVE  LET q == Feed!OnLive(t, view)
         IN  /\ q \in FeedPages /\ PageHolds(q) /\ q.stream = page.stream
             /\ view = Feed!Gone => t \in q.deleted
             /\ page.deleted \subseteq q.deleted
             /\ \A u \in FeedTasks : u \notin q.deleted /\ Believed(q, u) => Believed(page, u)
<1> DEFINE q == Feed!OnLive(t, view)
<1>1. CASE view = Feed!Gone
  <2> DEFINE unknown == [page.unknown EXCEPT ![t] = 0]
             shown == [page.shown EXCEPT ![t] = 0]
  <2>1. q = [page EXCEPT !.deleted = page.deleted \cup {t}, !.known = page.known \ {t},
                         !.unknown = unknown, !.shown = shown]
    BY <1>1 DEF Feed!OnLive
  <2>2. /\ unknown \in [FeedTasks -> Int] /\ shown \in [FeedTasks -> Int]
        /\ shown[t] = 0 /\ \A u \in FeedTasks \ {t} : shown[u] = page.shown[u]
    BY DEF FeedPages
  <2> HIDE DEF unknown, shown, q
  <2>3. /\ q \in FeedPages /\ q.stream = page.stream /\ q.loaded = page.loaded
        /\ q.deleted = page.deleted \cup {t} /\ q.known = page.known \ {t}
        /\ q.shown = shown /\ q.asked = page.asked /\ q.list = page.list
    BY <2>1, <2>2 DEF FeedPages
  <2>4. PageHolds(q)
    BY <2>2, <2>3 DEF PageHolds
  <2> QED
    BY <2>3, <2>4 DEF Believed, q
<1>2. CASE view # Feed!Gone /\ t \in page.deleted
  <2>1. q = page
    BY <1>2 DEF Feed!OnLive
  <2> QED
    BY <1>2, <2>1
<1>3. CASE view # Feed!Gone /\ t \notin page.deleted /\ ~page.loaded
  <2> DEFINE buffered == Append(page.buffered, [task |-> t, view |-> view])
  <2>1. q = [page EXCEPT !.buffered = buffered]
    BY <1>3 DEF Feed!OnLive
  <2>2. [task |-> t, view |-> view] \in FeedEvents /\ page.buffered \in Seq(FeedEvents)
    BY DEF FeedEvents, FeedPages
  <2>3. buffered \in Seq(FeedEvents)
    BY <2>2, AppendProperties
  <2> HIDE DEF buffered, q
  <2>4. /\ q \in FeedPages /\ q.stream = page.stream /\ q.loaded = page.loaded
        /\ q.deleted = page.deleted /\ q.known = page.known
        /\ q.shown = page.shown /\ q.asked = page.asked /\ q.list = page.list
    BY <2>1, <2>3 DEF FeedPages
  <2> QED
    BY <1>3, <2>4 DEF PageHolds, Believed, q
<1>4. CASE view # Feed!Gone /\ t \notin page.deleted /\ page.loaded /\ t \notin page.known
  <2> DEFINE unknown == [page.unknown EXCEPT ![t] = view]
             asked == [page.asked EXCEPT ![t] = IF page.asked[t] = "no" THEN "sent"
                                                ELSE page.asked[t]]
  <2>1. q = [page EXCEPT !.unknown = unknown, !.asked = asked]
    BY <1>4 DEF Feed!OnLive
  <2>2. /\ unknown \in [FeedTasks -> Int]
        /\ asked \in [FeedTasks -> {"no", "sent", "there", "missing"}]
        /\ \A u \in FeedTasks : asked[u] = "there" => page.asked[u] = "there"
    BY DEF FeedPages
  <2> HIDE DEF unknown, asked, q
  <2>3. /\ q \in FeedPages /\ q.stream = page.stream /\ q.loaded = page.loaded
        /\ q.deleted = page.deleted /\ q.known = page.known
        /\ q.shown = page.shown /\ q.asked = asked /\ q.list = page.list
    BY <2>1, <2>2 DEF FeedPages
  <2> QED
    BY <1>4, <2>2, <2>3 DEF PageHolds, Believed, q
<1>5. CASE view # Feed!Gone /\ t \notin page.deleted /\ page.loaded /\ t \in page.known
  <2> DEFINE shown == [page.shown EXCEPT ![t] = view]
  <2>1. q = [page EXCEPT !.shown = shown]
    BY <1>5 DEF Feed!OnLive
  <2>2. /\ shown \in [FeedTasks -> Int]
        /\ shown[t] = view /\ \A u \in FeedTasks \ {t} : shown[u] = page.shown[u]
    BY DEF FeedPages
  <2> HIDE DEF shown, q
  <2>3. /\ q \in FeedPages /\ q.stream = page.stream /\ q.loaded = page.loaded
        /\ q.deleted = page.deleted /\ q.known = page.known
        /\ q.shown = shown /\ q.asked = page.asked /\ q.list = page.list
    BY <2>1, <2>2 DEF FeedPages
  <2> QED
    BY <1>5, <2>2, <2>3 DEF PageHolds, Believed, q
<1> QED
  BY <1>1, <1>2, <1>3, <1>4, <1>5

\* A tombstone leaves the queue when the page has the task deleted.
LEMMA ReceiveStep ==
  ASSUME FeedConstants, FeedInv, Feed!Receive
  PROVE  FeedInv'
<1>1. /\ page \in FeedPages /\ PageHolds(page) /\ page.stream = "open"
      /\ page.replay \in Seq(FeedEvents) /\ queue \in Seq(FeedEvents)
  BY DEF FeedInv, FeedTypes, Feed!Receive, FeedPages
<1>2. UNCHANGED <<row, publisher, latest, gap>>
  BY DEF Feed!Receive, Feed!besidePage
<1>3. CASE /\ page.replay # <<>> /\ UNCHANGED queue
           /\ page' = [Feed!OnLive(Head(page.replay).task, Head(page.replay).view)
                         EXCEPT !.replay = Tail(page.replay)]
  <2> DEFINE e == Head(page.replay)
             q == Feed!OnLive(e.task, e.view)
             rest == Tail(page.replay)
  <2>1. e \in FeedEvents /\ rest \in Seq(FeedEvents)
    BY <1>1, <1>3, HeadTailProperties
  <2>2. e.task \in FeedTasks /\ e.view \in Int \ {0}
    BY <2>1 DEF FeedEvents
  <2> HIDE DEF e
  <2>3. /\ q \in FeedPages /\ PageHolds(q) /\ q.stream = page.stream
        /\ page.deleted \subseteq q.deleted
        /\ \A u \in FeedTasks : u \notin q.deleted /\ Believed(q, u) => Believed(page, u)
    BY <1>1, <2>2, OnLiveBecomes
  <2>4. page' = [q EXCEPT !.replay = rest]
    BY <1>3 DEF e
  <2> HIDE DEF q, rest
  <2>5. /\ page' \in FeedPages /\ page'.stream = q.stream /\ page'.deleted = q.deleted
        /\ page'.known = q.known /\ page'.shown = q.shown /\ page'.asked = q.asked
        /\ page'.list = q.list /\ page'.loaded = q.loaded
    BY <2>1, <2>3, <2>4 DEF FeedPages
  <2>6. PageHolds(page')
    BY <2>3, <2>5 DEF PageHolds
  <2>7. \A u \in FeedTasks : u \notin page'.deleted /\ Believed(page', u)
                             => Believed(page, u) /\ u \notin page.deleted
    BY <2>3, <2>5 DEF Believed
  <2>8. \A u \in FeedTasks : Feed!TombstoneUnderWay(u) => Feed!TombstoneUnderWay(u)'
    BY <1>2, <1>3 DEF Feed!TombstoneUnderWay
  <2> QED
    BY <1>1, <1>2, <1>3, <2>3, <2>5, <2>6, <2>7, <2>8, PageBecomes
<1>4. CASE /\ queue # <<>> /\ queue' = Tail(queue)
           /\ page' = Feed!OnLive(Head(queue).task, Head(queue).view)
  <2> DEFINE e == Head(queue)
  <2>1. /\ e \in FeedEvents /\ queue' \in Seq(FeedEvents) /\ e = queue[1]
        /\ Len(queue) \in Nat /\ Len(queue') = Len(queue) - 1
        /\ \A i \in 1..Len(queue') : queue'[i] = queue[i + 1]
        /\ DOMAIN queue = 1..Len(queue) /\ DOMAIN queue' = 1..Len(queue')
    BY <1>1, <1>4, HeadTailProperties, LenProperties
  <2>2. e.task \in FeedTasks /\ e.view \in Int \ {0}
    BY <2>1 DEF FeedEvents
  <2> HIDE DEF e
  <2>3. page' = Feed!OnLive(e.task, e.view)
    BY <1>4 DEF e
  <2>4. /\ page' \in FeedPages /\ PageHolds(page') /\ page'.stream = page.stream
        /\ e.view = Feed!Gone => e.task \in page'.deleted
        /\ page.deleted \subseteq page'.deleted
        /\ \A u \in FeedTasks : u \notin page'.deleted /\ Believed(page', u) => Believed(page, u)
    BY <1>1, <2>2, <2>3, OnLiveBecomes
  <2>5. ASSUME NEW u \in FeedTasks, u \notin page'.deleted, Feed!TombstoneUnderWay(u),
               queue' # None
        PROVE  Feed!TombstoneUnderWay(u)'
    <3>1. CASE \E p \in Publishers : publisher[p].task = u /\ publisher[p].view = Feed!Gone
      BY <1>2, <3>1 DEF Feed!TombstoneUnderWay
    <3>2. CASE \E i \in DOMAIN queue : queue[i].task = u /\ queue[i].view = Feed!Gone
      <4>1. PICK i \in 1..Len(queue) : queue[i].task = u /\ queue[i].view = Feed!Gone
        BY <2>1, <3>2
      <4>2. i # 1
        BY <2>1, <2>4, <2>5, <4>1
      <4>3. i - 1 \in 1..Len(queue') /\ queue'[i - 1] = queue[i]
        BY <2>1, <4>2
      <4> QED
        BY <2>1, <2>5, <4>1, <4>3 DEF Feed!TombstoneUnderWay
    <3> QED
      BY <2>5, <3>1, <3>2 DEF Feed!TombstoneUnderWay
  <2>6. queue' # None
    BY <2>1 DEF FeedConstants
  <2> QED
    BY <1>1, <1>2, <2>1, <2>4, <2>5, <2>6, PageBecomes
<1> QED
  BY <1>3, <1>4 DEF Feed!Receive

\* Every step keeps the invariant.
LEMMA FeedStep ==
  ASSUME FeedConstants, FeedInv, [Feed!Next]_Feed!vars
  PROVE  FeedInv'
<1>1. CASE UNCHANGED Feed!vars
  BY <1>1 DEF Feed!vars, FeedInv, FeedTypes, PageHolds, Heard, Believed, Feed!Exists,
              Feed!TombstoneUnderWay
<1>2. ASSUME NEW p \in Publishers, NEW t \in FeedTasks,
             Feed!ChangeTask(p, t) \/ Feed!PublishTask(p, t) \/ Feed!EraseTask(p, t)
      PROVE  FeedInv'
  <2>1. row \in [FeedTasks -> Int] /\ row[t] \in Int
    BY DEF FeedInv, FeedTypes
  <2>2. CASE Feed!ChangeTask(p, t)
    <3>1. /\ Feed!Publishes(p, t, row[t] + 1) /\ row' = [row EXCEPT ![t] = row[t] + 1]
          /\ row[t] >= 0
      BY <2>1, <2>2 DEF Feed!ChangeTask
    <3>2. row[t] + 1 \in Int \ {0} /\ row' \in [FeedTasks -> Int]
          /\ \A u \in FeedTasks : row[u] > 0 => row'[u] > 0
      BY <2>1, <3>1
    <3> QED
      BY <3>1, <3>2, PublishStep
  <2>3. CASE Feed!PublishTask(p, t)
    <3>1. Feed!Publishes(p, t, row[t]) /\ row' = row /\ row[t] \in Int \ {0}
      BY <2>1, <2>3 DEF Feed!PublishTask, Feed!Exists
    <3> QED
      BY <2>1, <3>1, PublishStep
  <2>4. CASE Feed!EraseTask(p, t)
    <3>1. Feed!Publishes(p, t, Feed!Gone) /\ row' = [row EXCEPT ![t] = Feed!Gone]
      BY <2>4 DEF Feed!EraseTask
    <3>2. Feed!Gone \in Int \ {0}
      BY DEF Feed!Gone
    <3>3. row' \in [FeedTasks -> Int] /\ \A u \in FeedTasks \ {t} : row'[u] = row[u]
      BY <2>1, <3>1, <3>2
    <3> QED
      BY <3>1, <3>2, <3>3, PublishStep
  <2> QED
    BY <1>2, <2>2, <2>3, <2>4
<1>3. ASSUME NEW p \in Publishers, Feed!RenderLatest(p) \/ Feed!Emit(p)
      PROVE  FeedInv'
  BY <1>3, RenderStep, EmitStep
<1> QED
  BY <1>1, <1>2, <1>3, StreamStep, ListReadStep, ListArrivesStep, ReceiveStep, ConfirmStep
  DEF Feed!Next

\* So it holds of every behaviour of the feed.
LEMMA FeedHolds ==
  ASSUME FeedConstants
  PROVE  Spec => [](kind = "feed" => FeedInv)
<1>1. Init => (kind = "feed" => FeedInv)
  BY FeedInit, OneBegins
<1>2. (kind = "feed" => FeedInv) /\ [Next]_vars => (kind = "feed" => FeedInv)'
  BY FeedStep, OneActs
<1> QED
  BY <1>1, <1>2, PTL DEF Spec

\* What a page has seen deleted never comes back on it, and it shows what it knows,
\* for any tasks and publishers, however often it connects and whatever it misses.
THEOREM DeletedIsForGood ==
  ASSUME FeedConstants
  PROVE  Spec => []DeletedStaysDeleted
<1>1. (kind = "feed" => FeedInv) => DeletedStaysDeleted
  <2> SUFFICES ASSUME FeedInv
               PROVE  Feed!DeletedStaysDeleted
    BY DEF DeletedStaysDeleted
  <2>1. page.known \subseteq FeedTasks
    BY DEF FeedInv, FeedTypes, FeedPages
  <2>2. Feed!Shown = page.known
    BY <2>1 DEF FeedInv, PageHolds, Feed!Shown
  <2> QED
    BY <2>2 DEF FeedInv, PageHolds, Feed!DeletedStaysDeleted
<1> QED
  BY <1>1, FeedHolds, PTL

\* A page that has missed no event shows no task without a row, unless its tombstone is
\* under way: however late replays, lists and answers come, for any size of the queue.
THEOREM NoGhostStays ==
  ASSUME FeedConstants
  PROVE  Spec => []NoGhost
<1>1. (kind = "feed" => FeedInv) => NoGhost
  BY DEF FeedInv, PageHolds, Heard, Believed, NoGhost, Feed!NoGhost, Feed!Shown
<1> QED
  BY <1>1, FeedHolds, PTL

-----------------------------------------------------------------------------
(* The page catches up                                                     *)

\* The events of t in a list, and what the last of them says.
EventsOf(q, t) == {i \in DOMAIN q : q[i].task = t}
LastIs(q, t, v) == \A i \in EventsOf(q, t) : (\A j \in EventsOf(q, t) : j <= i) => q[i].view = v

\* What the page shows of t, or will when its list or an answer comes, is v.
PageHas(q, t, v) ==
  IF q.loaded
  THEN IF t \in q.known THEN q.shown[t] = v ELSE q.unknown[t] = v /\ q.asked[t] # "no"
  ELSE IF EventsOf(q.buffered, t) # {} THEN LastIs(q.buffered, t, v)
       ELSE q.list # None => q.list[t] = v

\* The page has the row of t, or the last event on its way to the page has it.
Delivered(t) ==
  IF queue # None /\ EventsOf(queue, t) # {} THEN LastIs(queue, t, row[t])
  ELSE IF EventsOf(page.replay, t) # {}
       THEN \A i \in EventsOf(page.replay, t) : page.replay[i].view = row[t]
       ELSE PageHas(page, t, row[t])

\* The thread that publishes t has its row; when none does, the row is delivered.
Publishing(p, t) == publisher[p].pc # "idle" /\ publisher[p].task = t
Sent(t) ==
  /\ \A p \in Publishers : Publishing(p, t) =>
       publisher[p].view = row[t] /\ (publisher[p].pc = "emit" => latest[t] = row[t])
  /\ (\A p \in Publishers : ~Publishing(p, t)) => latest[t] = row[t] /\ Delivered(t)

\* A page asks for the list once, and about tasks that are not in it; it has heard
\* nothing before its stream is open.
PageOrder(q) ==
  /\ q.list # None => ~q.loaded
  /\ \A t \in FeedTasks : t \in q.known \/ ~q.loaded => q.unknown[t] = 0
  /\ mode = "ordered" /\ q.stream # "open" => q.replay = <<>> /\ q.buffered = <<>>

\* In ordered mode with no event missed, the last event of each task that is there is on
\* its way to the page, or has been taken.
SentInv ==
  /\ PageOrder(page)
  /\ mode = "ordered" /\ ~gap => \A t \in FeedTasks : Feed!Exists(t) => Sent(t)

\* An event is of a task that has been there, and a tombstone of one that is gone.
EventTrue(t, v) == row[t] # 0 /\ (v = Feed!Gone => row[t] = Feed!Gone)
TaskTrue(t) ==
  /\ row[t] >= 0 \/ row[t] = Feed!Gone
  /\ latest[t] # 0 => row[t] # 0 /\ latest[t] # Feed!Gone
  /\ t \in page.deleted => row[t] = Feed!Gone
  /\ page.asked[t] # "no" => row[t] # 0
  /\ page.asked[t] = "missing" => row[t] = Feed!Gone
AllTrue(q) == \A i \in DOMAIN q : EventTrue(q[i].task, q[i].view)
TruthInv ==
  /\ \A p \in Publishers :
       publisher[p].pc # "idle" => EventTrue(publisher[p].task, publisher[p].view)
  /\ \A t \in FeedTasks : TaskTrue(t)
  /\ queue # None => AllTrue(queue)
  /\ AllTrue(page.replay)

\* The last event of a list is the one put last.
LEMMA AppendedIsLast ==
  ASSUME NEW s \in Seq(FeedEvents), NEW e \in FeedEvents, NEW t
  PROVE  /\ e.task = t => EventsOf(Append(s, e), t) # {} /\ LastIs(Append(s, e), t, e.view)
         /\ e.task # t => /\ EventsOf(Append(s, e), t) = EventsOf(s, t)
                          /\ \A v : LastIs(s, t, v) => LastIs(Append(s, e), t, v)
<1> DEFINE r == Append(s, e)
           n == Len(s)
<1>1. /\ n \in Nat /\ DOMAIN s = 1..n /\ DOMAIN r = 1..(n + 1)
      /\ \A i \in 1..n : r[i] = s[i]
      /\ r[n + 1] = e
  <2>1. /\ r \in Seq(FeedEvents) /\ Len(r) = n + 1
        /\ \A i \in 1..n : r[i] = s[i]
        /\ r[n + 1] = e
    BY AppendProperties
  <2> HIDE DEF r
  <2> QED
    BY <2>1, LenProperties
<1> HIDE DEF r, n
<1>2. ASSUME e.task = t
      PROVE  EventsOf(r, t) # {} /\ LastIs(r, t, e.view)
  <2>1. n + 1 \in EventsOf(r, t)
    BY <1>1, <1>2 DEF EventsOf
  <2>2. ASSUME NEW i \in EventsOf(r, t), \A j \in EventsOf(r, t) : j <= i
        PROVE  i = n + 1
    BY <1>1, <2>1, <2>2 DEF EventsOf
  <2> QED
    BY <1>1, <2>1, <2>2 DEF LastIs
<1>3. ASSUME e.task # t
      PROVE  EventsOf(r, t) = EventsOf(s, t) /\ \A v : LastIs(s, t, v) => LastIs(r, t, v)
  <2>1. EventsOf(r, t) = EventsOf(s, t)
    BY <1>1, <1>3 DEF EventsOf
  <2>2. \A i \in EventsOf(s, t) : r[i] = s[i]
    BY <1>1 DEF EventsOf
  <2> QED
    BY <2>1, <2>2 DEF LastIs
<1> QED
  BY <1>2, <1>3 DEF r

\* A list loses its first event.
LEMMA HeadLeaves ==
  ASSUME NEW s \in Seq(FeedEvents), s # << >>, NEW t
  PROVE  /\ Head(s) \in FeedEvents /\ Tail(s) \in Seq(FeedEvents)
         /\ Head(s).task = t => EventsOf(s, t) # {}
         /\ EventsOf(Tail(s), t) # {} =>
              EventsOf(s, t) # {} /\ \A v : LastIs(s, t, v) => LastIs(Tail(s), t, v)
         /\ EventsOf(Tail(s), t) = {} /\ EventsOf(s, t) # {} =>
              Head(s).task = t /\ \A v : LastIs(s, t, v) => Head(s).view = v
         /\ \A v : (\A i \in EventsOf(s, t) : s[i].view = v) =>
                     /\ \A i \in EventsOf(Tail(s), t) : Tail(s)[i].view = v
                     /\ Head(s).task = t => Head(s).view = v
         /\ AllTrue(s) => AllTrue(Tail(s)) /\ EventTrue(Head(s).task, Head(s).view)
<1> DEFINE r == Tail(s)
           e == Head(s)
           n == Len(r)
<1>1. /\ n \in Nat /\ DOMAIN s = 1..(n + 1) /\ DOMAIN r = 1..n
      /\ r \in Seq(FeedEvents) /\ e \in FeedEvents
      /\ \A i \in 1..n : r[i] = s[i + 1]
      /\ s[1] = e
  <2>1. /\ r \in Seq(FeedEvents) /\ Len(r) = Len(s) - 1 /\ e \in FeedEvents
        /\ \A i \in 1..Len(r) : r[i] = s[i + 1]
        /\ e = s[1]
    BY HeadTailProperties
  <2> HIDE DEF r, e
  <2>2. Len(r) \in Nat /\ Len(s) \in Nat /\ DOMAIN s = 1..Len(s) /\ DOMAIN r = 1..Len(r)
    BY <2>1, LenProperties
  <2> QED
    BY <2>1, <2>2
<1> HIDE DEF r, e, n
<1>2. /\ \A i \in EventsOf(r, t) : i \in 1..n /\ i + 1 \in EventsOf(s, t) /\ r[i] = s[i + 1]
      /\ \A i \in EventsOf(s, t) : i \in 1..(n + 1) /\ (i = 1 \/ i - 1 \in EventsOf(r, t))
      /\ 1 \in EventsOf(s, t) <=> e.task = t
  BY <1>1 DEF EventsOf
<1>3. ASSUME NEW k \in EventsOf(r, t), NEW v, LastIs(s, t, v)
      PROVE  LastIs(r, t, v)
  <2> SUFFICES ASSUME NEW i \in EventsOf(r, t), \A j \in EventsOf(r, t) : j <= i
               PROVE  r[i].view = v
    BY DEF LastIs
  <2>1. \A j \in EventsOf(s, t) : j <= i + 1
    <3>1. i \in 1..n
      BY <1>2
    <3> SUFFICES ASSUME NEW j \in EventsOf(s, t)
                 PROVE  j <= i + 1
      OBVIOUS
    <3>2. j \in 1..(n + 1) /\ (j = 1 \/ j - 1 \in EventsOf(r, t))
      BY <1>2
    <3>3. j = 1 \/ j - 1 <= i
      BY <3>2
    <3> QED
      BY <1>1, <3>1, <3>2, <3>3
  <2> QED
    BY <1>2, <1>3, <2>1 DEF LastIs
<1>4. ASSUME EventsOf(r, t) = {}, EventsOf(s, t) # {}
      PROVE  e.task = t /\ \A v : LastIs(s, t, v) => e.view = v
  <2>1. EventsOf(s, t) = {1}
    BY <1>2, <1>4
  <2> QED
    BY <1>1, <1>2, <2>1 DEF LastIs
<1>5. ASSUME NEW v, \A i \in EventsOf(s, t) : s[i].view = v
      PROVE  /\ \A i \in EventsOf(r, t) : r[i].view = v
             /\ e.task = t => e.view = v
  BY <1>1, <1>2, <1>5
<1>6. ASSUME AllTrue(s)
      PROVE  AllTrue(r) /\ EventTrue(e.task, e.view)
  <2>1. EventTrue(e.task, e.view)
    BY <1>1, <1>6 DEF AllTrue
  <2>2. ASSUME NEW i \in 1..n
        PROVE  EventTrue(r[i].task, r[i].view)
    <3>1. i + 1 \in DOMAIN s /\ r[i] = s[i + 1]
      BY <1>1
    <3>2. EventTrue(s[i + 1].task, s[i + 1].view)
      BY <1>6, <3>1 DEF AllTrue
    <3> QED
      BY <3>1, <3>2
  <2> QED
    BY <1>1, <2>1, <2>2 DEF AllTrue
<1>7. EventsOf(r, t) # {} => EventsOf(s, t) # {} /\ \A v : LastIs(s, t, v) => LastIs(r, t, v)
  BY <1>2, <1>3
<1> HIDE DEF r, e
<1>8. /\ e \in FeedEvents /\ r \in Seq(FeedEvents)
      /\ e.task = t => EventsOf(s, t) # {}
      /\ EventsOf(r, t) # {} =>
              EventsOf(s, t) # {} /\ \A v : LastIs(s, t, v) => LastIs(r, t, v)
      /\ EventsOf(r, t) = {} /\ EventsOf(s, t) # {} =>
              e.task = t /\ \A v : LastIs(s, t, v) => e.view = v
      /\ \A v : (\A i \in EventsOf(s, t) : s[i].view = v) =>
                     /\ \A i \in EventsOf(r, t) : r[i].view = v
                     /\ e.task = t => e.view = v
      /\ AllTrue(s) => AllTrue(r) /\ EventTrue(e.task, e.view)
  BY <1>1, <1>2, <1>4, <1>5, <1>6, <1>7
<1> QED
  BY <1>8 DEF r, e

\* All that is known of the feed and of the page.
FeedFull == FeedInv /\ TruthInv /\ SentInv

\* An event changes what the page has of its own task only, and to what it says.
LEMMA PageTakes ==
  ASSUME page \in FeedPages, NEW t \in FeedTasks, NEW view \in Int \ {0}
  PROVE  LET q == Feed!OnLive(t, view)
         IN  /\ q.deleted \subseteq page.deleted \cup (IF view = Feed!Gone THEN {t} ELSE {})
             /\ \A u \in FeedTasks : q.asked[u] = page.asked[u] \/ (u = t /\ q.asked[u] = "sent")
             /\ \A u \in FeedTasks \ {t} : \A v : PageHas(page, u, v) => PageHas(q, u, v)
             /\ view # Feed!Gone /\ t \notin page.deleted => PageHas(q, t, view)
             /\ PageOrder(page) /\ page.stream = "open" => PageOrder(q)
             /\ q.stream = page.stream
<1> DEFINE q == Feed!OnLive(t, view)
<1>1. CASE view = Feed!Gone
  <2> DEFINE unknown == [page.unknown EXCEPT ![t] = 0]
             shown == [page.shown EXCEPT ![t] = 0]
  <2>1. q = [page EXCEPT !.deleted = page.deleted \cup {t}, !.known = page.known \ {t},
                         !.unknown = unknown, !.shown = shown]
    BY <1>1 DEF Feed!OnLive
  <2>2. /\ \A u \in FeedTasks \ {t} : shown[u] = page.shown[u]
        /\ \A u \in FeedTasks \ {t} : unknown[u] = page.unknown[u]
        /\ unknown[t] = 0
    BY DEF FeedPages
  <2> HIDE DEF unknown, shown, q
  <2>3. /\ q.loaded = page.loaded /\ q.buffered = page.buffered
        /\ q.deleted = page.deleted \cup {t} /\ q.known = page.known \ {t}
        /\ q.shown = shown /\ q.unknown = unknown /\ q.asked = page.asked /\ q.list = page.list
        /\ q.stream = page.stream
    BY <2>1 DEF FeedPages
  <2>4. \A u \in FeedTasks \ {t} : \A v : PageHas(page, u, v) => PageHas(q, u, v)
    BY <2>2, <2>3 DEF PageHas
  <2>5. PageOrder(page) /\ page.stream = "open" => PageOrder(q)
    BY <2>2, <2>3 DEF PageOrder
  <2> QED
    BY <1>1, <2>3, <2>4, <2>5 DEF q
<1>2. CASE view # Feed!Gone /\ t \in page.deleted
  <2>1. q = page
    BY <1>2 DEF Feed!OnLive
  <2> HIDE DEF q
  <2> QED
    BY <1>2, <2>1 DEF q
<1>3. CASE view # Feed!Gone /\ t \notin page.deleted /\ ~page.loaded
  <2> DEFINE e == [task |-> t, view |-> view]
             buffered == Append(page.buffered, e)
  <2>1. q = [page EXCEPT !.buffered = buffered]
    BY <1>3 DEF Feed!OnLive
  <2>2. e \in FeedEvents /\ page.buffered \in Seq(FeedEvents) /\ e.task = t /\ e.view = view
    BY DEF FeedEvents, FeedPages
  <2> HIDE DEF e
  <2>3. /\ EventsOf(buffered, t) # {} /\ LastIs(buffered, t, view)
        /\ \A u \in FeedTasks \ {t} :
             /\ EventsOf(buffered, u) = EventsOf(page.buffered, u)
             /\ \A v : LastIs(page.buffered, u, v) => LastIs(buffered, u, v)
    BY <2>2, AppendedIsLast
  <2> HIDE DEF buffered, q
  <2>4. /\ q.loaded = page.loaded /\ q.buffered = buffered
        /\ q.deleted = page.deleted /\ q.known = page.known
        /\ q.shown = page.shown /\ q.unknown = page.unknown
        /\ q.asked = page.asked /\ q.list = page.list
        /\ q.stream = page.stream
    BY <2>1 DEF FeedPages
  <2>5. \A u \in FeedTasks \ {t} : \A v : PageHas(page, u, v) => PageHas(q, u, v)
    BY <1>3, <2>3, <2>4 DEF PageHas
  <2>6. PageHas(q, t, view)
    BY <1>3, <2>3, <2>4 DEF PageHas
  <2>7. PageOrder(page) /\ page.stream = "open" => PageOrder(q)
    BY <2>4 DEF PageOrder
  <2> QED
    BY <1>3, <2>4, <2>5, <2>6, <2>7 DEF q
<1>4. CASE view # Feed!Gone /\ t \notin page.deleted /\ page.loaded /\ t \notin page.known
  <2> DEFINE unknown == [page.unknown EXCEPT ![t] = view]
             asked == [page.asked EXCEPT ![t] = IF page.asked[t] = "no" THEN "sent"
                                                ELSE page.asked[t]]
  <2>1. q = [page EXCEPT !.unknown = unknown, !.asked = asked]
    BY <1>4 DEF Feed!OnLive
  <2>2. /\ unknown[t] = view /\ asked[t] # "no" /\ asked[t] \in {page.asked[t], "sent"}
        /\ \A u \in FeedTasks \ {t} : asked[u] = page.asked[u] /\ unknown[u] = page.unknown[u]
    BY DEF FeedPages
  <2> HIDE DEF unknown, asked, q
  <2>3. /\ q.loaded = page.loaded /\ q.buffered = page.buffered
        /\ q.deleted = page.deleted /\ q.known = page.known
        /\ q.shown = page.shown /\ q.unknown = unknown /\ q.asked = asked /\ q.list = page.list
        /\ q.stream = page.stream
    BY <2>1 DEF FeedPages
  <2>4. \A u \in FeedTasks \ {t} : \A v : PageHas(page, u, v) => PageHas(q, u, v)
    BY <2>2, <2>3 DEF PageHas
  <2>5. PageHas(q, t, view)
    BY <1>4, <2>2, <2>3 DEF PageHas
  <2>6. PageOrder(page) /\ page.stream = "open" => PageOrder(q)
    BY <1>4, <2>2, <2>3 DEF PageOrder
  <2> QED
    BY <1>4, <2>2, <2>3, <2>4, <2>5, <2>6 DEF q
<1>5. CASE view # Feed!Gone /\ t \notin page.deleted /\ page.loaded /\ t \in page.known
  <2> DEFINE shown == [page.shown EXCEPT ![t] = view]
  <2>1. q = [page EXCEPT !.shown = shown]
    BY <1>5 DEF Feed!OnLive
  <2>2. shown[t] = view /\ \A u \in FeedTasks \ {t} : shown[u] = page.shown[u]
    BY DEF FeedPages
  <2> HIDE DEF shown, q
  <2>3. /\ q.loaded = page.loaded /\ q.buffered = page.buffered
        /\ q.deleted = page.deleted /\ q.known = page.known
        /\ q.shown = shown /\ q.unknown = page.unknown
        /\ q.asked = page.asked /\ q.list = page.list
        /\ q.stream = page.stream
    BY <2>1 DEF FeedPages
  <2>4. \A u \in FeedTasks \ {t} : \A v : PageHas(page, u, v) => PageHas(q, u, v)
    BY <2>2, <2>3 DEF PageHas
  <2>5. PageHas(q, t, view)
    BY <1>5, <2>2, <2>3 DEF PageHas
  <2>6. PageOrder(page) /\ page.stream = "open" => PageOrder(q)
    BY <2>3 DEF PageOrder
  <2> QED
    BY <1>5, <2>3, <2>4, <2>5, <2>6 DEF q
<1> QED
  BY <1>1, <1>2, <1>3, <1>4, <1>5

\* Nothing is sent, delivered or shown before the page is opened.
LEMMA SentInit ==
  ASSUME Feed!Init
  PROVE  TruthInv /\ SentInv
<1>1. /\ \A t \in FeedTasks : row[t] = 0 /\ latest[t] = 0
      /\ \A p \in Publishers : publisher[p].pc = "idle"
      /\ queue = None
  BY DEF Feed!Init, Feed!Nothing, Feed!Idle
<1>2. page = [stream |-> "closed", replay |-> <<>>, list |-> None, loaded |-> FALSE,
              shown |-> Feed!Nothing, known |-> {}, deleted |-> {}, buffered |-> <<>>,
              unknown |-> Feed!Nothing, asked |-> [t \in FeedTasks |-> "no"]]
  BY DEF Feed!Init, Feed!NewPage
<1>3. /\ page.deleted = {} /\ page.replay = << >>
      /\ \A t \in FeedTasks : page.asked[t] = "no"
  BY <1>2
<1>4. TruthInv
  BY <1>1, <1>3 DEF TruthInv, TaskTrue, AllTrue
<1>5. SentInv
  <2>1. \A t \in FeedTasks : page.unknown[t] = 0
    BY <1>2 DEF Feed!Nothing
  <2>2. PageOrder(page)
    BY <1>2, <2>1 DEF PageOrder
  <2> QED
    BY <1>1, <2>2 DEF SentInv, Feed!Exists
<1> QED
  BY <1>4, <1>5

\* A publisher begins with the row as it now is.  In ordered mode no other has the task.
LEMMA PublishSends ==
  ASSUME FeedFull, NEW p \in Publishers, NEW t \in FeedTasks, NEW view \in Int \ {0},
         Feed!Publishes(p, t, view), row' \in [FeedTasks -> Int],
         row'[t] = view, view > 0 \/ view = Feed!Gone, row[t] # Feed!Gone,
         \A u \in FeedTasks \ {t} : row'[u] = row[u]
  PROVE  TruthInv' /\ SentInv'
<1>1. /\ publisher[p] = Feed!Idle
      /\ publisher' = [publisher EXCEPT ![p] = [pc |-> "latest", task |-> t, view |-> view]]
      /\ UNCHANGED <<mode, page, latest, queue, gap>>
      /\ mode = "ordered" => \A q \in Publishers : publisher[q].task # t
  BY DEF Feed!Publishes, Feed!besideServer
<1>2. /\ publisher'[p].pc = "latest" /\ publisher'[p].task = t /\ publisher'[p].view = view
      /\ \A q \in Publishers \ {p} : publisher'[q] = publisher[q]
      /\ publisher[p].pc = "idle"
  BY <1>1 DEF FeedFull, FeedInv, FeedTypes, Feed!Idle
<1>3. \A u \in FeedTasks : \A v : EventTrue(u, v) => EventTrue(u, v)'
  BY DEF EventTrue
<1>4. /\ queue # None => queue \in Seq(FeedEvents)
      /\ page.replay \in Seq(FeedEvents)
  BY DEF FeedFull, FeedInv, FeedTypes, FeedPages
<1>5. /\ queue # None => \A i \in DOMAIN queue : queue[i].task \in FeedTasks
      /\ \A i \in DOMAIN page.replay : page.replay[i].task \in FeedTasks
      /\ \A q \in Publishers \ {p} : publisher[q].pc # "idle" => publisher[q].task \in FeedTasks
  <2>1. ASSUME NEW s \in Seq(FeedEvents), NEW i \in DOMAIN s
        PROVE  s[i].task \in FeedTasks
    <3>1. s[i] \in FeedEvents
      BY ElementOfSeq, LenProperties
    <3> QED
      BY <3>1 DEF FeedEvents
  <2>2. \A q \in Publishers \ {p} : publisher[q].pc # "idle" => publisher[q].task \in FeedTasks
    BY DEF FeedFull, FeedInv, FeedTypes
  <2> QED
    BY <1>4, <2>1, <2>2
<1>6. TruthInv'
  <2>1. \A q \in Publishers :
          publisher'[q].pc # "idle" => EventTrue(publisher[q].task, publisher[q].view)'
    <3>1. EventTrue(publisher[p].task, publisher[p].view)'
      BY <1>2 DEF EventTrue
    <3>2. ASSUME NEW q \in Publishers \ {p}, publisher'[q].pc # "idle"
          PROVE  EventTrue(publisher[q].task, publisher[q].view)'
      <4>1. EventTrue(publisher[q].task, publisher[q].view) /\ publisher[q].task \in FeedTasks
        BY <1>2, <1>5, <3>2 DEF FeedFull, TruthInv
      <4> QED
        BY <1>2, <4>1 DEF EventTrue
    <3> QED
      BY <3>1, <3>2
  <2>2. \A u \in FeedTasks : TaskTrue(u)'
    BY <1>1 DEF FeedFull, TruthInv, TaskTrue
  <2>3. (queue # None => AllTrue(queue))' /\ AllTrue(page.replay)'
    BY <1>1, <1>3, <1>5 DEF FeedFull, TruthInv, AllTrue, EventTrue
  <2> QED
    BY <2>1, <2>2, <2>3 DEF TruthInv
<1>7. SentInv'
  <2> SUFFICES ASSUME mode' = "ordered", ~gap', NEW u \in FeedTasks, row'[u] > 0
               PROVE  Sent(u)'
    BY <1>1 DEF FeedFull, SentInv, PageOrder, Feed!Exists
  <2>1. CASE u = t
    <3>1. Publishing(p, u)'
      BY <1>2, <2>1 DEF Publishing
    <3>2. \A q \in Publishers \ {p} : ~Publishing(q, u)'
      BY <1>1, <1>2, <2>1 DEF Publishing
    <3> QED
      BY <1>2, <2>1, <3>1, <3>2 DEF Sent
  <2>2. CASE u # t
    <3>1. Sent(u)
      BY <1>1, <2>2 DEF FeedFull, SentInv, Feed!Exists
    <3>2. \A q \in Publishers : Publishing(q, u)' = Publishing(q, u)
      BY <1>2, <2>2 DEF Publishing
    <3>3. Delivered(u)' = Delivered(u)
      BY <1>1, <2>2 DEF Delivered
    <3>4. ~Publishing(p, u)
      BY <1>2 DEF Publishing
    <3> QED
      BY <1>1, <1>2, <2>2, <3>1, <3>2, <3>3, <3>4 DEF Sent
  <2> QED
    BY <2>1, <2>2
<1> QED
  BY <1>6, <1>7

\* What is latest is what was sent.
LEMMA RenderSends ==
  ASSUME FeedFull, NEW p \in Publishers, Feed!RenderLatest(p)
  PROVE  TruthInv' /\ SentInv'
<1> DEFINE v == publisher[p].view
           w == IF v = Feed!Gone THEN 0 ELSE v
           r == publisher[p].task
<1>1. /\ publisher[p].pc = "latest" /\ publisher' = [publisher EXCEPT ![p].pc = "emit"]
      /\ UNCHANGED <<mode, page, row, queue, gap>>
      /\ latest' = [latest EXCEPT ![r] = w]
  BY DEF Feed!RenderLatest, Feed!besideServer
<1>2. /\ publisher[p] \in FeedPublishers /\ latest \in [FeedTasks -> Int]
      /\ r \in FeedTasks /\ v # 0
  BY <1>1 DEF FeedFull, FeedInv, FeedTypes, Feed!Idle
<1>3. /\ publisher'[p].pc = "emit" /\ publisher'[p].task = r /\ publisher'[p].view = v
      /\ \A q \in Publishers \ {p} : publisher'[q] = publisher[q]
  BY <1>1, <1>2 DEF FeedFull, FeedInv, FeedTypes, FeedPublishers
<1>4. latest'[r] = w /\ \A u \in FeedTasks \ {r} : latest'[u] = latest[u]
  BY <1>1, <1>2
<1>5. EventTrue(r, v)
  BY <1>1 DEF FeedFull, TruthInv
<1> HIDE DEF v, w, r
<1>6. w # 0 => row[r] # 0 /\ w # Feed!Gone
  BY <1>5 DEF EventTrue, w
<1>7. TruthInv'
  <2>1. \A q \in Publishers : publisher'[q].pc # "idle"
          => EventTrue(publisher[q].task, publisher[q].view)'
    BY <1>1, <1>3, <1>5 DEF FeedFull, TruthInv, EventTrue
  <2>2. ASSUME NEW u \in FeedTasks
        PROVE  TaskTrue(u)'
    BY <1>1, <1>4, <1>6 DEF FeedFull, TruthInv, TaskTrue
  <2>3. (queue # None => AllTrue(queue))' /\ AllTrue(page.replay)'
    BY <1>1 DEF FeedFull, TruthInv, AllTrue, EventTrue
  <2> QED
    BY <2>1, <2>2, <2>3 DEF TruthInv
<1>8. SentInv'
  <2> SUFFICES ASSUME mode' = "ordered", ~gap', NEW u \in FeedTasks, row'[u] > 0
               PROVE  Sent(u)'
    BY <1>1 DEF FeedFull, SentInv, PageOrder, Feed!Exists
  <2>1. Sent(u)
    BY <1>1 DEF FeedFull, SentInv, Feed!Exists
  <2>2. \A q \in Publishers : Publishing(q, u)' = Publishing(q, u)
    BY <1>1, <1>3 DEF Publishing, r
  <2>3. Delivered(u)' = Delivered(u)
    BY <1>1 DEF Delivered
  <2>4. CASE u = r
    <3>1. Publishing(p, u)
      BY <1>1, <2>4 DEF Publishing, r
    <3>2. v = row[u] /\ row[u] > 0
      BY <1>1, <2>1, <3>1 DEF Sent, v
    <3>3. latest'[u] = row[u]
      BY <1>4, <2>4, <3>2 DEF w, Feed!Gone
    <3>4. \A q \in Publishers : Publishing(q, u) => publisher'[q].view = row[u]
      BY <1>3, <2>1, <3>2 DEF Sent
    <3> QED
      BY <1>1, <2>2, <3>1, <3>3, <3>4 DEF Sent
  <2>5. CASE u # r
    <3>1. \A q \in Publishers : Publishing(q, u) => publisher'[q] = publisher[q]
      BY <1>3, <2>5 DEF Publishing, r
    <3>2. latest'[u] = latest[u]
      BY <1>4, <2>5
    <3> QED
      BY <1>1, <2>1, <2>2, <2>3, <3>1, <3>2 DEF Sent
  <2> QED
    BY <2>4, <2>5
<1> QED
  BY <1>7, <1>8

\* What is emitted is the last of its task in the queue of the page, or the page has yet
\* to ask for the list.
LEMMA EmitSends ==
  ASSUME FeedConstants, FeedFull, FeedInv', NEW p \in Publishers, Feed!Emit(p)
  PROVE  TruthInv' /\ SentInv'
<1> DEFINE e == [task |-> publisher[p].task, view |-> publisher[p].view]
<1>1. /\ publisher[p].pc = "emit" /\ publisher' = [publisher EXCEPT ![p] = Feed!Idle]
      /\ UNCHANGED <<mode, page, row, latest>>
  BY DEF Feed!Emit, Feed!besideServer
<1>2. \/ /\ queue = None /\ UNCHANGED queue
         /\ ~gap' => ~gap /\ page.list = None /\ ~page.loaded
      \/ queue # None /\ queue' = Append(queue, e) /\ (~gap' => ~gap)
      \/ queue # None /\ queue' = Append(Tail(queue), e) /\ gap'
  <2>1. CASE queue = None
    BY <2>1 DEF Feed!Emit
  <2>2. CASE queue # None /\ Len(queue) # QueueSize
    BY <2>2 DEF Feed!Emit
  <2>3. CASE queue # None /\ Len(queue) = QueueSize
    BY <2>3 DEF Feed!Emit
  <2> QED
    BY <2>1, <2>2, <2>3
<1>3. publisher \in [Publishers -> FeedPublishers] /\ publisher[p] \in FeedPublishers
  BY DEF FeedFull, FeedInv, FeedTypes
<1>4. /\ e \in FeedEvents /\ e.task = publisher[p].task /\ e.view = publisher[p].view
      /\ EventTrue(e.task, e.view)
  BY <1>1, <1>3 DEF FeedFull, TruthInv, FeedInv, FeedTypes, FeedPublishers, FeedEvents, Feed!Idle
<1> HIDE DEF e
<1>5. /\ publisher'[p].pc = "idle"
      /\ \A q \in Publishers \ {p} : publisher'[q] = publisher[q]
  BY <1>1, <1>3 DEF FeedPublishers, Feed!Idle
<1>6. queue # None => queue \in Seq(FeedEvents) /\ page.stream \notin {"closed", "connecting"}
  BY DEF FeedFull, FeedInv, FeedTypes
<1>7. ASSUME NEW s \in Seq(FeedEvents), AllTrue(s)
      PROVE  AllTrue(Append(s, e))
  <2>1. /\ Len(s) \in Nat /\ DOMAIN s = 1..Len(s)
        /\ DOMAIN Append(s, e) = 1..(Len(s) + 1)
        /\ \A i \in 1..Len(s) : Append(s, e)[i] = s[i]
        /\ Append(s, e)[Len(s) + 1] = e
    <3> DEFINE q == Append(s, e)
    <3>1. /\ q \in Seq(FeedEvents) /\ Len(q) = Len(s) + 1
          /\ \A i \in 1..Len(s) : q[i] = s[i]
          /\ q[Len(s) + 1] = e
      BY <1>4, AppendProperties
    <3> HIDE DEF q
    <3>2. DOMAIN q = 1..(Len(s) + 1) /\ Len(s) \in Nat /\ DOMAIN s = 1..Len(s)
      BY <3>1, LenProperties
    <3> QED
      BY <3>1, <3>2 DEF q
  <2> QED
    BY <1>4, <1>7, <2>1 DEF AllTrue
<1>8. queue # None => AllTrue(queue')
  <2>1. ASSUME queue # None
        PROVE  AllTrue(Append(queue, e))
    BY <1>6, <1>7, <2>1 DEF FeedFull, TruthInv
  <2>2. ASSUME queue # None
        PROVE  AllTrue(Append(Tail(queue), e))
    <3>1. CASE queue = << >>
      <4>1. Tail(queue) = << >>
        BY <3>1
      <4> QED
        BY <2>1, <2>2, <3>1, <4>1
    <3>2. CASE queue # << >>
      BY <1>6, <1>7, <2>2, <3>2, HeadLeaves DEF FeedFull, TruthInv
    <3> QED
      BY <3>1, <3>2
  <2> QED
    BY <1>2, <2>1, <2>2
<1>9. TruthInv'
  <2>1. \A q \in Publishers : publisher'[q].pc # "idle"
          => EventTrue(publisher[q].task, publisher[q].view)'
    BY <1>1, <1>5 DEF FeedFull, TruthInv, EventTrue
  <2>2. ASSUME NEW u \in FeedTasks
        PROVE  TaskTrue(u)'
    BY <1>1 DEF FeedFull, TruthInv, TaskTrue
  <2>3. (queue # None => AllTrue(queue))' /\ AllTrue(page.replay)'
    <3>1. AllTrue(page.replay)'
      BY <1>1 DEF FeedFull, TruthInv, AllTrue, EventTrue
    <3>2. queue' # None => AllTrue(queue')
      BY <1>2, <1>8
    <3> QED
      BY <1>1, <3>1, <3>2 DEF AllTrue, EventTrue
  <2> QED
    BY <2>1, <2>2, <2>3 DEF TruthInv
<1>10. SentInv'
  <2> SUFFICES ASSUME mode' = "ordered", ~gap', NEW u \in FeedTasks, row'[u] > 0
               PROVE  Sent(u)'
    BY <1>1 DEF FeedFull, SentInv, PageOrder, Feed!Exists
  <2>1. Sent(u)
    BY <1>1, <1>2 DEF FeedFull, SentInv, Feed!Exists
  <2>2. /\ ~Publishing(p, u)'
        /\ \A q \in Publishers \ {p} : /\ Publishing(q, u)' = Publishing(q, u)
                                       /\ publisher'[q] = publisher[q]
    BY <1>5 DEF Publishing
  <2>3. ASSUME e.task = u
        PROVE  latest[u] = row[u] /\ e.view = row[u]
    <3>1. Publishing(p, u)
      BY <1>1, <1>4, <2>3 DEF Publishing
    <3> QED
      BY <1>1, <1>4, <2>1, <3>1 DEF Sent
  <2>4. ASSUME e.task = u
        PROVE  Delivered(u)'
    <3>1. CASE queue = None
      <4>1. /\ page.replay = << >> /\ page.buffered = << >>
            /\ page.list = None /\ ~page.loaded /\ queue' = None
        <5>1. page.stream # "open" \/ queue \in Seq(FeedEvents)
          BY DEF FeedFull, FeedInv, FeedTypes
        <5>2. page.stream # "open"
          BY <3>1, <5>1 DEF FeedConstants
        <5>3. page.list = None /\ ~page.loaded /\ queue' = None
          BY <1>2, <3>1
        <5> QED
          BY <1>1, <5>2, <5>3 DEF FeedFull, SentInv, PageOrder
      <4>2. EventsOf(page.replay, u) = {} /\ EventsOf(page.buffered, u) = {}
        BY <4>1 DEF EventsOf
      <4> QED
        BY <1>1, <4>1, <4>2 DEF Delivered, PageHas
    <3>2. CASE queue # None
      <4>1. queue' = Append(queue, e) /\ queue \in Seq(FeedEvents)
        BY <1>2, <1>6, <3>2
      <4>2. EventsOf(queue', u) # {} /\ LastIs(queue', u, row[u])
        BY <1>4, <2>3, <2>4, <4>1, AppendedIsLast
      <4>3. queue' # None
        <5>1. queue' \in Seq(FeedEvents)
          BY <1>4, <4>1, AppendProperties
        <5> QED
          BY <5>1 DEF FeedConstants
      <4> QED
        BY <1>1, <4>2, <4>3 DEF Delivered, LastIs, EventsOf
    <3> QED
      BY <3>1, <3>2
  <2>5. ASSUME e.task # u, Delivered(u)
        PROVE  Delivered(u)'
    <3>1. CASE queue = None
      BY <1>1, <1>2, <2>5, <3>1 DEF Delivered
    <3>2. CASE queue # None
      <4>1. queue' = Append(queue, e) /\ queue \in Seq(FeedEvents)
        BY <1>2, <1>6, <3>2
      <4>2. /\ EventsOf(queue', u) = EventsOf(queue, u)
            /\ \A v : LastIs(queue, u, v) => LastIs(queue', u, v)
        BY <1>4, <2>5, <4>1, AppendedIsLast
      <4>3. queue' # None
        <5>1. queue' \in Seq(FeedEvents)
          BY <1>4, <4>1, AppendProperties
        <5> QED
          BY <5>1 DEF FeedConstants
      <4>4. CASE EventsOf(queue, u) # {}
        <5>1. LastIs(queue', u, row[u])
          BY <2>5, <3>2, <4>2, <4>4 DEF Delivered
        <5> QED
          BY <1>1, <4>2, <4>3, <4>4, <5>1 DEF Delivered, LastIs, EventsOf
      <4>5. CASE EventsOf(queue, u) = {}
        <5>1. IF EventsOf(page.replay, u) # {}
              THEN \A i \in EventsOf(page.replay, u) : page.replay[i].view = row[u]
              ELSE PageHas(page, u, row[u])
          BY <2>5, <4>5 DEF Delivered
        <5>2. EventsOf(queue', u) = {}
          BY <4>2, <4>5
        <5> QED
          BY <1>1, <5>1, <5>2 DEF Delivered, EventsOf
      <4> QED
        BY <4>4, <4>5
    <3> QED
      BY <3>1, <3>2
  <2>6. Publishing(p, u) <=> e.task = u
    BY <1>1, <1>4 DEF Publishing
  <2>7. CASE e.task = u
    BY <1>1, <2>1, <2>2, <2>3, <2>4, <2>7 DEF Sent
  <2>8. CASE e.task # u
    BY <1>1, <2>1, <2>2, <2>5, <2>6, <2>8 DEF Sent
  <2> QED
    BY <2>7, <2>8
<1> QED
  BY <1>9, <1>10

\* What a step of the page has to show.
LEMMA PageSends ==
  ASSUME FeedFull, UNCHANGED <<mode, row, publisher, latest>>, ~gap' => ~gap,
         queue' # None => AllTrue(queue'), AllTrue(page'.replay),
         \A t \in FeedTasks :
           /\ t \in page'.deleted => t \in page.deleted \/ row[t] = Feed!Gone
           /\ \/ page'.asked[t] = page.asked[t]
              \/ /\ page'.asked[t] # "no" => row[t] # 0
                 /\ page'.asked[t] = "missing" => row[t] = Feed!Gone,
         PageOrder(page'),
         ASSUME mode = "ordered", ~gap', NEW t \in FeedTasks, row[t] > 0,
                latest[t] = row[t], Delivered(t)
         PROVE  Delivered(t)'
  PROVE  TruthInv' /\ SentInv'
<1>1. TruthInv'
  <2>1. \A q \in Publishers : publisher'[q].pc # "idle"
          => EventTrue(publisher[q].task, publisher[q].view)'
    BY DEF FeedFull, TruthInv, EventTrue
  <2>2. ASSUME NEW u \in FeedTasks
        PROVE  TaskTrue(u)'
    <3>1. TaskTrue(u)
      BY DEF FeedFull, TruthInv
    <3> QED
      BY <3>1 DEF TaskTrue
  <2>3. (queue # None => AllTrue(queue))' /\ AllTrue(page.replay)'
    BY DEF AllTrue, EventTrue
  <2> QED
    BY <2>1, <2>2, <2>3 DEF TruthInv
<1>2. SentInv'
  <2>1. PageOrder(page)'
    BY DEF PageOrder
  <2> SUFFICES ASSUME mode' = "ordered", ~gap', NEW u \in FeedTasks, row'[u] > 0
               PROVE  Sent(u)'
    BY <2>1 DEF SentInv, Feed!Exists
  <2>2. Sent(u)
    BY DEF FeedFull, SentInv, Feed!Exists
  <2>3. \A q \in Publishers : Publishing(q, u)' = Publishing(q, u)
    BY DEF Publishing
  <2>4. (\A q \in Publishers : ~Publishing(q, u)) => latest[u] = row[u] /\ Delivered(u)
    BY <2>2 DEF Sent
  <2>5. (\A q \in Publishers : ~Publishing(q, u)) => Delivered(u)'
    BY <2>4
  <2> QED
    BY <2>2, <2>3, <2>4, <2>5 DEF Sent
<1> QED
  BY <1>1, <1>2

\* The fields of the page and the queue tell whether a row is delivered.
LEMMA DeliveredKept ==
  ASSUME UNCHANGED <<row, queue>>, NEW t \in FeedTasks, Delivered(t),
         page'.replay = page.replay, PageHas(page, t, row[t]) => PageHas(page', t, row[t])
  PROVE  Delivered(t)'
<1>1. CASE queue # None /\ EventsOf(queue, t) # {}
  <2>1. LastIs(queue, t, row[t])
    BY <1>1 DEF Delivered
  <2> QED
    BY <1>1, <2>1 DEF Delivered, LastIs, EventsOf
<1>2. CASE ~(queue # None /\ EventsOf(queue, t) # {}) /\ EventsOf(page.replay, t) # {}
  <2>1. \A i \in EventsOf(page.replay, t) : page.replay[i].view = row[t]
    BY <1>2 DEF Delivered
  <2>2. /\ ~(queue' # None /\ EventsOf(queue, t)' # {}) /\ EventsOf(page.replay, t)' # {}
        /\ \A i \in EventsOf(page.replay, t)' : page'.replay[i].view = row'[t]
    BY <1>2, <2>1 DEF EventsOf
  <2> QED
    BY <2>2 DEF Delivered
<1>3. CASE ~(queue # None /\ EventsOf(queue, t) # {}) /\ EventsOf(page.replay, t) = {}
  <2>1. PageHas(page', t, row[t])
    BY <1>3 DEF Delivered
  <2>2. PageHas(page, t, row[t])'
    BY <2>1 DEF PageHas, EventsOf, LastIs
  <2>3. ~(queue' # None /\ EventsOf(queue, t)' # {}) /\ EventsOf(page.replay, t)' = {}
    BY <1>3 DEF EventsOf
  <2> QED
    BY <2>2, <2>3 DEF Delivered
<1> QED
  BY <1>1, <1>2, <1>3

\* The stream opens with an empty queue and with what is latest.
LEMMA StreamSends ==
  ASSUME FeedConstants, FeedFull,
         Feed!Mount \/ Feed!Subscribe \/ Feed!Replay \/ Feed!Disconnect
  PROVE  TruthInv' /\ SentInv'
<1>1. page \in FeedPages /\ TruthInv /\ PageOrder(page) /\ AllTrue(page.replay)
      /\ (queue # None => AllTrue(queue)) /\ \A t : EventsOf(<< >>, t) = {}
  BY DEF FeedFull, FeedInv, FeedTypes, TruthInv, SentInv, EventsOf
<1>2. UNCHANGED <<mode, row, publisher, latest>> /\ AllTrue(<< >>)
  <2>1. UNCHANGED <<mode, row, publisher, latest>>
    BY DEF Feed!Mount, Feed!Subscribe, Feed!Replay, Feed!Disconnect, Feed!besidePage
  <2>2. AllTrue(<< >>)
    BY DEF AllTrue
  <2> QED
    BY <2>1, <2>2
<1>3. CASE Feed!Mount
  <2>1. /\ page.stream = "closed" /\ UNCHANGED <<queue, gap>>
        /\ page' = [stream |-> "connecting", replay |-> <<>>, list |-> None, loaded |-> FALSE,
                    shown |-> Feed!Nothing, known |-> {}, deleted |-> {}, buffered |-> <<>>,
                    unknown |-> Feed!Nothing, asked |-> [t \in FeedTasks |-> "no"]]
    BY <1>3 DEF Feed!Mount, Feed!NewPage
  <2>2. queue = None /\ queue' = None
    BY <2>1 DEF FeedFull, FeedInv, FeedTypes
  <2>3. /\ page'.replay = << >> /\ page'.buffered = << >> /\ page'.list = None
        /\ ~page'.loaded /\ page'.deleted = {}
        /\ \A t \in FeedTasks : page'.unknown[t] = 0 /\ page'.asked[t] = "no"
    BY <2>1 DEF Feed!Nothing
  <2>4. PageOrder(page')
    BY <2>3 DEF PageOrder
  <2>5. \A t \in FeedTasks : Delivered(t)'
    BY <2>2, <2>3 DEF Delivered, EventsOf, PageHas
  <2> QED
    BY <1>2, <2>1, <2>2, <2>3, <2>4, <2>5, PageSends
<1>4. CASE Feed!Subscribe
  <2>1. /\ page.stream = "connecting" /\ UNCHANGED gap /\ queue' = << >>
        /\ page' = [page EXCEPT !.stream = "subscribed"]
    BY <1>4 DEF Feed!Subscribe
  <2>2. queue = None
    BY <2>1 DEF FeedFull, FeedInv, FeedTypes
  <2>3. /\ page'.replay = page.replay /\ page'.buffered = page.buffered
        /\ page'.list = page.list /\ page'.loaded = page.loaded /\ page'.known = page.known
        /\ page'.deleted = page.deleted /\ page'.shown = page.shown
        /\ page'.unknown = page.unknown /\ page'.asked = page.asked
    BY <1>1, <2>1 DEF FeedPages
  <2>4. PageOrder(page')
    BY <1>1, <2>1, <2>3 DEF PageOrder
  <2>5. ASSUME NEW t \in FeedTasks, Delivered(t)
        PROVE  Delivered(t)'
    <3>1. IF EventsOf(page.replay, t) # {}
          THEN \A i \in EventsOf(page.replay, t) : page.replay[i].view = row[t]
          ELSE PageHas(page, t, row[t])
      BY <2>2, <2>5 DEF Delivered
    <3>2. PageHas(page, t, row[t]) => PageHas(page, t, row[t])'
      BY <1>2, <2>3 DEF PageHas, EventsOf, LastIs
    <3>3. EventsOf(queue, t)' = {} /\ EventsOf(page.replay, t)' = EventsOf(page.replay, t)
      BY <1>1, <2>1, <2>3 DEF EventsOf
    <3> QED
      BY <1>2, <2>3, <3>1, <3>2, <3>3 DEF Delivered
  <2> QED
    BY <1>1, <1>2, <2>1, <2>3, <2>4, <2>5, PageSends
<1>5. CASE Feed!Replay
  <2> DEFINE T == {t \in FeedTasks : latest[t] # 0}
  <2>1. PICK order \in [1..Feed!Cardinality(T) -> T] :
          page' = [page EXCEPT !.stream = "open",
                     !.replay = [i \in DOMAIN order |->
                                   [task |-> order[i], view |-> latest[order[i]]]]]
    BY <1>5 DEF Feed!Replay
  <2>2. page.stream = "subscribed" /\ UNCHANGED <<queue, gap>>
    BY <1>5 DEF Feed!Replay
  <2> DEFINE n == Feed!Cardinality(T)
             s == [i \in DOMAIN order |-> [task |-> order[i], view |-> latest[order[i]]]]
  <2>3. DOMAIN s = 1..n /\ \A i \in 1..n : s[i].view = latest[s[i].task] /\ s[i].task \in T
    OBVIOUS
  <2>4. page' = [page EXCEPT !.stream = "open", !.replay = s]
    BY <2>1
  <2> HIDE DEF s, n
  <2>5. AllTrue(s)
    BY <1>1, <2>3 DEF AllTrue, EventTrue, TruthInv, TaskTrue
  <2>6. /\ page'.replay = s /\ page'.buffered = page.buffered /\ page'.stream = "open"
        /\ page'.list = page.list /\ page'.loaded = page.loaded /\ page'.known = page.known
        /\ page'.deleted = page.deleted /\ page'.shown = page.shown
        /\ page'.unknown = page.unknown /\ page'.asked = page.asked
    BY <1>1, <2>4 DEF FeedPages
  <2>7. PageOrder(page')
    BY <1>1, <2>6 DEF PageOrder
  <2>8. ASSUME mode = "ordered", NEW t \in FeedTasks, latest[t] = row[t], Delivered(t)
        PROVE  Delivered(t)'
    <3>1. page.replay = << >>
      BY <1>1, <2>2, <2>8 DEF PageOrder
    <3>2. EventsOf(page.replay, t) = {}
      BY <1>1, <3>1
    <3>3. IF queue # None /\ EventsOf(queue, t) # {} THEN LastIs(queue, t, row[t])
          ELSE PageHas(page, t, row[t])
      BY <2>8, <3>2 DEF Delivered
    <3>4. \A i \in EventsOf(s, t) : s[i].view = row[t]
      BY <2>3, <2>8 DEF EventsOf
    <3>5. PageHas(page, t, row[t]) => PageHas(page, t, row[t])'
      BY <1>2, <2>6 DEF PageHas, EventsOf, LastIs
    <3>6. /\ EventsOf(queue, t)' = EventsOf(queue, t) /\ queue' = queue
          /\ LastIs(queue, t, row[t])' = LastIs(queue, t, row[t])
          /\ EventsOf(page.replay, t)' = EventsOf(s, t)
      BY <1>2, <2>2, <2>6 DEF EventsOf, LastIs
    <3> QED
      BY <1>2, <2>6, <3>3, <3>4, <3>5, <3>6 DEF Delivered
  <2> QED
    BY <1>1, <1>2, <2>2, <2>5, <2>6, <2>7, <2>8, PageSends
<1>6. CASE Feed!Disconnect
  <2>1. /\ page' = [page EXCEPT !.stream = "connecting", !.replay = <<>>]
        /\ mode = "racing" /\ queue' = None /\ (~gap' => ~gap)
    BY <1>6 DEF Feed!Disconnect
  <2>2. /\ page'.replay = << >> /\ page'.deleted = page.deleted /\ page'.asked = page.asked
        /\ page'.list = page.list /\ page'.loaded = page.loaded /\ page'.known = page.known
        /\ page'.unknown = page.unknown
    BY <1>1, <2>1 DEF FeedPages
  <2>3. PageOrder(page')
    BY <1>1, <2>1, <2>2 DEF PageOrder
  <2> QED
    BY <1>2, <2>1, <2>2, <2>3, PageSends
<1> QED
  BY <1>3, <1>4, <1>5, <1>6

\* The list has the rows.
LEMMA ListReadSends ==
  ASSUME FeedFull, Feed!ListRead
  PROVE  TruthInv' /\ SentInv'
<1>1. page \in FeedPages /\ PageOrder(page) /\ AllTrue(page.replay)
      /\ (queue # None => AllTrue(queue))
  BY DEF FeedFull, FeedInv, FeedTypes, TruthInv, SentInv
<1>2. /\ UNCHANGED <<mode, row, publisher, latest, queue, gap>> /\ ~page.loaded
      /\ page' = [page EXCEPT !.list = row]
  BY DEF Feed!ListRead, Feed!besidePage
<1>3. /\ page'.replay = page.replay /\ page'.buffered = page.buffered
      /\ page'.list = row /\ page'.loaded = page.loaded /\ page'.known = page.known
      /\ page'.deleted = page.deleted /\ page'.shown = page.shown
      /\ page'.unknown = page.unknown /\ page'.asked = page.asked /\ page'.stream = page.stream
  BY <1>1, <1>2 DEF FeedPages
<1>4. PageOrder(page')
  BY <1>1, <1>2, <1>3 DEF PageOrder
<1>5. \A t \in FeedTasks : PageHas(page, t, row[t]) => PageHas(page', t, row[t])
  BY <1>2, <1>3 DEF PageHas
<1>6. \A t \in FeedTasks : Delivered(t) => Delivered(t)'
  BY <1>2, <1>3, <1>5, DeliveredKept
<1> QED
  BY <1>1, <1>2, <1>3, <1>4, <1>6, PageSends

\* With a task's row in the list, or in the last event since, the page shows it.
LEMMA ListArrivesSends ==
  ASSUME FeedFull, Feed!ListArrives
  PROVE  TruthInv' /\ SentInv'
<1> DEFINE listed == Feed!Listed \ page.deleted
           shown == [t \in FeedTasks |-> IF t \in listed THEN Feed!WithBuffered[t] ELSE 0]
<1>1. page \in FeedPages /\ PageOrder(page) /\ AllTrue(page.replay)
      /\ (queue # None => AllTrue(queue))
  BY DEF FeedFull, FeedInv, FeedTypes, TruthInv, SentInv
<1>2. /\ UNCHANGED <<mode, row, publisher, latest, queue>> /\ page.list # None
      /\ gap' = (gap \/ \E t \in FeedTasks \ (listed \cup page.deleted) : Feed!Buffered(t) # {})
      /\ page' = [page EXCEPT !.list = None, !.loaded = TRUE, !.buffered = <<>>,
                      !.known = listed, !.shown = shown]
  BY DEF Feed!ListArrives, Feed!Loads, Feed!besidePage
<1>3. \A t \in FeedTasks : t \in listed <=> page.list[t] > 0 /\ t \notin page.deleted
  BY DEF Feed!Listed
<1>4. \A t \in listed : shown[t] = IF Feed!Buffered(t) = {} THEN page.list[t]
                                   ELSE Feed!LastBuffered(t)
  BY DEF Feed!WithBuffered, Feed!Listed
<1> HIDE DEF listed, shown
<1>5. /\ page'.replay = page.replay
      /\ page'.list = None /\ page'.loaded /\ page'.known = listed
      /\ page'.deleted = page.deleted /\ page'.shown = shown /\ page'.buffered = << >>
      /\ page'.unknown = page.unknown /\ page'.asked = page.asked /\ page'.stream = page.stream
  BY <1>1, <1>2 DEF FeedPages
<1>6. ~page.loaded
  BY <1>1, <1>2 DEF PageOrder
<1>7. PageOrder(page')
  BY <1>1, <1>5, <1>6 DEF PageOrder
<1>8. \A t : Feed!Buffered(t) = EventsOf(page.buffered, t)
  BY DEF Feed!Buffered, EventsOf
<1>9. ASSUME NEW t \in FeedTasks, ~gap', row[t] > 0, PageHas(page, t, row[t])
      PROVE  PageHas(page', t, row[t])
  <2>1. t \notin page.deleted
    BY <1>9 DEF FeedFull, TruthInv, TaskTrue, Feed!Gone
  <2>2. CASE EventsOf(page.buffered, t) = {}
    <3>1. page.list[t] = row[t]
      BY <1>2, <1>6, <1>9, <2>2 DEF PageHas
    <3>2. t \in listed
      BY <1>3, <1>9, <2>1, <3>1
    <3>3. shown[t] = row[t]
      BY <1>4, <1>8, <2>2, <3>1, <3>2
    <3> QED
      BY <1>5, <3>2, <3>3 DEF PageHas
  <2>3. CASE EventsOf(page.buffered, t) # {}
    <3>1. LastIs(page.buffered, t, row[t])
      BY <1>6, <1>9, <2>3 DEF PageHas
    <3>2. t \in listed
      BY <1>2, <1>8, <1>9, <2>1, <2>3
    <3>3. Feed!LastBuffered(t) = row[t]
      <4>1. page.buffered \in Seq(FeedEvents)
        BY <1>1 DEF FeedPages
      <4>2. DOMAIN page.buffered = 1..Len(page.buffered) /\ Len(page.buffered) \in Nat
        BY <4>1, LenProperties
      <4>3. EventsOf(page.buffered, t) \in SUBSET (1..Len(page.buffered))
        BY <4>2 DEF EventsOf
      <4>4. \E i \in EventsOf(page.buffered, t) : \A j \in EventsOf(page.buffered, t) : j <= i
        BY <2>3, <4>2, <4>3, LastExists
      <4> DEFINE i == CHOOSE i \in EventsOf(page.buffered, t) :
                        \A j \in EventsOf(page.buffered, t) : j <= i
      <4>5. i \in EventsOf(page.buffered, t) /\ \A j \in EventsOf(page.buffered, t) : j <= i
        BY <4>4
      <4>6. Feed!LastBuffered(t) = page.buffered[i].view
        BY <1>8 DEF Feed!LastBuffered
      <4> HIDE DEF i
      <4> QED
        BY <3>1, <4>5, <4>6 DEF LastIs
    <3>4. shown[t] = row[t]
      BY <1>4, <1>8, <2>3, <3>2, <3>3
    <3> QED
      BY <1>5, <3>2, <3>4 DEF PageHas
  <2> QED
    BY <2>2, <2>3
<1>10. \A t \in FeedTasks : ~gap' /\ row[t] > 0 /\ Delivered(t) => Delivered(t)'
  BY <1>2, <1>5, <1>9, DeliveredKept
<1>11. ~gap' => ~gap
  BY <1>2
<1> QED
  BY <1>1, <1>2, <1>5, <1>7, <1>10, <1>11, PageSends

\* A task that was there when the server read the list is shown with its last event.
LEMMA ConfirmSends ==
  ASSUME FeedFull, NEW t \in FeedTasks, Feed!ConfirmRead(t) \/ Feed!ConfirmArrives(t)
  PROVE  TruthInv' /\ SentInv'
<1>1. /\ page \in FeedPages /\ PageHolds(page) /\ PageOrder(page) /\ AllTrue(page.replay)
      /\ (queue # None => AllTrue(queue)) /\ row \in [FeedTasks -> Int] /\ TaskTrue(t)
  BY DEF FeedFull, FeedInv, FeedTypes, TruthInv, SentInv
<1>2. UNCHANGED <<mode, row, publisher, latest, queue>> /\ (~gap' => ~gap)
  BY DEF Feed!ConfirmRead, Feed!ConfirmArrives, Feed!besidePage
<1>3. page.asked[t] # "no" /\ page.loaded
  BY <1>1 DEF Feed!ConfirmRead, Feed!ConfirmArrives, PageHolds
<1>4. CASE Feed!ConfirmRead(t)
  <2> DEFINE answer == IF Feed!Exists(t) THEN "there" ELSE "missing"
             asked == [page.asked EXCEPT ![t] = answer]
  <2>1. page' = [page EXCEPT !.asked = asked]
    BY <1>4 DEF Feed!ConfirmRead
  <2>2. asked[t] = answer /\ \A u \in FeedTasks \ {t} : asked[u] = page.asked[u]
    BY <1>1 DEF FeedPages
  <2>3. row[t] # 0 /\ (answer = "missing" => row[t] = Feed!Gone) /\ answer # "no"
    BY <1>1, <1>3 DEF TaskTrue, Feed!Exists
  <2> HIDE DEF asked, answer
  <2>4. /\ page'.replay = page.replay /\ page'.buffered = page.buffered
        /\ page'.list = page.list /\ page'.loaded = page.loaded /\ page'.known = page.known
        /\ page'.deleted = page.deleted /\ page'.shown = page.shown
        /\ page'.unknown = page.unknown /\ page'.asked = asked /\ page'.stream = page.stream
    BY <1>1, <2>1 DEF FeedPages
  <2>5. PageOrder(page')
    BY <1>1, <2>4 DEF PageOrder
  <2>6. \A u \in FeedTasks : PageHas(page, u, row[u]) => PageHas(page', u, row[u])
    BY <2>2, <2>3, <2>4 DEF PageHas
  <2>7. \A u \in FeedTasks : Delivered(u) => Delivered(u)'
    BY <1>2, <2>4, <2>6, DeliveredKept
  <2>8. \A u \in FeedTasks :
           /\ u \in page'.deleted => u \in page.deleted
           /\ \/ page'.asked[u] = page.asked[u]
              \/ /\ page'.asked[u] # "no" => row[u] # 0
                 /\ page'.asked[u] = "missing" => row[u] = Feed!Gone
    BY <2>2, <2>3, <2>4
  <2> QED
    BY <1>1, <1>2, <2>4, <2>5, <2>7, <2>8, PageSends
<1>5. CASE Feed!ConfirmArrives(t)
  <2> DEFINE asked == [page.asked EXCEPT ![t] = "no"]
             shown == [page.shown EXCEPT ![t] = page.unknown[t]]
             unknown == [page.unknown EXCEPT ![t] = 0]
  <2>1. \/ /\ page' = [page EXCEPT !.asked = asked]
           /\ \/ page.asked[t] = "missing" \/ t \in page.deleted \/ page.unknown[t] = 0
              \/ mode = "racing"
        \/ /\ page.asked[t] = "there" /\ t \notin page.deleted /\ page.unknown[t] # 0
           /\ page' = [page EXCEPT !.asked = asked, !.known = page.known \cup {t},
                                   !.shown = shown, !.unknown = unknown]
    BY <1>5 DEF Feed!ConfirmArrives
  <2>2. /\ asked[t] = "no" /\ \A u \in FeedTasks \ {t} : asked[u] = page.asked[u]
        /\ shown[t] = page.unknown[t] /\ \A u \in FeedTasks \ {t} : shown[u] = page.shown[u]
        /\ unknown[t] = 0 /\ \A u \in FeedTasks \ {t} : unknown[u] = page.unknown[u]
    BY <1>1 DEF FeedPages
  <2> HIDE DEF asked, shown, unknown
  <2>3. /\ page'.replay = page.replay /\ page'.buffered = page.buffered
        /\ page'.list = page.list /\ page'.loaded = page.loaded
        /\ page'.deleted = page.deleted /\ page'.asked = asked /\ page'.stream = page.stream
        /\ \/ /\ page'.known = page.known /\ page'.shown = page.shown
              /\ page'.unknown = page.unknown
              /\ \/ page.asked[t] = "missing" \/ t \in page.deleted \/ page.unknown[t] = 0
                 \/ mode = "racing"
           \/ /\ page.asked[t] = "there" /\ t \notin page.deleted /\ page.unknown[t] # 0
              /\ page'.known = page.known \cup {t} /\ page'.shown = shown
              /\ page'.unknown = unknown
    <3>1. CASE page' = [page EXCEPT !.asked = asked]
               /\ (\/ page.asked[t] = "missing" \/ t \in page.deleted \/ page.unknown[t] = 0
                   \/ mode = "racing")
      BY <1>1, <3>1 DEF FeedPages
    <3>2. CASE /\ page.asked[t] = "there" /\ t \notin page.deleted /\ page.unknown[t] # 0
               /\ page' = [page EXCEPT !.asked = asked, !.known = page.known \cup {t},
                                    !.shown = shown, !.unknown = unknown]
      BY <1>1, <3>2 DEF FeedPages
    <3> QED
      BY <2>1, <3>1, <3>2
  <2>4. PageOrder(page')
    BY <1>1, <1>3, <2>2, <2>3 DEF PageOrder
  <2>5. ASSUME mode = "ordered", NEW u \in FeedTasks, row[u] > 0, PageHas(page, u, row[u])
        PROVE  PageHas(page', u, row[u])
    <3>1. CASE u # t
      BY <2>2, <2>3, <2>5, <3>1 DEF PageHas
    <3>2. CASE u = t
      <4>1. t \notin page.deleted /\ page.asked[t] # "missing"
        BY <1>1, <2>5, <3>2 DEF TaskTrue, Feed!Gone
      <4>2. IF t \in page.known THEN page.shown[t] = row[t] /\ page.unknown[t] = 0
            ELSE page.unknown[t] = row[t]
        BY <1>1, <1>3, <2>5, <3>2 DEF PageHas, PageOrder
      <4>3. t \in page'.known /\ page'.shown[t] = row[t]
        BY <2>2, <2>3, <2>5, <3>2, <4>1, <4>2
      <4> QED
        BY <1>3, <2>3, <3>2, <4>3 DEF PageHas
    <3> QED
      BY <3>1, <3>2
  <2>6. \A u \in FeedTasks : mode = "ordered" /\ row[u] > 0 /\ Delivered(u) => Delivered(u)'
    BY <1>2, <2>3, <2>5, DeliveredKept
  <2>7. \A u \in FeedTasks :
           /\ u \in page'.deleted => u \in page.deleted
           /\ \/ page'.asked[u] = page.asked[u]
              \/ /\ page'.asked[u] # "no" => row[u] # 0
                 /\ page'.asked[u] = "missing" => row[u] = Feed!Gone
    BY <2>2, <2>3
  <2> QED
    BY <1>1, <1>2, <2>3, <2>4, <2>6, <2>7, PageSends
<1> QED
  BY <1>4, <1>5

\* What is left of the replay is no matter of an event.
LEMMA OnLiveKeepsReplay ==
  ASSUME page \in FeedPages, NEW t, NEW view
  PROVE  Feed!OnLive(t, view).replay = page.replay
BY DEF Feed!OnLive, FeedPages

\* The page takes the events in order, those of the replay first.
LEMMA ReceiveSends ==
  ASSUME FeedConstants, FeedFull, Feed!Receive
  PROVE  TruthInv' /\ SentInv'
<1>1. /\ page \in FeedPages /\ PageOrder(page) /\ page.stream = "open"
      /\ page.replay \in Seq(FeedEvents) /\ queue \in Seq(FeedEvents)
      /\ AllTrue(page.replay) /\ queue # None /\ AllTrue(queue)
  <2>1. /\ page \in FeedPages /\ PageOrder(page) /\ page.stream = "open"
        /\ page.replay \in Seq(FeedEvents) /\ queue \in Seq(FeedEvents)
        /\ AllTrue(page.replay)
    BY DEF FeedFull, FeedInv, FeedTypes, SentInv, TruthInv, Feed!Receive, FeedPages
  <2>2. queue # None
    BY <2>1 DEF FeedConstants
  <2> QED
    BY <2>1, <2>2 DEF FeedFull, TruthInv
<1>2. UNCHANGED <<mode, row, publisher, latest, gap>>
  BY DEF Feed!Receive, Feed!besidePage
<1>3. \A u \in FeedTasks : row[u] > 0 => row[u] # Feed!Gone /\ u \notin page.deleted
  BY DEF FeedFull, TruthInv, TaskTrue, Feed!Gone
<1>4. CASE /\ page.replay # <<>> /\ UNCHANGED queue
           /\ page' = [Feed!OnLive(Head(page.replay).task, Head(page.replay).view)
                         EXCEPT !.replay = Tail(page.replay)]
  <2> DEFINE e == Head(page.replay)
             q == Feed!OnLive(e.task, e.view)
             rest == Tail(page.replay)
  <2>1. e \in FeedEvents /\ EventTrue(e.task, e.view) /\ AllTrue(rest)
    BY <1>1, <1>4, HeadLeaves
  <2>2. e.task \in FeedTasks /\ e.view \in Int \ {0}
    BY <2>1 DEF FeedEvents
  <2>3. ASSUME NEW u \in FeedTasks
        PROVE  /\ EventsOf(rest, u) = {} /\ EventsOf(page.replay, u) # {} => e.task = u
               /\ EventsOf(rest, u) # {} => EventsOf(page.replay, u) # {}
               /\ e.task = u => EventsOf(page.replay, u) # {}
               /\ (\A i \in EventsOf(page.replay, u) : page.replay[i].view = row[u]) =>
                     /\ \A i \in EventsOf(rest, u) : rest[i].view = row[u]
                     /\ e.task = u => e.view = row[u]
    <3>1. /\ EventsOf(rest, u) = {} /\ EventsOf(page.replay, u) # {} => e.task = u
          /\ EventsOf(rest, u) # {} => EventsOf(page.replay, u) # {}
          /\ e.task = u => EventsOf(page.replay, u) # {}
      BY <1>1, <1>4, HeadLeaves
    <3>2. \A v : (\A i \in EventsOf(page.replay, u) : page.replay[i].view = v) =>
                     /\ \A i \in EventsOf(rest, u) : rest[i].view = v
                     /\ e.task = u => e.view = v
      BY <1>1, <1>4, HeadLeaves
    <3> HIDE DEF e, rest
    <3> QED
      BY <3>1, <3>2
  <2> HIDE DEF e
  <2>4. /\ q \in FeedPages /\ q.stream = page.stream /\ PageOrder(q)
        /\ q.deleted \subseteq page.deleted \cup (IF e.view = Feed!Gone THEN {e.task} ELSE {})
        /\ \A u \in FeedTasks : q.asked[u] = page.asked[u]
                                \/ (u = e.task /\ q.asked[u] = "sent")
        /\ \A u \in FeedTasks \ {e.task} : \A v : PageHas(page, u, v) => PageHas(q, u, v)
        /\ e.view # Feed!Gone /\ e.task \notin page.deleted => PageHas(q, e.task, e.view)
    <3>1. PageHolds(page)
      BY DEF FeedFull, FeedInv
    <3>2. q \in FeedPages
      BY <1>1, <2>2, <3>1, OnLiveBecomes
    <3> QED
      BY <1>1, <2>2, <3>2, PageTakes
  <2>5. page' = [q EXCEPT !.replay = rest]
    BY <1>4 DEF e
  <2> HIDE DEF q, rest
  <2>6. /\ page'.replay = rest /\ page'.stream = q.stream /\ page'.deleted = q.deleted
        /\ page'.known = q.known /\ page'.shown = q.shown /\ page'.asked = q.asked
        /\ page'.list = q.list /\ page'.loaded = q.loaded /\ page'.buffered = q.buffered
        /\ page'.unknown = q.unknown
    BY <2>4, <2>5 DEF FeedPages
  <2>7. PageOrder(page') /\ \A u, v : PageHas(page', u, v) = PageHas(q, u, v)
    BY <1>1, <2>4, <2>6 DEF PageOrder, PageHas
  <2>8. \A u \in FeedTasks :
           /\ u \in page'.deleted => u \in page.deleted \/ row[u] = Feed!Gone
           /\ \/ page'.asked[u] = page.asked[u]
              \/ /\ page'.asked[u] # "no" => row[u] # 0
                 /\ page'.asked[u] = "missing" => row[u] = Feed!Gone
    BY <2>1, <2>4, <2>6 DEF EventTrue
  <2>9. ASSUME NEW u \in FeedTasks, row[u] > 0, Delivered(u)
        PROVE  Delivered(u)'
    <3>1. CASE EventsOf(queue, u) # {}
      <4>1. LastIs(queue, u, row[u])
        BY <1>1, <2>9, <3>1 DEF Delivered
      <4>2. queue' # None /\ EventsOf(queue, u)' # {} /\ LastIs(queue, u, row[u])'
        BY <1>1, <1>2, <1>4, <3>1, <4>1 DEF EventsOf, LastIs
      <4> QED
        BY <4>2 DEF Delivered
    <3>2. CASE EventsOf(queue, u) = {}
      <4>1. IF EventsOf(page.replay, u) # {}
            THEN \A i \in EventsOf(page.replay, u) : page.replay[i].view = row[u]
            ELSE PageHas(page, u, row[u])
        BY <2>9, <3>2 DEF Delivered
      <4>2. IF EventsOf(rest, u) # {} THEN \A i \in EventsOf(rest, u) : rest[i].view = row[u]
            ELSE PageHas(q, u, row[u])
        <5>1. CASE EventsOf(rest, u) # {}
          BY <2>3, <4>1, <5>1
        <5>2. CASE EventsOf(rest, u) = {} /\ e.task = u
          <6>1. e.view = row[u]
            BY <2>3, <4>1, <5>2
          <6> QED
            BY <1>3, <2>4, <2>9, <5>2, <6>1
        <5>3. CASE EventsOf(rest, u) = {} /\ e.task # u
          BY <2>3, <2>4, <4>1, <5>3
        <5> QED
          BY <5>1, <5>2, <5>3
      <4>3. /\ EventsOf(queue, u)' = {} /\ EventsOf(page.replay, u)' = EventsOf(rest, u)
            /\ row' = row /\ page'.replay = rest
        BY <1>2, <1>4, <2>6, <3>2 DEF EventsOf
      <4>4. PageHas(q, u, row[u]) => PageHas(page, u, row[u])'
        <5>1. PageHas(q, u, row[u]) => PageHas(page', u, row[u])
          BY <2>7
        <5> QED
          BY <1>2, <5>1 DEF PageHas, EventsOf, LastIs
      <4> QED
        BY <4>2, <4>3, <4>4 DEF Delivered
    <3> QED
      BY <3>1, <3>2
  <2>10. queue' # None => AllTrue(queue')
    BY <1>1, <1>4
  <2> QED
    BY <1>2, <2>1, <2>6, <2>7, <2>8, <2>9, <2>10, PageSends
<1>5. CASE /\ page.replay = << >> /\ queue # <<>> /\ queue' = Tail(queue)
           /\ page' = Feed!OnLive(Head(queue).task, Head(queue).view)
  <2> DEFINE e == Head(queue)
             rest == Tail(queue)
  <2>1. e \in FeedEvents /\ EventTrue(e.task, e.view) /\ AllTrue(rest) /\ rest \in Seq(FeedEvents)
    BY <1>1, <1>5, HeadLeaves
  <2>2. e.task \in FeedTasks /\ e.view \in Int \ {0} /\ rest # None
    BY <2>1 DEF FeedEvents, FeedConstants
  <2>3. ASSUME NEW u \in FeedTasks
        PROVE  /\ EventsOf(rest, u) = {} /\ EventsOf(queue, u) # {} =>
                    e.task = u /\ (LastIs(queue, u, row[u]) => e.view = row[u])
               /\ EventsOf(rest, u) # {} =>
                    EventsOf(queue, u) # {} /\ (LastIs(queue, u, row[u]) => LastIs(rest, u, row[u]))
               /\ e.task = u => EventsOf(queue, u) # {}
    BY <1>1, <1>5, HeadLeaves
  <2> HIDE DEF e
  <2>4. page' = Feed!OnLive(e.task, e.view) /\ queue' = rest
    BY <1>5 DEF e
  <2> HIDE DEF rest
  <2>5. /\ page'.stream = page.stream /\ PageOrder(page')
        /\ page'.deleted \subseteq page.deleted \cup (IF e.view = Feed!Gone THEN {e.task} ELSE {})
        /\ \A u \in FeedTasks : page'.asked[u] = page.asked[u]
                                \/ (u = e.task /\ page'.asked[u] = "sent")
        /\ \A u \in FeedTasks \ {e.task} : \A v : PageHas(page, u, v) => PageHas(page', u, v)
        /\ e.view # Feed!Gone /\ e.task \notin page.deleted => PageHas(page', e.task, e.view)
    BY <1>1, <2>2, <2>4, PageTakes
  <2>6. page'.replay = << >>
    <3>1. Feed!OnLive(e.task, e.view).replay = page.replay
      BY <1>1, OnLiveKeepsReplay
    <3> QED
      BY <1>5, <2>4, <3>1
  <2>7. \A u \in FeedTasks :
           /\ u \in page'.deleted => u \in page.deleted \/ row[u] = Feed!Gone
           /\ \/ page'.asked[u] = page.asked[u]
              \/ /\ page'.asked[u] # "no" => row[u] # 0
                 /\ page'.asked[u] = "missing" => row[u] = Feed!Gone
    BY <2>1, <2>5 DEF EventTrue
  <2>8. ASSUME NEW u \in FeedTasks, row[u] > 0, Delivered(u)
        PROVE  Delivered(u)'
    <3>1. EventsOf(page.replay, u) = {} /\ EventsOf(page.replay, u)' = {}
      BY <1>5, <2>6 DEF EventsOf
    <3>2. IF EventsOf(queue, u) # {} THEN LastIs(queue, u, row[u]) ELSE PageHas(page, u, row[u])
      BY <1>1, <2>8, <3>1 DEF Delivered
    <3>3. IF EventsOf(rest, u) # {} THEN LastIs(rest, u, row[u]) ELSE PageHas(page', u, row[u])
      <4>1. CASE EventsOf(rest, u) # {}
        BY <2>3, <3>2, <4>1
      <4>2. CASE EventsOf(rest, u) = {} /\ e.task = u
        <5>1. e.view = row[u]
          BY <2>3, <3>2, <4>2
        <5> QED
          BY <1>3, <2>5, <2>8, <4>2, <5>1
      <4>3. CASE EventsOf(rest, u) = {} /\ e.task # u
        BY <2>3, <2>5, <3>2, <4>3
      <4> QED
        BY <4>1, <4>2, <4>3
    <3>4. /\ EventsOf(queue, u)' = EventsOf(rest, u) /\ queue' # None /\ row' = row
          /\ LastIs(queue, u, row[u])' = LastIs(rest, u, row[u])
      BY <1>2, <2>2, <2>4 DEF EventsOf, LastIs
    <3>5. PageHas(page', u, row[u]) => PageHas(page, u, row[u])'
      BY <1>2 DEF PageHas, EventsOf, LastIs
    <3> QED
      BY <3>1, <3>3, <3>4, <3>5 DEF Delivered
  <2>9. (queue' # None => AllTrue(queue')) /\ AllTrue(page'.replay)
    BY <2>1, <2>4, <2>6 DEF AllTrue
  <2> QED
    BY <1>2, <2>5, <2>7, <2>8, <2>9, PageSends
<1> QED
  BY <1>4, <1>5 DEF Feed!Receive

\* Every step keeps what the threads send true and delivered.
LEMMA SentStep ==
  ASSUME FeedConstants, FeedFull, [Feed!Next]_Feed!vars
  PROVE  FeedFull'
<1>1. FeedInv'
  BY FeedStep DEF FeedFull
<1>2. CASE UNCHANGED Feed!vars
  <2>1. TruthInv'
    BY <1>2 DEF Feed!vars, FeedFull, TruthInv, TaskTrue, AllTrue, EventTrue
  <2>2. \A t \in FeedTasks : Sent(t)' = Sent(t)
    BY <1>2 DEF Feed!vars, Sent, Publishing, Delivered, PageHas, EventsOf, LastIs
  <2>3. SentInv'
    BY <1>2, <2>2 DEF Feed!vars, FeedFull, SentInv, PageOrder, Feed!Exists
  <2> QED
    BY <1>1, <2>1, <2>3 DEF FeedFull
<1>3. ASSUME NEW p \in Publishers, NEW t \in FeedTasks,
             Feed!ChangeTask(p, t) \/ Feed!PublishTask(p, t) \/ Feed!EraseTask(p, t)
      PROVE  FeedFull'
  <2>1. row \in [FeedTasks -> Int] /\ row[t] \in Int
    BY DEF FeedFull, FeedInv, FeedTypes
  <2>2. CASE Feed!ChangeTask(p, t)
    <3>1. /\ Feed!Publishes(p, t, row[t] + 1) /\ row' = [row EXCEPT ![t] = row[t] + 1]
          /\ row[t] >= 0
      BY <2>1, <2>2 DEF Feed!ChangeTask
    <3>2. row[t] + 1 \in Int \ {0} /\ row[t] + 1 > 0 /\ row[t] # Feed!Gone
          /\ row' \in [FeedTasks -> Int] /\ row'[t] = row[t] + 1
          /\ \A u \in FeedTasks \ {t} : row'[u] = row[u]
      BY <2>1, <3>1 DEF Feed!Gone
    <3> QED
      BY <1>1, <3>1, <3>2, PublishSends DEF FeedFull
  <2>3. CASE Feed!PublishTask(p, t)
    <3>1. Feed!Publishes(p, t, row[t]) /\ row' = row /\ row[t] \in Int \ {0} /\ row[t] > 0
      BY <2>1, <2>3 DEF Feed!PublishTask, Feed!Exists
    <3>2. row[t] # Feed!Gone
      BY <3>1 DEF Feed!Gone
    <3> QED
      BY <1>1, <2>1, <3>1, <3>2, PublishSends DEF FeedFull
  <2>4. CASE Feed!EraseTask(p, t)
    <3>1. Feed!Publishes(p, t, Feed!Gone) /\ row' = [row EXCEPT ![t] = Feed!Gone] /\ row[t] > 0
      BY <2>4 DEF Feed!EraseTask, Feed!Exists
    <3>2. Feed!Gone \in Int \ {0} /\ row[t] # Feed!Gone
      BY <3>1 DEF Feed!Gone
    <3>3. row' \in [FeedTasks -> Int] /\ row'[t] = Feed!Gone
          /\ \A u \in FeedTasks \ {t} : row'[u] = row[u]
      BY <2>1, <3>1, <3>2
    <3> QED
      BY <1>1, <3>1, <3>2, <3>3, PublishSends DEF FeedFull
  <2> QED
    BY <1>3, <2>2, <2>3, <2>4
<1>4. ASSUME NEW p \in Publishers, Feed!RenderLatest(p) \/ Feed!Emit(p)
      PROVE  FeedFull'
  BY <1>1, <1>4, RenderSends, EmitSends DEF FeedFull
<1>5. CASE Feed!Mount \/ Feed!Subscribe \/ Feed!Replay \/ Feed!Disconnect
  BY <1>1, <1>5, StreamSends DEF FeedFull
<1>6. CASE Feed!ListRead \/ Feed!ListArrives \/ Feed!Receive
  BY <1>1, <1>6, ListReadSends, ListArrivesSends, ReceiveSends DEF FeedFull
<1>7. ASSUME NEW t \in FeedTasks, Feed!ConfirmRead(t) \/ Feed!ConfirmArrives(t)
      PROVE  FeedFull'
  BY <1>1, <1>7, ConfirmSends DEF FeedFull
<1> QED
  BY <1>2, <1>3, <1>4, <1>5, <1>6, <1>7 DEF Feed!Next

\* Tasks published by one thread at a time, and no event missed: once nothing is under
\* way the page shows every task with its row, and no other, in whatever order the
\* stream, its replay, the list and the answers about single tasks came.
THEOREM PageCatchesUp ==
  ASSUME FeedConstants
  PROVE  Spec => []CaughtUp
<1>1. Init => (kind = "feed" => FeedFull)
  BY FeedInit, SentInit, OneBegins DEF FeedFull
<1>2. (kind = "feed" => FeedFull) /\ [Next]_vars => (kind = "feed" => FeedFull)'
  BY SentStep, OneActs
<1>3. (kind = "feed" => FeedFull) => CaughtUp
  <2> SUFFICES ASSUME FeedFull, mode = "ordered", Feed!Quiet, ~gap, NEW t \in FeedTasks
               PROVE  page.shown[t] = IF Feed!Exists(t) THEN row[t] ELSE 0
    BY DEF CaughtUp, Feed!CaughtUp
  <2>1. /\ \A p \in Publishers : publisher[p].pc = "idle" /\ publisher[p].view = 0
        /\ queue = << >> /\ page.replay = << >> /\ page.loaded /\ page.asked[t] = "no"
    BY DEF Feed!Quiet, Feed!Idle
  <2>2. CASE Feed!Exists(t)
    <3>1. Delivered(t)
      BY <2>1, <2>2 DEF FeedFull, SentInv, Sent, Publishing
    <3>2. EventsOf(queue, t) = {} /\ EventsOf(page.replay, t) = {}
      BY <2>1 DEF EventsOf
    <3>3. PageHas(page, t, row[t])
      BY <3>1, <3>2 DEF Delivered
    <3> QED
      BY <2>1, <2>2, <3>3 DEF PageHas
  <2>3. CASE ~Feed!Exists(t)
    <3>1. ~Feed!TombstoneUnderWay(t)
      BY <2>1 DEF Feed!TombstoneUnderWay, Feed!Gone
    <3>2. t \notin page.known
      BY <2>3, <3>1 DEF FeedFull, FeedInv, PageHolds, Heard, Believed
    <3> QED
      BY <2>3, <3>2 DEF FeedFull, FeedInv, PageHolds
  <2> QED
    BY <2>2, <2>3
<1> QED
  BY <1>1, <1>2, <1>3, PTL DEF Spec

-----------------------------------------------------------------------------
(* Counting                                                                *)

\* A set of numbers that is not empty has a least one.
LEMMA LeastExists ==
  ASSUME NEW T \in SUBSET Nat, T # {}
  PROVE  \E n \in T : \A m \in T : n <= m
<1> DEFINE R == OpToRel(<, Nat)
<1>1. IsWellFoundedOn(R, Nat)
  BY NatLessThanWellFounded
<1>2. PICK n \in T : \A m \in T : ~ (<<m, n>> \in R)
  <2> HIDE DEF R
  <2> QED
    BY <1>1, WFMin
<1>3. \A m \in T : ~ (m < n)
  BY <1>2 DEF OpToRel
<1> QED
  BY <1>3

\* Induction over the numbers up to n, by the set of those a fact holds of.
LEMMA CountUp ==
  ASSUME NEW n \in Nat, NEW S, 0 \in S, \A k \in 0..n : k \in S /\ k < n => k + 1 \in S
  PROVE  0..n \subseteq S
<1> SUFFICES ASSUME (0..n) \ S # {}
             PROVE  FALSE
  OBVIOUS
<1>0. (0..n) \ S \in SUBSET Nat
  OBVIOUS
<1>1. PICK k \in (0..n) \ S : \A m \in (0..n) \ S : k <= m
  BY <1>0, LeastExists
<1>2. k # 0 /\ k - 1 \in 0..n
  BY <1>1
<1>3. k - 1 \in S
  BY <1>1, <1>2
<1> QED
  BY <1>1, <1>2, <1>3

-----------------------------------------------------------------------------
(* The rows of LegacyRows                                                  *)

RowsConstants == MaxEntries \in Nat /\ None \notin Nat

\* What FirstStartedWins says of the entries up to n.
Listed(n, key) == {i \in 1..n : Rows!Key(s3[i]) = key}
Decides(n, key) ==
  IF Rows!Started(key) \/ Listed(n, key) = {} THEN 0 ELSE Rows!Least(Listed(n, key))
OwnMetric(key) == Len(key) = 1 /\ key[1] \in s1 /\ Rows!Primary[key[1]].metric # None
Measured(n, key) ==
  {i \in Listed(n, key) : i >= Decides(n, key) /\ s3[i].metric}
    \cup (IF Decides(n, key) = 0 /\ OwnMetric(key) THEN {0} ELSE {})
StatusOf(n, key) ==
  IF Decides(n, key) = 0 THEN Rows!Primary[key[1]].status
  ELSE Rows!LegacyStatus(s3[Decides(n, key)])
MetricOf(n, key) == IF Measured(n, key) = {} THEN None ELSE Rows!Least(Measured(n, key))
Keys(n) == {<<t>> : t \in s1} \cup {Rows!Key(s3[i]) : i \in 1..n}
RowsUpTo(n) ==
  [key \in Keys(n) |-> [status |-> StatusOf(n, key), metric |-> MetricOf(n, key)]]

\* The least of a set is the one that no other is below.
LEMMA LeastIs ==
  ASSUME NEW S \in SUBSET Nat
  PROVE  /\ S # {} => Rows!Least(S) \in S /\ \A j \in S : Rows!Least(S) <= j
         /\ \A i \in S : (\A j \in S : i <= j) => Rows!Least(S) = i
<1>1. S # {} => \E i \in S : \A j \in S : i <= j
  BY LeastExists
<1>2. S # {} => Rows!Least(S) \in S /\ \A j \in S : Rows!Least(S) <= j
  BY <1>1 DEF Rows!Least
<1>3. ASSUME NEW i \in S, \A j \in S : i <= j
      PROVE  Rows!Least(S) = i
  <2>1. Rows!Least(S) \in S /\ Rows!Least(S) <= i
    BY <1>2
  <2>2. i <= Rows!Least(S) /\ i \in Nat /\ Rows!Least(S) \in Nat
    BY <1>3, <2>1
  <2> QED
    BY <2>1, <2>2
<1> QED
  BY <1>2, <1>3

\* The merge is as its definition says: the recursion comes to an end.
LEMMA MergedUnfolds ==
  ASSUME Len(s3) \in Nat
  PROVE  /\ Rows!Merged[0] = Rows!Own
         /\ \A n \in 1..Len(s3) : Rows!Merged[n] = Rows!MergeEntry(n, Rows!Merged[n - 1])
<1> DEFINE Upto(k, f) ==
             f = [n \in 0..k |-> IF n = 0 THEN Rows!Own ELSE Rows!MergeEntry(n, f[n - 1])]
           S == {k \in 0..Len(s3) : \E f : Upto(k, f)}
<1>1. 0 \in S
  <2> DEFINE f == [n \in 0..0 |-> Rows!Own]
  <2>1. Upto(0, f)
    OBVIOUS
  <2>2. \E h : Upto(0, h)
    <3> HIDE DEF Upto, f
    <3> QED
      BY <2>1
  <2> QED
    BY <2>2
<1>2. ASSUME NEW k \in 0..Len(s3), k \in S, k < Len(s3)
      PROVE  k + 1 \in S
  <2>1. PICK f : Upto(k, f)
    BY <1>2
  <2> DEFINE g == [n \in 0..(k + 1) |-> IF n = k + 1 THEN Rows!MergeEntry(n, f[k]) ELSE f[n]]
  <2>2. ASSUME NEW n \in 0..(k + 1)
        PROVE  g[n] = IF n = 0 THEN Rows!Own ELSE Rows!MergeEntry(n, g[n - 1])
    <3>1. CASE n = k + 1
      <4>1. g[n] = Rows!MergeEntry(n, f[k]) /\ g[n - 1] = f[k] /\ n # 0
        BY <3>1
      <4> QED
        BY <4>1, <3>1
    <3>2. CASE n # k + 1
      <4>1. n \in 0..k /\ g[n] = f[n] /\ (n # 0 => g[n - 1] = f[n - 1])
        BY <3>2
      <4>2. f[n] = IF n = 0 THEN Rows!Own ELSE Rows!MergeEntry(n, f[n - 1])
        BY <2>1, <4>1
      <4> QED
        BY <4>1, <4>2
    <3> QED
      BY <3>1, <3>2
  <2>3. g = [n \in 0..(k + 1) |-> g[n]]
    OBVIOUS
  <2>4. Upto(k + 1, g)
    <3> HIDE DEF g
    <3> QED
      BY <2>2, <2>3
  <2>5. k + 1 \in 0..Len(s3)
    BY <1>2
  <2> HIDE DEF Upto, g
  <2> QED
    BY <2>4, <2>5
<1>3. Len(s3) \in S
  <2> HIDE DEF S
  <2>1. 0..Len(s3) \subseteq S
    BY <1>1, <1>2, CountUp
  <2> QED
    BY <2>1
<1>4. \E f : Upto(Len(s3), f)
  BY <1>3
<1>5. Upto(Len(s3), Rows!Merged)
  BY <1>4 DEF Rows!Merged
<1> HIDE DEF S
<1>6. \A n \in 0..Len(s3) :
        Rows!Merged[n] = IF n = 0 THEN Rows!Own ELSE Rows!MergeEntry(n, Rows!Merged[n - 1])
  BY <1>5
<1> QED
  BY <1>6



\* What is listed under a key, with one more entry.
LEMMA OneMoreListed ==
  ASSUME NEW n \in Nat, NEW key
  PROVE  /\ Listed(n, key) \in SUBSET (1..n) /\ Listed(n, key) \in SUBSET Nat
         /\ key # Rows!Key(s3[n + 1]) => Listed(n + 1, key) = Listed(n, key)
         /\ key = Rows!Key(s3[n + 1]) => Listed(n + 1, key) = Listed(n, key) \cup {n + 1}
<1>1. 1..(n + 1) = (1..n) \cup {n + 1}
  OBVIOUS
<1>2. Listed(n + 1, key) = {i \in (1..n) \cup {n + 1} : Rows!Key(s3[i]) = key}
  BY <1>1 DEF Listed
<1>3. key # Rows!Key(s3[n + 1]) => Listed(n + 1, key) = Listed(n, key)
  BY <1>2 DEF Listed
<1>4. key = Rows!Key(s3[n + 1]) => Listed(n + 1, key) = Listed(n, key) \cup {n + 1}
  BY <1>2 DEF Listed
<1>5. Listed(n, key) \in SUBSET (1..n) /\ Listed(n, key) \in SUBSET Nat
  BY DEF Listed
<1> QED
  BY <1>3, <1>4, <1>5

\* The row that decides is a listed one, or the task's own.
LEMMA DecidesIs ==
  ASSUME NEW n \in Nat, NEW key
  PROVE  /\ Decides(n, key) \in Nat
         /\ Decides(n, key) # 0 =>
              /\ Decides(n, key) \in Listed(n, key)
              /\ \A i \in Listed(n, key) : Decides(n, key) <= i
         /\ Measured(n, key) \in SUBSET Nat
<1>1. Listed(n, key) \in SUBSET (1..n) /\ Listed(n, key) \in SUBSET Nat
  BY OneMoreListed
<1>2. Listed(n, key) # {} =>
        /\ Rows!Least(Listed(n, key)) \in Listed(n, key)
        /\ \A j \in Listed(n, key) : Rows!Least(Listed(n, key)) <= j
  BY <1>1, LeastIs
<1>3. /\ Decides(n, key) \in Nat
      /\ Decides(n, key) # 0 =>
           /\ Decides(n, key) \in Listed(n, key)
           /\ \A i \in Listed(n, key) : Decides(n, key) <= i
  BY <1>1, <1>2 DEF Decides
<1> QED
  BY <1>1, <1>3 DEF Measured

\* A row of an older list has a status that no other entry replaces.
LEMMA LegacyStays ==
  ASSUME NEW entry
  PROVE  Rows!LegacyStatus(entry) \notin Rows!Replaceable
BY DEF Rows!LegacyStatus, Rows!Replaceable

\* An entry leaves the rows of other keys alone.
LEMMA OtherKeys ==
  ASSUME NEW n \in Nat, NEW key, key # Rows!Key(s3[n + 1])
  PROVE  StatusOf(n + 1, key) = StatusOf(n, key) /\ MetricOf(n + 1, key) = MetricOf(n, key)
<1>1. Listed(n + 1, key) = Listed(n, key)
  BY OneMoreListed
<1>2. Decides(n + 1, key) = Decides(n, key)
  BY <1>1 DEF Decides
<1>3. Measured(n + 1, key) = Measured(n, key)
  BY <1>1, <1>2 DEF Measured
<1> QED
  BY <1>2, <1>3 DEF StatusOf, MetricOf

\* A key that has no row: its entry is the first.
LEMMA NewKey ==
  ASSUME NEW n \in Nat, NEW key, key = Rows!Key(s3[n + 1]), key \notin Keys(n)
  PROVE  ~ Rows!Started(key) /\ Listed(n, key) = {} /\ ~ OwnMetric(key)
<1>1. \A t \in s1 : key # <<t>>
  BY DEF Keys
<1>2. Len(key) = 1 => key[1] \notin s1
  BY <1>1 DEF Rows!Key
<1>3. Listed(n, key) = {}
  BY DEF Keys, Listed
<1> QED
  BY <1>2, <1>3 DEF Rows!Started, OwnMetric

\* An entry that finds no row, or one that has not started, is the first of its key.
LEMMA FirstEntry ==
  ASSUME RowsConstants, NEW n \in Nat, NEW key, key = Rows!Key(s3[n + 1]),
         ~ Rows!Started(key), Listed(n, key) = {}
  PROVE  /\ StatusOf(n + 1, key) = Rows!LegacyStatus(s3[n + 1])
         /\ MetricOf(n + 1, key) = IF s3[n + 1].metric THEN n + 1 ELSE None
<1>1. Listed(n + 1, key) = {n + 1}
  BY OneMoreListed
<1>2. Rows!Least({n + 1}) = n + 1
  BY LeastIs
<1>3. Decides(n + 1, key) = n + 1
  BY <1>1, <1>2 DEF Decides
<1>4. Measured(n + 1, key) = IF s3[n + 1].metric THEN {n + 1} ELSE {}
  BY <1>1, <1>3 DEF Measured
<1> QED
  BY <1>2, <1>3, <1>4 DEF StatusOf, MetricOf

\* An entry that finds a row that has started may only give it its first metric.
LEMMA LaterEntry ==
  ASSUME RowsConstants, NEW n \in Nat, NEW key, key = Rows!Key(s3[n + 1]),
         Rows!Started(key) \/ Listed(n, key) # {}
  PROVE  /\ StatusOf(n + 1, key) = StatusOf(n, key)
         /\ MetricOf(n + 1, key) =
              IF MetricOf(n, key) = None THEN IF s3[n + 1].metric THEN n + 1 ELSE None
              ELSE MetricOf(n, key)
<1>1. /\ Listed(n + 1, key) = Listed(n, key) \cup {n + 1}
      /\ Listed(n, key) \in SUBSET (1..n) /\ Listed(n + 1, key) \in SUBSET Nat
  <2>1. n + 1 \in Nat
    OBVIOUS
  <2> QED
    BY <2>1, OneMoreListed
<1>2. Decides(n + 1, key) = Decides(n, key)
  <2>1. CASE Rows!Started(key)
    BY <2>1 DEF Decides
  <2>2. CASE ~ Rows!Started(key)
    <3>1. Listed(n, key) # {} /\ Listed(n, key) \in SUBSET Nat
      BY <1>1, <2>2
    <3>2. /\ Rows!Least(Listed(n, key)) \in Listed(n, key)
          /\ \A j \in Listed(n, key) : Rows!Least(Listed(n, key)) <= j
      BY <3>1, LeastIs
    <3>3. \A j \in Listed(n + 1, key) : Rows!Least(Listed(n, key)) <= j
      BY <1>1, <3>2
    <3>4. Rows!Least(Listed(n + 1, key)) = Rows!Least(Listed(n, key))
      BY <1>1, <3>2, <3>3, LeastIs
    <3> QED
      BY <1>1, <2>2, <3>1, <3>4 DEF Decides
  <2> QED
    BY <2>1, <2>2
<1>3. Decides(n, key) \in Nat /\ Decides(n, key) <= n
  BY <1>1, DecidesIs
<1>4. /\ Measured(n + 1, key) = Measured(n, key) \cup (IF s3[n + 1].metric THEN {n + 1} ELSE {})
      /\ Measured(n, key) \in SUBSET (0..n)
  BY <1>1, <1>2, <1>3 DEF Measured
<1>5. /\ Measured(n, key) \in SUBSET Nat /\ Measured(n + 1, key) \in SUBSET Nat
      /\ \A i \in Measured(n, key) : i < n + 1
  BY <1>4
<1>6. CASE Measured(n, key) = {}
  <2>1. MetricOf(n, key) = None
    BY <1>6 DEF MetricOf
  <2>2. Rows!Least({n + 1}) = n + 1
    BY LeastIs
  <2>3. MetricOf(n + 1, key) = IF s3[n + 1].metric THEN n + 1 ELSE None
    BY <1>4, <1>6, <2>2 DEF MetricOf
  <2> QED
    BY <1>2, <2>1, <2>3 DEF StatusOf
<1>7. CASE Measured(n, key) # {}
  <2>1. /\ Rows!Least(Measured(n, key)) \in Measured(n, key)
        /\ \A j \in Measured(n, key) : Rows!Least(Measured(n, key)) <= j
    BY <1>5, <1>7, LeastIs
  <2>2. Rows!Least(Measured(n, key)) \in Nat
    BY <1>5, <2>1
  <2>3. MetricOf(n, key) = Rows!Least(Measured(n, key)) /\ MetricOf(n, key) # None
    BY <1>7, <2>2 DEF MetricOf, RowsConstants
  <2>4. \A j \in Measured(n + 1, key) : Rows!Least(Measured(n, key)) <= j
    BY <1>4, <1>5, <2>1
  <2>5. Rows!Least(Measured(n + 1, key)) = Rows!Least(Measured(n, key))
    BY <1>4, <1>5, <2>1, <2>4, LeastIs
  <2>6. MetricOf(n + 1, key) = MetricOf(n, key)
    BY <1>4, <1>7, <2>3, <2>5 DEF MetricOf
  <2> QED
    BY <1>2, <2>3, <2>6 DEF StatusOf
<1> QED
  BY <1>6, <1>7

\* A row that is there is replaced exactly if no work has started under its key.
LEMMA ReplacedRow ==
  ASSUME NEW n \in Nat, NEW key \in Keys(n)
  PROVE  StatusOf(n, key) \in Rows!Replaceable <=> ~ Rows!Started(key) /\ Listed(n, key) = {}
<1>1. CASE Rows!Started(key)
  <2>1. StatusOf(n, key) = Rows!Primary[key[1]].status
    BY <1>1 DEF StatusOf, Decides
  <2> QED
    BY <1>1, <2>1 DEF Rows!Started
<1>2. CASE ~ Rows!Started(key) /\ Listed(n, key) = {}
  <2>1. StatusOf(n, key) = Rows!Primary[key[1]].status
    BY <1>2 DEF StatusOf, Decides
  <2>2. PICK t \in s1 : key = <<t>>
    BY <1>2 DEF Keys, Listed
  <2> QED
    BY <1>2, <2>1, <2>2 DEF Rows!Started
<1>3. CASE ~ Rows!Started(key) /\ Listed(n, key) # {}
  <2>1. Listed(n, key) \in SUBSET (1..n) /\ Listed(n, key) \in SUBSET Nat
    BY OneMoreListed
  <2>2. Decides(n, key) # 0
    BY <1>3, <2>1, LeastIs DEF Decides
  <2>3. StatusOf(n, key) = Rows!LegacyStatus(s3[Decides(n, key)])
    BY <2>2 DEF StatusOf
  <2> QED
    BY <1>3, <2>3, LegacyStays
<1> QED
  BY <1>1, <1>2, <1>3

\* Merging the next entry gives the rows up to it.
LEMMA MergeStep ==
  ASSUME RowsConstants, NEW n \in Nat, s3[n + 1].metric \in BOOLEAN
  PROVE  Rows!MergeEntry(n + 1, RowsUpTo(n)) = RowsUpTo(n + 1)
<1> DEFINE k == Rows!Key(s3[n + 1])
           line == Rows!LegacyRow(n + 1)
           merged == RowsUpTo(n)
           rowOf(m, key) == [status |-> StatusOf(m, key), metric |-> MetricOf(m, key)]
<1>1. Keys(n + 1) = Keys(n) \cup {k}
  <2>1. 1..(n + 1) = (1..n) \cup {n + 1}
    OBVIOUS
  <2> QED
    BY <2>1 DEF Keys
<1>2. /\ DOMAIN merged = Keys(n) /\ \A key \in Keys(n) : merged[key] = rowOf(n, key)
      /\ merged = [key \in Keys(n) |-> merged[key]]
  BY DEF RowsUpTo
<1>3. RowsUpTo(n + 1) = [key \in Keys(n + 1) |-> rowOf(n + 1, key)]
  BY DEF RowsUpTo
<1>4. \A key : key # k => rowOf(n + 1, key) = rowOf(n, key)
  BY OtherKeys
<1>5. line = [status |-> Rows!LegacyStatus(s3[n + 1]),
              metric |-> IF s3[n + 1].metric THEN n + 1 ELSE None]
  BY DEF Rows!LegacyRow, Rows!Row
<1>6. Rows!Compared(merged, k) = IF k \in Keys(n) THEN StatusOf(n, k) ELSE "unknown"
  BY <1>2 DEF Rows!Compared
<1>7. Rows!MergeEntry(n + 1, merged) =
        IF Rows!Compared(merged, k) \in Rows!Replaceable THEN Rows!Put(merged, k, line)
        ELSE [merged EXCEPT ![k].metric = IF merged[k].metric = None THEN line.metric
                                           ELSE merged[k].metric]
  BY DEF Rows!MergeEntry
<1> HIDE DEF merged, line
<1>8. CASE Rows!Compared(merged, k) \in Rows!Replaceable
  <2>1. ~ Rows!Started(k) /\ Listed(n, k) = {}
    <3>1. CASE k \in Keys(n)
      BY <1>6, <1>8, <3>1, ReplacedRow
    <3>2. CASE k \notin Keys(n)
      BY <3>2, NewKey
    <3> QED
      BY <3>1, <3>2
  <2>2. rowOf(n + 1, k) = line
    BY <1>5, <2>1, FirstEntry
  <2>3. Rows!Put(merged, k, line) = [key \in Keys(n) \cup {k} |-> IF key = k THEN line ELSE merged[key]]
    BY <1>2 DEF Rows!Put
  <2>4. \A key \in Keys(n + 1) : (IF key = k THEN line ELSE merged[key]) = rowOf(n + 1, key)
    BY <1>1, <1>2, <1>4, <2>2
  <2> HIDE DEF k, rowOf
  <2> QED
    BY <1>1, <1>3, <1>7, <1>8, <2>3, <2>4 DEF merged
<1>9. CASE Rows!Compared(merged, k) \notin Rows!Replaceable
  <2>1. k \in Keys(n) /\ (Rows!Started(k) \/ Listed(n, k) # {})
    <3>1. k \in Keys(n)
      BY <1>6, <1>9 DEF Rows!Replaceable
    <3> QED
      BY <1>6, <1>9, <3>1, ReplacedRow
  <2> DEFINE metric == IF merged[k].metric = None THEN line.metric ELSE merged[k].metric
  <2>2. rowOf(n + 1, k) = [merged[k] EXCEPT !.metric = metric]
    <3>1. merged[k] = rowOf(n, k)
      BY <1>2, <2>1
    <3>2. StatusOf(n + 1, k) = StatusOf(n, k) /\ MetricOf(n + 1, k) = metric
      BY <1>5, <2>1, <3>1, LaterEntry
    <3> HIDE DEF metric
    <3> QED
      BY <3>1, <3>2
  <2>3. Keys(n + 1) = Keys(n)
    BY <1>1, <2>1
  <2> HIDE DEF k, rowOf, metric
  <2>4. Rows!MergeEntry(n + 1, merged) =
          [key \in Keys(n) |-> IF key = k THEN [merged[k] EXCEPT !.metric = metric] ELSE merged[key]]
    BY <1>2, <1>7, <1>9, <2>1 DEF metric
  <2>5. \A key \in Keys(n) :
          (IF key = k THEN [merged[k] EXCEPT !.metric = metric] ELSE merged[key]) = rowOf(n + 1, key)
    BY <1>2, <1>4, <2>1, <2>2
  <2> QED
    BY <1>3, <2>3, <2>4, <2>5 DEF merged
<1> QED
  BY <1>8, <1>9 DEF merged

\* The rows of the tasks alone.
LEMMA MergeBegins ==
  ASSUME RowsConstants
  PROVE  Rows!Own = RowsUpTo(0)
<1>1. Keys(0) = {<<t>> : t \in s1}
  BY DEF Keys
<1>2. ASSUME NEW t \in s1
      PROVE  /\ Rows!Primary[t] = [status |-> StatusOf(0, <<t>>), metric |-> MetricOf(0, <<t>>)]
  <2>1. Listed(0, <<t>>) = {} /\ Decides(0, <<t>>) = 0
    BY DEF Listed, Decides
  <2>2. \E state, metric : /\ Rows!Primary[t] = [status |-> state, metric |-> metric]
                           /\ metric \in {0, None}
    BY DEF Rows!Primary, Rows!TaskRow, Rows!Row
  <2>3. Measured(0, <<t>>) = IF Rows!Primary[t].metric # None THEN {0} ELSE {}
    BY <2>1 DEF Measured, OwnMetric
  <2>4. Rows!Least({0}) = 0
    BY LeastIs
  <2>5. StatusOf(0, <<t>>) = Rows!Primary[t].status
    BY <2>1 DEF StatusOf
  <2>6. MetricOf(0, <<t>>) = Rows!Primary[t].metric
    BY <2>2, <2>3, <2>4 DEF MetricOf, RowsConstants
  <2> QED
    BY <2>2, <2>5, <2>6
<1>3. \A key \in Keys(0) : Rows!Primary[key[1]] =
         [status |-> StatusOf(0, key), metric |-> MetricOf(0, key)]
  BY <1>1, <1>2
<1> QED
  BY <1>1, <1>3 DEF Rows!Own, RowsUpTo

\* However many entries there are.
LEMMA MergedIsRight ==
  ASSUME RowsConstants, s3 \in Seq(Rows!Entries)
  PROVE  Rows!Merged[Len(s3)] = RowsUpTo(Len(s3))
<1> DEFINE S == {n \in 0..Len(s3) : Rows!Merged[n] = RowsUpTo(n)}
<1>1. Len(s3) \in Nat /\ \A n \in 1..Len(s3) : s3[n].metric \in BOOLEAN
  <2>1. Len(s3) \in Nat /\ \A n \in 1..Len(s3) : s3[n] \in Rows!Entries
    BY LenProperties, ElementOfSeq
  <2> QED
    BY <2>1 DEF Rows!Entries
<1>2. 0 \in S
  BY <1>1, MergedUnfolds, MergeBegins
<1>3. ASSUME NEW n \in 0..Len(s3), n \in S, n < Len(s3)
      PROVE  n + 1 \in S
  <2>1. Rows!Merged[n + 1] = Rows!MergeEntry(n + 1, RowsUpTo(n))
    BY <1>1, <1>3, MergedUnfolds
  <2>2. Rows!MergeEntry(n + 1, RowsUpTo(n)) = RowsUpTo(n + 1)
    BY <1>1, <1>3, MergeStep
  <2> QED
    BY <1>1, <1>3, <2>1, <2>2
<1> HIDE DEF S
<1>4. 0..Len(s3) \subseteq S
  BY <1>1, <1>2, <1>3, CountUp
<1> QED
  BY <1>1, <1>4 DEF S

\* The reference of FirstStartedWins is that of all entries.
LEMMA RightRows ==
  ASSUME s3 \in Seq(Rows!Entries), s4 = RowsUpTo(Len(s3))
  PROVE  Rows!FirstStartedWins
<1> DEFINE n == Len(s3)
<1>1. DOMAIN s3 = 1..n
  OBVIOUS
<1>2. \A key : Rows!About(key) = Listed(n, key)
  BY <1>1 DEF Rows!About, Listed
<1>3. ASSUME NEW key \in DOMAIN s4
      PROVE  /\ s4[key].status = StatusOf(n, key)
             /\ s4[key].metric = MetricOf(n, key)
  BY <1>3 DEF RowsUpTo
<1> HIDE DEF n
<1>4. ASSUME NEW key \in DOMAIN s4
      PROVE
    LET head == IF Rows!Started(key) \/ Rows!About(key) = {} THEN 0
                ELSE Rows!Least(Rows!About(key))
        own == Len(key) = 1 /\ key[1] \in s1 /\ Rows!Primary[key[1]].metric # None
        measured == {i \in Rows!About(key) : i >= head /\ s3[i].metric}
                      \cup (IF head = 0 /\ own THEN {0} ELSE {})
    IN  /\ s4[key].status = IF head = 0 THEN Rows!Primary[key[1]].status
                            ELSE Rows!LegacyStatus(s3[head])
        /\ s4[key].metric = IF measured = {} THEN None ELSE Rows!Least(measured)
  <2> DEFINE head == IF Rows!Started(key) \/ Rows!About(key) = {} THEN 0
                     ELSE Rows!Least(Rows!About(key))
             own == Len(key) = 1 /\ key[1] \in s1 /\ Rows!Primary[key[1]].metric # None
             measured == {i \in Rows!About(key) : i >= head /\ s3[i].metric}
                           \cup (IF head = 0 /\ own THEN {0} ELSE {})
  <2>1. Rows!About(key) = Listed(n, key)
    BY <1>2
  <2>2. head = Decides(n, key)
    BY <2>1 DEF Decides
  <2>3. own <=> OwnMetric(key)
    BY DEF OwnMetric
  <2> HIDE DEF own, head
  <2>4. measured = Measured(n, key)
    BY <2>1, <2>2, <2>3 DEF Measured
  <2> HIDE DEF measured
  <2>5. s4[key].status = IF head = 0 THEN Rows!Primary[key[1]].status
                         ELSE Rows!LegacyStatus(s3[head])
    BY <1>3, <2>2 DEF StatusOf
  <2>6. s4[key].metric = IF measured = {} THEN None ELSE Rows!Least(measured)
    BY <1>3, <2>4 DEF MetricOf
  <2> QED
    BY <2>5, <2>6 DEF head, own, measured
<1> QED
  BY <1>4 DEF Rows!FirstStartedWins

RowsInv == s3 \in Seq(Rows!Entries) /\ (s4 # None => s4 = RowsUpTo(Len(s3)))

LEMMA RowsBegin ==
  ASSUME RowsConstants, Rows!Init
  PROVE  RowsInv
<1>1. PICK n \in 0..MaxEntries : s3 \in [1..n -> Rows!Entries]
  BY DEF Rows!Init
<1>2. n \in Nat
  BY <1>1 DEF RowsConstants
<1>3. s3 \in Seq(Rows!Entries)
  BY <1>1, <1>2, SeqDef
<1> QED
  BY <1>3 DEF Rows!Init, RowsInv

\* The merge is the only step.
LEMMA RowsStep ==
  ASSUME RowsConstants, RowsInv, [Rows!Next]_Rows!vars
  PROVE  RowsInv'
<1>1. UNCHANGED <<s1, s2, s3>>
  BY DEF Rows!Next, Rows!Merge, Rows!vars
<1>2. RowsUpTo(Len(s3))' = RowsUpTo(Len(s3))
  BY <1>1 DEF RowsUpTo, Keys, StatusOf, MetricOf, Measured, OwnMetric, Decides, Listed,
              Rows!Started, Rows!Primary, Rows!Key, Rows!Least, Rows!LegacyStatus,
              Rows!TaskRow, Rows!Row, Rows!Replaceable
<1>3. (s3 \in Seq(Rows!Entries))'
  BY <1>1 DEF RowsInv, Rows!Entries
<1>4. s4' # None => s4' = RowsUpTo(Len(s3))
  BY MergedIsRight DEF RowsInv, Rows!Next, Rows!Merge, Rows!vars
<1> QED
  BY <1>2, <1>3, <1>4 DEF RowsInv

\* FirstStartedWins: however often a task is listed in the older control plane,
\* under its name and its number, merge_legacy_feishu_rows leaves one row, from the
\* first source in which work has started, with the first metric from there on.
THEOREM FirstStartedHasRow ==
  ASSUME RowsConstants
  PROVE  Spec => []FirstStartedWins
<1>1. Init => (kind = "rows" => RowsInv)
  BY OneBegins, RowsBegin
<1>2. (kind = "rows" => RowsInv) /\ [Next]_vars => (kind = "rows" => RowsInv)'
  BY OneActs, RowsStep
<1>3. (kind = "rows" => RowsInv) => FirstStartedWins
  BY RightRows DEF RowsInv, FirstStartedWins, Rows!FirstStartedWins
<1> QED
  BY <1>1, <1>2, <1>3, PTL DEF Spec

-----------------------------------------------------------------------------
(* The v2 deployer: lists in part                                          *)

Elements(s) == {s[i] : i \in DOMAIN s}
DistinctSeq(s) == \A i, j \in DOMAIN s : s[i] = s[j] => i = j

\* The parts of a list, as Only goes through it.
PartsOf(s, S, kept) ==
  kept = [i \in 0..Len(s) |->
            IF i = 0 THEN <<>>
            ELSE IF s[i] \in S THEN Append(kept[i - 1], s[i]) ELSE kept[i - 1]]

\* Only comes to an end.
LEMMA OnlyUnfolds ==
  ASSUME NEW s, Len(s) \in Nat, NEW S
  PROVE  \E kept : PartsOf(s, S, kept) /\ Deploy!Only(s, S) = kept[Len(s)]
<1> DEFINE Upto(k, f) ==
             f = [i \in 0..k |->
                    IF i = 0 THEN <<>>
                    ELSE IF s[i] \in S THEN Append(f[i - 1], s[i]) ELSE f[i - 1]]
           K == {k \in 0..Len(s) : \E f : Upto(k, f)}
<1>1. 0 \in K
  <2> DEFINE f == [i \in 0..0 |-> <<>>]
  <2>1. Upto(0, f)
    OBVIOUS
  <2>2. \E h : Upto(0, h)
    <3> HIDE DEF Upto, f
    <3> QED
      BY <2>1
  <2> QED
    BY <2>2
<1>2. ASSUME NEW k \in 0..Len(s), k \in K, k < Len(s)
      PROVE  k + 1 \in K
  <2>1. PICK f : Upto(k, f)
    BY <1>2
  <2> DEFINE next == IF s[k + 1] \in S THEN Append(f[k], s[k + 1]) ELSE f[k]
             g == [i \in 0..(k + 1) |-> IF i = k + 1 THEN next ELSE f[i]]
  <2>2. ASSUME NEW i \in 0..(k + 1)
        PROVE  g[i] = IF i = 0 THEN <<>>
                      ELSE IF s[i] \in S THEN Append(g[i - 1], s[i]) ELSE g[i - 1]
    <3>1. CASE i = k + 1
      <4>1. g[i] = next /\ g[i - 1] = f[k] /\ i # 0
        BY <3>1
      <4> QED
        BY <4>1, <3>1
    <3>2. CASE i # k + 1
      <4>1. i \in 0..k /\ g[i] = f[i] /\ (i # 0 => g[i - 1] = f[i - 1])
        BY <3>2
      <4>2. f[i] = IF i = 0 THEN <<>>
                   ELSE IF s[i] \in S THEN Append(f[i - 1], s[i]) ELSE f[i - 1]
        BY <2>1, <4>1
      <4> QED
        BY <4>1, <4>2
    <3> QED
      BY <3>1, <3>2
  <2>3. g = [i \in 0..(k + 1) |-> g[i]]
    OBVIOUS
  <2>4. Upto(k + 1, g)
    <3> HIDE DEF g
    <3> QED
      BY <2>2, <2>3
  <2>5. k + 1 \in 0..Len(s)
    BY <1>2
  <2> HIDE DEF Upto, g
  <2> QED
    BY <2>4, <2>5
<1>3. Len(s) \in K
  <2> HIDE DEF K
  <2>1. 0..Len(s) \subseteq K
    BY <1>1, <1>2, CountUp
  <2> QED
    BY <2>1
<1>4. \E f : PartsOf(s, S, f)
  BY <1>3 DEF PartsOf
<1> DEFINE kept == CHOOSE f : PartsOf(s, S, f)
<1>5. PartsOf(s, S, kept)
  <2> QED
    BY <1>4
<1>6. Deploy!Only(s, S) = kept[Len(s)]
  BY DEF Deploy!Only, PartsOf
<1> QED
  BY <1>5, <1>6

\* A distinct list stays so with an element it does not have.
LEMMA AppendKeepsDistinct ==
  ASSUME NEW A, NEW q \in Seq(A), DistinctSeq(q), NEW x \in A, x \notin Elements(q)
  PROVE  /\ Append(q, x) \in Seq(A) /\ DistinctSeq(Append(q, x))
         /\ Elements(Append(q, x)) = Elements(q) \cup {x}
<1> DEFINE r == Append(q, x)
<1>1. /\ r \in Seq(A) /\ DOMAIN r = 1..(Len(q) + 1) /\ DOMAIN q = 1..Len(q)
      /\ r[Len(q) + 1] = x /\ \A i \in 1..Len(q) : r[i] = q[i]
      /\ Len(q) \in Nat
  OBVIOUS
<1> HIDE DEF r
<1>2. DistinctSeq(r)
  BY <1>1 DEF DistinctSeq, Elements
<1>3. Elements(r) = Elements(q) \cup {x}
  BY <1>1 DEF Elements
<1> QED
  BY <1>1, <1>2, <1>3 DEF r

\* The part of a distinct list is distinct and has the elements of both.
LEMMA OnlyIs ==
  ASSUME NEW A, NEW s \in Seq(A), DistinctSeq(s), NEW S
  PROVE  /\ Deploy!Only(s, S) \in Seq(A) /\ DistinctSeq(Deploy!Only(s, S))
         /\ Elements(Deploy!Only(s, S)) = Elements(s) \cap S
<1>1. Len(s) \in Nat /\ DOMAIN s = 1..Len(s) /\ \A i \in 1..Len(s) : s[i] \in A
  BY LenProperties, ElementOfSeq
<1>2. PICK kept : PartsOf(s, S, kept) /\ Deploy!Only(s, S) = kept[Len(s)]
  BY <1>1, OnlyUnfolds
<1>3. /\ kept[0] = <<>>
      /\ \A n \in 0..Len(s) : n < Len(s) =>
           kept[n + 1] = IF s[n + 1] \in S THEN Append(kept[n], s[n + 1]) ELSE kept[n]
  <2>1. \A i \in 0..Len(s) :
          kept[i] = IF i = 0 THEN <<>>
                    ELSE IF s[i] \in S THEN Append(kept[i - 1], s[i]) ELSE kept[i - 1]
    BY <1>1, <1>2 DEF PartsOf
  <2>2. ASSUME NEW n \in 0..Len(s), n < Len(s)
        PROVE  kept[n + 1] = IF s[n + 1] \in S THEN Append(kept[n], s[n + 1]) ELSE kept[n]
    <3>1. n + 1 \in 0..Len(s) /\ n + 1 # 0 /\ (n + 1) - 1 = n
      BY <1>1, <2>2
    <3> QED
      BY <2>1, <3>1
  <2> QED
    BY <1>1, <2>1, <2>2
<1> DEFINE First(n) == {s[i] : i \in 1..n}
           Good(n, q) == q \in Seq(A) /\ DistinctSeq(q) /\ Elements(q) = First(n) \cap S
           G == {n \in 0..Len(s) : Good(n, kept[n])}
<1>4. Good(0, <<>>)
  <2>1. DOMAIN <<>> = {} /\ <<>> \in Seq(A)
    OBVIOUS
  <2> QED
    BY <2>1 DEF DistinctSeq, Elements
<1>5. ASSUME NEW n \in 0..Len(s), n < Len(s), Good(n, kept[n])
      PROVE  Good(n + 1, kept[n + 1])
  <2>1. /\ n + 1 \in 1..Len(s) /\ s[n + 1] \in A /\ First(n + 1) = First(n) \cup {s[n + 1]}
        /\ s[n + 1] \notin First(n)
    <3>1. /\ 1..(n + 1) = (1..n) \cup {n + 1} /\ n + 1 \in 1..Len(s)
          /\ \A i \in 1..n : i \in 1..Len(s) /\ i # n + 1
      BY <1>1, <1>5
    <3> QED
      BY <1>1, <3>1 DEF DistinctSeq
  <2>2. kept[n] \in Seq(A) /\ DistinctSeq(kept[n]) /\ Elements(kept[n]) = First(n) \cap S
    BY <1>5
  <2> HIDE DEF First
  <2>3. CASE s[n + 1] \in S
    <3>1. kept[n + 1] = Append(kept[n], s[n + 1])
      BY <1>3, <1>5, <2>3
    <3>2. s[n + 1] \notin Elements(kept[n])
      BY <2>1, <2>2
    <3> QED
      BY <2>1, <2>2, <2>3, <3>1, <3>2, AppendKeepsDistinct
  <2>4. CASE s[n + 1] \notin S
    <3>1. kept[n + 1] = kept[n]
      BY <1>3, <1>5, <2>4
    <3> QED
      BY <2>1, <2>2, <2>4, <3>1
  <2> QED
    BY <2>3, <2>4
<1>6. Len(s) \in G
  <2> HIDE DEF Good
  <2>1. 0 \in G
    BY <1>1, <1>3, <1>4
  <2>2. \A n \in 0..Len(s) : n \in G /\ n < Len(s) => n + 1 \in G
    BY <1>1, <1>5
  <2> HIDE DEF G
  <2>3. 0..Len(s) \subseteq G
    BY <1>1, <2>1, <2>2, CountUp
  <2> QED
    BY <1>1, <2>3
<1>7. Good(Len(s), Deploy!Only(s, S))
  BY <1>2, <1>6
<1>8. First(Len(s)) = Elements(s)
  BY <1>1 DEF Elements
<1> HIDE DEF First
<1> QED
  BY <1>7, <1>8

\* An element in front and one at the end, in either order.
LEMMA PrependAppend ==
  ASSUME NEW A, NEW q \in Seq(A), NEW x \in A, NEW y \in A
  PROVE  Append(<<x>> \o q, y) = <<x>> \o Append(q, y)
<1> DEFINE one == <<x>>
           two == <<y>>
<1>1. one \in Seq(A) /\ two \in Seq(A) /\ one \o q \in Seq(A)
  OBVIOUS
<1>2. Append(one \o q, y) = (one \o q) \o two
  BY <1>1, AppendIsConcat
<1>3. Append(q, y) = q \o two
  BY AppendIsConcat
<1> HIDE DEF one, two
<1>4. (one \o q) \o two = one \o (q \o two)
  BY <1>1, ConcatAssociative
<1>5. Append(one \o q, y) = one \o Append(q, y)
  BY <1>2, <1>3, <1>4
<1> QED
  BY <1>5 DEF one

\* Without its first element, a part is the rest.
LEMMA OnlyRest ==
  ASSUME NEW A, NEW s \in Seq(A), DistinctSeq(s), NEW S, Deploy!Only(s, S) # <<>>
  PROVE  LET first == Deploy!Only(s, S)[1]
         IN  Deploy!Only(s, S \ {first}) = Tail(Deploy!Only(s, S))
<1>1. Len(s) \in Nat /\ DOMAIN s = 1..Len(s) /\ \A i \in 1..Len(s) : s[i] \in A
  BY LenProperties, ElementOfSeq
<1> DEFINE mine == {i \in 1..Len(s) : s[i] \in S}
<1>2. mine # {} /\ mine \in SUBSET Nat
  <2>1. Deploy!Only(s, S) \in Seq(A)
    BY OnlyIs
  <2>2. Len(Deploy!Only(s, S)) \in Nat /\ DOMAIN Deploy!Only(s, S) = 1..Len(Deploy!Only(s, S))
    BY <2>1
  <2>3. Len(Deploy!Only(s, S)) # 0
    BY <2>1, EmptySeq
  <2>4. 1 \in DOMAIN Deploy!Only(s, S)
    BY <2>2, <2>3
  <2>5. \E y \in Elements(s) : y \in S
    <3>1. Deploy!Only(s, S)[1] \in Elements(Deploy!Only(s, S))
      BY <2>4 DEF Elements
    <3> QED
      BY <3>1, OnlyIs
  <2> QED
    BY <1>1, <2>5 DEF Elements
<1>3. PICK j \in mine : \A i \in mine : j <= i
  BY <1>2, LeastExists
<1> DEFINE x == s[j]
           T == S \ {x}
<1>4. PICK f : PartsOf(s, S, f) /\ Deploy!Only(s, S) = f[Len(s)]
  BY <1>1, OnlyUnfolds
<1>5. PICK g : PartsOf(s, T, g) /\ Deploy!Only(s, T) = g[Len(s)]
  BY <1>1, OnlyUnfolds
<1>6. /\ f[0] = <<>> /\ g[0] = <<>>
      /\ \A n \in 0..Len(s) : n < Len(s) =>
           /\ f[n + 1] = IF s[n + 1] \in S THEN Append(f[n], s[n + 1]) ELSE f[n]
           /\ g[n + 1] = IF s[n + 1] \in T THEN Append(g[n], s[n + 1]) ELSE g[n]
  <2>1. \A i \in 0..Len(s) :
          /\ f[i] = IF i = 0 THEN <<>>
                    ELSE IF s[i] \in S THEN Append(f[i - 1], s[i]) ELSE f[i - 1]
          /\ g[i] = IF i = 0 THEN <<>>
                    ELSE IF s[i] \in T THEN Append(g[i - 1], s[i]) ELSE g[i - 1]
    <3> HIDE DEF T
    <3> QED
      BY <1>1, <1>4, <1>5 DEF PartsOf
  <2> HIDE DEF T
  <2>2. ASSUME NEW n \in 0..Len(s), n < Len(s)
        PROVE  /\ f[n + 1] = IF s[n + 1] \in S THEN Append(f[n], s[n + 1]) ELSE f[n]
               /\ g[n + 1] = IF s[n + 1] \in T THEN Append(g[n], s[n + 1]) ELSE g[n]
    <3>1. n + 1 \in 0..Len(s) /\ n + 1 # 0 /\ (n + 1) - 1 = n
      BY <1>1, <2>2
    <3> QED
      BY <2>1, <3>1
  <2> QED
    BY <1>1, <2>1, <2>2
<1> DEFINE Good(n) == /\ n < j => f[n] = <<>> /\ g[n] = <<>>
                      /\ n >= j => g[n] \in Seq(A) /\ f[n] = <<x>> \o g[n]
           K == {n \in 0..Len(s) : Good(n)}
<1>7. 0 \in K
  BY <1>1, <1>2, <1>3, <1>6
<1>8. ASSUME NEW n \in 0..Len(s), n < Len(s), Good(n)
      PROVE  Good(n + 1)
  <2>1. n + 1 \in 1..Len(s) /\ s[n + 1] \in A /\ j \in Nat /\ j \in 1..Len(s) /\ x \in A
    BY <1>1, <1>3, <1>8
  <2>2. CASE n + 1 < j
    <3>1. s[n + 1] \notin S
      BY <1>3, <2>1, <2>2
    <3> QED
      BY <1>6, <1>8, <2>1, <2>2, <3>1
  <2>3. CASE n + 1 = j
    <3>1. s[n + 1] = x /\ x \in S /\ x \notin T
      BY <1>3, <2>3
    <3>2. f[n] = <<>> /\ g[n] = <<>>
      BY <1>8, <2>1, <2>3
    <3> HIDE DEF T, x
    <3>3. f[n + 1] = Append(<<>>, x) /\ g[n + 1] = <<>>
      BY <1>6, <1>8, <3>1, <3>2
    <3>4. Append(<<>>, x) = <<x>> \o <<>>
      OBVIOUS
    <3> QED
      BY <2>1, <2>3, <3>3, <3>4
  <2>4. CASE n + 1 > j
    <3>1. s[n + 1] # x
      BY <1>1, <2>1, <2>4 DEF DistinctSeq
    <3>2. s[n + 1] \in S <=> s[n + 1] \in T
      BY <3>1
    <3>3. g[n] \in Seq(A) /\ f[n] = <<x>> \o g[n]
      BY <1>8, <2>1, <2>4
    <3> HIDE DEF T, x
    <3>4. CASE s[n + 1] \in S
      <4>1. f[n + 1] = Append(<<x>> \o g[n], s[n + 1]) /\ g[n + 1] = Append(g[n], s[n + 1])
        BY <1>6, <1>8, <3>2, <3>3, <3>4
      <4>2. Append(<<x>> \o g[n], s[n + 1]) = <<x>> \o Append(g[n], s[n + 1])
        BY <2>1, <3>3, PrependAppend
      <4>3. f[n + 1] = <<x>> \o g[n + 1]
        BY <4>1, <4>2, <3>3
      <4>4. g[n + 1] \in Seq(A)
        BY <2>1, <3>3, <4>1, AppendProperties
      <4>5. ~ (n + 1 < j)
        BY <2>1, <2>4
      <4> QED
        BY <4>3, <4>4, <4>5
    <3>5. CASE s[n + 1] \notin S
      <4>1. f[n + 1] = f[n] /\ g[n + 1] = g[n]
        BY <1>6, <1>8, <3>2, <3>5
      <4> QED
        BY <1>1, <2>1, <2>4, <3>3, <4>1
    <3> QED
      BY <3>4, <3>5
  <2> QED
    BY <2>1, <2>2, <2>3, <2>4
<1>9. Good(Len(s))
  <2> HIDE DEF Good
  <2>1. \A n \in 0..Len(s) : n \in K /\ n < Len(s) => n + 1 \in K
    BY <1>1, <1>8
  <2> HIDE DEF K
  <2>2. 0..Len(s) \subseteq K
    BY <1>1, <1>7, <2>1, CountUp
  <2> QED
    BY <1>1, <2>2 DEF K
<1>10. j \in Nat /\ j <= Len(s) /\ x \in A
  BY <1>1, <1>3
<1>11. Deploy!Only(s, T) \in Seq(A) /\ Deploy!Only(s, S) = <<x>> \o Deploy!Only(s, T)
  BY <1>1, <1>4, <1>5, <1>9, <1>10
<1> HIDE DEF T, x
<1>12. Deploy!Only(s, S)[1] = x /\ Tail(Deploy!Only(s, S)) = Deploy!Only(s, T)
  BY <1>10, <1>11
<1> QED
  BY <1>12 DEF T

-----------------------------------------------------------------------------
(* The v2 deployer: what a run plans                                       *)

AllPlaces == UNION {Elements(Deploy!Places(gpus)) : gpus \in Gpus}

\* The ids of tasks.yaml and the indexes of nvidia-smi are each once in their list.
DeployConstants ==
  /\ TaskList \in Seq(Elements(TaskList)) /\ DistinctSeq(TaskList)
  /\ \A gpus \in Gpus : gpus \in Seq(Elements(gpus)) /\ DistinctSeq(gpus)
  /\ SlotsPerGpu \in Nat /\ Gpus # {} /\ None \notin AllPlaces

Assignments == [task : Deploy!Tasks, place : AllPlaces]

\* Numbers below a product, and their quotient and rest.
LEMMA DivisionIs ==
  ASSUME NEW k \in Nat, NEW n \in Nat, NEW d \in Nat, d > 0, k < n * d
  PROVE  k \div d \in Nat /\ k \div d < n /\ k = d * (k \div d) + (k % d)
<1>1. k \div d \in Nat /\ k % d \in Nat /\ k = d * (k \div d) + (k % d)
  OBVIOUS
<1>2. ASSUME k \div d >= n
      PROVE  FALSE
  <2>1. d * (k \div d) >= d * n
    BY <1>1, <1>2
  <2> QED
    BY <1>1, <2>1
<1> QED
  BY <1>1, <1>2

\* Each slot of each GPU is one place.
LEMMA PlacesAreDistinct ==
  ASSUME DeployConstants, NEW gpus \in Gpus
  PROVE  /\ Deploy!Places(gpus) \in Seq(AllPlaces) /\ DistinctSeq(Deploy!Places(gpus))
         /\ Elements(Deploy!Places(gpus)) \subseteq AllPlaces
<1> DEFINE s == Deploy!Places(gpus)
           n == Len(gpus) * SlotsPerGpu
           gpu(i) == gpus[1 + (i - 1) \div SlotsPerGpu]
<1>1. Len(gpus) \in Nat /\ DOMAIN gpus = 1..Len(gpus) /\ SlotsPerGpu \in Nat
  BY LenProperties DEF DeployConstants
<1>2. n \in Nat
  BY <1>1
<1>3. s = [i \in 1..n |-> [gpu |-> gpu(i), slot |-> (i - 1) % SlotsPerGpu]]
  BY DEF Deploy!Places
<1>4. DistinctSeq(s)
  <2> SUFFICES ASSUME NEW i \in 1..n, NEW j \in 1..n, s[i] = s[j]
               PROVE  i = j
    BY <1>3 DEF DistinctSeq
  <2> DEFINE p == (i - 1) \div SlotsPerGpu
             q == (j - 1) \div SlotsPerGpu
  <2>1. SlotsPerGpu > 0 /\ Len(gpus) > 0
    BY <1>1
  <2>2. /\ p \in Nat /\ p < Len(gpus) /\ i - 1 = SlotsPerGpu * p + ((i - 1) % SlotsPerGpu)
        /\ q \in Nat /\ q < Len(gpus) /\ j - 1 = SlotsPerGpu * q + ((j - 1) % SlotsPerGpu)
    <3>1. i - 1 \in Nat /\ j - 1 \in Nat /\ i - 1 < n /\ j - 1 < n
      BY <1>2
    <3> QED
      BY <1>1, <2>1, <3>1, DivisionIs
  <2>3. gpus[1 + p] = gpus[1 + q] /\ (i - 1) % SlotsPerGpu = (j - 1) % SlotsPerGpu
    BY <1>3
  <2> HIDE DEF p, q
  <2>4. 1 + p \in DOMAIN gpus /\ 1 + q \in DOMAIN gpus
    BY <1>1, <2>2
  <2>5. p = q
    <3>1. 1 + p = 1 + q
      BY <2>3, <2>4 DEF DeployConstants, DistinctSeq
    <3>2. p \in Nat /\ q \in Nat
      BY <2>2
    <3> QED
      BY <3>1, <3>2
  <2>6. i - 1 = j - 1
    BY <2>2, <2>3, <2>5
  <2> QED
    BY <1>2, <2>6
<1>5. \A i \in 1..n : s[i] \in Elements(s)
  BY <1>3 DEF Elements
<1>6. Elements(s) \subseteq AllPlaces
  BY DEF AllPlaces
<1>7. s \in Seq(AllPlaces)
  <2>1. s \in [1..n -> AllPlaces]
    BY <1>3, <1>5, <1>6
  <2> QED
    BY <1>2, <2>1, SeqDef
<1> QED
  BY <1>4, <1>6, <1>7

\* The tasks without a record, each once.
LEMMA EligibleIs ==
  ASSUME DeployConstants
  PROVE  /\ Deploy!Eligible \in Seq(Deploy!Tasks) /\ DistinctSeq(Deploy!Eligible)
         /\ Elements(Deploy!Eligible) = Deploy!Open
<1>1. Deploy!Tasks = Elements(TaskList)
  BY DEF Deploy!Tasks, Deploy!ToSet, Elements
<1>2. Deploy!Open \subseteq Elements(TaskList)
  BY <1>1 DEF Deploy!Open
<1>3. /\ Deploy!Only(TaskList, Deploy!Open) \in Seq(Elements(TaskList))
      /\ DistinctSeq(Deploy!Only(TaskList, Deploy!Open))
      /\ Elements(Deploy!Only(TaskList, Deploy!Open)) = Elements(TaskList) \cap Deploy!Open
  BY OnlyIs DEF DeployConstants
<1> QED
  BY <1>1, <1>2, <1>3 DEF Deploy!Eligible

FreeSet(gpus) ==
  {p \in Elements(Deploy!Places(gpus)) : \A t \in Deploy!Tasks : s2[t] # p}

\* The places without a record, each once.
LEMMA FreePlacesAre ==
  ASSUME DeployConstants, NEW gpus \in Gpus
  PROVE  /\ Deploy!FreePlaces(gpus) = Deploy!Only(Deploy!Places(gpus), FreeSet(gpus))
         /\ Deploy!FreePlaces(gpus) \in Seq(AllPlaces) /\ DistinctSeq(Deploy!FreePlaces(gpus))
         /\ Elements(Deploy!FreePlaces(gpus)) = FreeSet(gpus)
<1>1. Deploy!FreePlaces(gpus) = Deploy!Only(Deploy!Places(gpus), FreeSet(gpus))
  BY DEF Deploy!FreePlaces, Deploy!ToSet, Elements, FreeSet
<1>2. FreeSet(gpus) \subseteq Elements(Deploy!Places(gpus))
  BY DEF FreeSet
<1> DEFINE s == Deploy!Places(gpus)
<1>3. s \in Seq(AllPlaces) /\ DistinctSeq(s)
  BY PlacesAreDistinct
<1> HIDE DEF s
<1>4. /\ Deploy!Only(s, FreeSet(gpus)) \in Seq(AllPlaces)
      /\ DistinctSeq(Deploy!Only(s, FreeSet(gpus)))
      /\ Elements(Deploy!Only(s, FreeSet(gpus))) = Elements(s) \cap FreeSet(gpus)
  BY <1>3, OnlyIs
<1> QED
  BY <1>1, <1>2, <1>4 DEF s

\* The first tasks with the first places.
Paired(plan, gpus) ==
  /\ Len(plan) <= Len(Deploy!Eligible) /\ Len(plan) <= Len(Deploy!FreePlaces(gpus))
  /\ \A i \in 1..Len(plan) :
       plan[i] = [task |-> Deploy!Eligible[i], place |-> Deploy!FreePlaces(gpus)[i]]

LEMMA PlanIs ==
  ASSUME DeployConstants, NEW gpus \in Gpus, NEW count \in Nat
  PROVE  Deploy!Plan(count, gpus) \in Seq(Assignments) /\ Paired(Deploy!Plan(count, gpus), gpus)
<1> DEFINE e == Deploy!Eligible
           f == Deploy!FreePlaces(gpus)
           S == {Len(e), count, Len(f)}
           n == CHOOSE k \in S : \A other \in S : k <= other
<1>1. e \in Seq(Deploy!Tasks) /\ f \in Seq(AllPlaces)
  BY EligibleIs, FreePlacesAre
<1>2. /\ Len(e) \in Nat /\ Len(f) \in Nat
      /\ \A i \in 1..Len(e) : e[i] \in Deploy!Tasks
      /\ \A i \in 1..Len(f) : f[i] \in AllPlaces
  BY <1>1, LenProperties, ElementOfSeq
<1>3. S \in SUBSET Nat /\ S # {}
  BY <1>2
<1>4. n \in S /\ \A other \in S : n <= other
  <2> HIDE DEF S
  <2>1. \E k \in S : \A other \in S : k <= other
    BY <1>3, LeastExists
  <2> QED
    BY <2>1
<1>5. n \in Nat /\ n <= Len(e) /\ n <= Len(f)
  BY <1>3, <1>4
<1> DEFINE plan == [i \in 1..n |-> [task |-> e[i], place |-> f[i]]]
<1>6. Deploy!Plan(count, gpus) = plan
  BY DEF Deploy!Plan
<1> HIDE DEF n, e, f
<1>7. plan \in [1..n -> Assignments]
  BY <1>2, <1>5 DEF Assignments
<1>8. plan \in Seq(Assignments) /\ Len(plan) = n
  BY <1>5, <1>7, SeqDef
<1>9. Paired(plan, gpus)
  BY <1>5, <1>8 DEF Paired, e, f
<1> QED
  BY <1>6, <1>8, <1>9

-----------------------------------------------------------------------------
(* The v2 deployer: a run                                                  *)

Placed == [Deploy!Tasks -> AllPlaces \cup {None}]
Runs == [pc : {"none", "session", "prompt", "save"}, copy : Placed, plan : Seq(Assignments)]

\* A run has the registry as it is, and tasks that are not in it, each once.
DeployTypes ==
  /\ s2 \in Placed /\ s3 \in Placed /\ s5 \in Runs
  /\ s5.pc = "none" => s5 = Deploy!NoRun
  /\ s5.pc # "none" => s5.copy = s2
  /\ s5.pc \in {"prompt", "save"} => s5.plan # <<>>
  /\ \A i \in DOMAIN s5.plan : s2[s5.plan[i].task] = None
  /\ \A i, j \in DOMAIN s5.plan : s5.plan[i].task = s5.plan[j].task => i = j

\* A task is recorded when its session, if it is there still, has the prompt.
PromptInv ==
  /\ Deploy!RecordedIsPrompted
  /\ s5.pc = "save" => (s3[s5.plan[1].task] # None => s5.plan[1].task \in s7)

\* The first element of a plan, and the rest.
LEMMA PlanParts ==
  ASSUME DeployTypes
  PROVE  /\ DOMAIN s5.plan = 1..Len(s5.plan) /\ Len(s5.plan) \in Nat
         /\ \A i \in 1..Len(s5.plan) : s5.plan[i] \in Assignments
         /\ s5.plan # <<>> =>
              /\ Deploy!Current = s5.plan[1] /\ 1 \in DOMAIN s5.plan
              /\ s5.plan[1] \in Assignments
              /\ s5.plan[1].task \in Deploy!Tasks /\ s5.plan[1].place \in AllPlaces
              /\ s2[s5.plan[1].task] = None
              /\ Tail(s5.plan) \in Seq(Assignments)
              /\ Len(Tail(s5.plan)) = Len(s5.plan) - 1
              /\ \A i \in 1..Len(Tail(s5.plan)) : Tail(s5.plan)[i] = s5.plan[i + 1]
<1> DEFINE p == s5.plan
<1>1. p \in Seq(Assignments)
  BY DEF DeployTypes, Runs
<1>2. /\ DOMAIN p = 1..Len(p) /\ Len(p) \in Nat
      /\ \A i \in 1..Len(p) : p[i] \in Assignments
  BY <1>1, LenProperties, ElementOfSeq
<1> HIDE DEF p
<1>3. ASSUME p # <<>>
      PROVE  /\ Head(p) = p[1] /\ 1 \in 1..Len(p) /\ Tail(p) \in Seq(Assignments)
             /\ Len(Tail(p)) = Len(p) - 1 /\ \A i \in 1..Len(Tail(p)) : Tail(p)[i] = p[i + 1]
  BY <1>1, <1>2, <1>3, EmptySeq
<1>4. p # <<>> => s2[p[1].task] = None
  BY <1>2, <1>3 DEF p, DeployTypes
<1> QED
  BY <1>2, <1>3, <1>4 DEF p, Deploy!Current, Assignments

\* A run begins with a plan of tasks that have no record.
LEMMA DeployBegin ==
  ASSUME DeployConstants, DeployTypes, PromptInv, Deploy!Begin
  PROVE  DeployTypes' /\ PromptInv'
<1>1. PICK count \in 1..Len(TaskList), gpus \in Gpus :
        s5' = [pc |-> "session", copy |-> s2, plan |-> Deploy!Plan(count, gpus)]
  BY DEF Deploy!Begin
<1> DEFINE plan == Deploy!Plan(count, gpus)
<1>2. plan \in Seq(Assignments) /\ Paired(plan, gpus)
  BY PlanIs
<1>3. DOMAIN plan = 1..Len(plan) /\ Len(plan) \in Nat
  BY <1>2
<1>4. UNCHANGED <<s1, s2, s3, s4, s7>>
  BY DEF Deploy!Begin
<1> DEFINE e == Deploy!Eligible
<1>5. /\ e \in Seq(Deploy!Tasks) /\ DistinctSeq(e) /\ Elements(e) = Deploy!Open
  BY EligibleIs
<1>6. DOMAIN e = 1..Len(e) /\ Len(e) \in Nat
  BY <1>5
<1>7. \A i \in 1..Len(plan) : i \in DOMAIN e /\ plan[i].task = e[i]
  BY <1>2, <1>3, <1>6 DEF Paired
<1>8. \A i \in DOMAIN e : s2[e[i]] = None
  BY <1>5 DEF Elements, Deploy!Open
<1> HIDE DEF plan, e
<1>9. /\ \A i \in DOMAIN plan : s2[plan[i].task] = None
      /\ \A i, j \in DOMAIN plan : plan[i].task = plan[j].task => i = j
  BY <1>3, <1>5, <1>7, <1>8 DEF DistinctSeq
<1>10. s5'.pc = "session" /\ s5'.copy = s2 /\ s5'.plan = plan /\ s5' \in Runs
  BY <1>1, <1>2 DEF plan, DeployTypes, Runs
<1>11. DeployTypes'
  BY <1>4, <1>9, <1>10 DEF DeployTypes
<1> QED
  BY <1>4, <1>10, <1>11 DEF PromptInv, Deploy!RecordedIsPrompted

\* A session, or its end, concerns a task without a record or leaves its prompt.
LEMMA DeploySession ==
  ASSUME DeployConstants, DeployTypes, PromptInv, Deploy!Session
  PROVE  DeployTypes' /\ PromptInv'
<1> DEFINE c == s5.plan[1]
<1>1. /\ s5.plan # <<>> /\ UNCHANGED <<s1, s2, s4, s7>>
      /\ s5' = [s5 EXCEPT !.pc = "prompt"]
      /\ s3' = [s3 EXCEPT ![c.task] = IF s3[c.task] = None THEN c.place ELSE s3[c.task]]
  BY PlanParts DEF Deploy!Session, Deploy!Goes
<1>2. c.task \in Deploy!Tasks /\ c.place \in AllPlaces /\ s2[c.task] = None
  BY <1>1, PlanParts
<1>3. s5 \in Runs /\ s5.pc = "session"
  BY DEF DeployTypes, Deploy!Session, Deploy!At
<1>4. s5' \in Runs /\ s5'.pc = "prompt" /\ s5'.copy = s5.copy /\ s5'.plan = s5.plan
  BY <1>1, <1>3 DEF Runs
<1> HIDE DEF c
<1>5. s3' \in Placed /\ \A t \in Deploy!Tasks : t # c.task => s3'[t] = s3[t]
  BY <1>1, <1>2 DEF DeployTypes, Placed
<1>6. DeployTypes'
  BY <1>1, <1>3, <1>4, <1>5 DEF DeployTypes
<1> QED
  BY <1>1, <1>2, <1>4, <1>5, <1>6 DEF PromptInv, Deploy!RecordedIsPrompted

LEMMA DeployPrompt ==
  ASSUME DeployConstants, DeployTypes, PromptInv, Deploy!Prompt
  PROVE  DeployTypes' /\ PromptInv'
<1>1. s5 \in Runs /\ s5.pc = "prompt" /\ s5.plan # <<>>
  BY DEF DeployTypes, Deploy!Prompt, Deploy!At
<1>2. /\ UNCHANGED <<s1, s2, s3, s4>> /\ s5' = [s5 EXCEPT !.pc = "save"]
      /\ s7' = s7 \cup {s5.plan[1].task}
  BY <1>1, PlanParts DEF Deploy!Prompt, Deploy!Goes
<1>3. s5' \in Runs /\ s5'.pc = "save" /\ s5'.copy = s5.copy /\ s5'.plan = s5.plan
  BY <1>1, <1>2 DEF Runs
<1>4. DeployTypes'
  BY <1>1, <1>2, <1>3 DEF DeployTypes
<1> QED
  BY <1>2, <1>3, <1>4 DEF PromptInv, Deploy!RecordedIsPrompted

\* The task at the head of the plan gets its record.
LEMMA DeploySave ==
  ASSUME DeployConstants, DeployTypes, PromptInv, Deploy!Save
  PROVE  DeployTypes' /\ PromptInv'
<1> DEFINE c == s5.plan[1]
<1>1. s5 \in Runs /\ s5.pc = "save" /\ s5.plan # <<>> /\ s5.copy = s2
  BY DEF DeployTypes, Deploy!Save, Deploy!At
<1>2. /\ UNCHANGED <<s1, s3, s4, s7>> /\ s2' = [s2 EXCEPT ![c.task] = c.place]
      /\ s5' = [pc |-> "session", copy |-> s2', plan |-> Tail(s5.plan)]
  BY <1>1, PlanParts DEF Deploy!Save, Deploy!Saves
<1>3. /\ c.task \in Deploy!Tasks /\ c.place \in AllPlaces
      /\ Tail(s5.plan) \in Seq(Assignments)
      /\ Len(Tail(s5.plan)) = Len(s5.plan) - 1
      /\ \A i \in 1..Len(Tail(s5.plan)) : Tail(s5.plan)[i] = s5.plan[i + 1]
      /\ DOMAIN s5.plan = 1..Len(s5.plan) /\ Len(s5.plan) \in Nat /\ 1 \in DOMAIN s5.plan
      /\ \A i \in 1..Len(s5.plan) : s5.plan[i] \in Assignments
  BY <1>1, PlanParts
<1>4. DOMAIN Tail(s5.plan) = 1..Len(Tail(s5.plan))
  BY <1>3
<1> DEFINE rest == Tail(s5.plan)
<1>5. \A i \in DOMAIN rest : /\ i + 1 \in DOMAIN s5.plan /\ i + 1 # 1 /\ i \in Nat
                             /\ rest[i] = s5.plan[i + 1] /\ rest[i].task \in Deploy!Tasks
  BY <1>3, <1>4 DEF Assignments
<1> HIDE DEF c, rest
<1>6. s2' \in Placed /\ \A t \in Deploy!Tasks : s2'[t] = IF t = c.task THEN c.place ELSE s2[t]
  BY <1>2, <1>3 DEF DeployTypes, Placed
<1>7. \A i \in DOMAIN rest : rest[i].task # c.task /\ s2'[rest[i].task] = None
  <2> TAKE i \in DOMAIN rest
  <2>1. i + 1 \in DOMAIN s5.plan /\ 1 \in DOMAIN s5.plan /\ i + 1 # 1 /\ rest[i] = s5.plan[i + 1]
    BY <1>3, <1>5
  <2>2. rest[i].task # c.task
    BY <2>1 DEF DeployTypes, c
  <2>3. s2[rest[i].task] = None
    BY <2>1 DEF DeployTypes
  <2> QED
    BY <1>5, <1>6, <2>2, <2>3
<1>8. \A i, j \in DOMAIN rest : rest[i].task = rest[j].task => i = j
  BY <1>5 DEF DeployTypes
<1>9. s5'.pc = "session" /\ s5'.copy = s2' /\ s5'.plan = rest /\ s5' \in Runs
  BY <1>2, <1>3, <1>6 DEF rest, Runs
<1>10. DeployTypes'
  <2>1. /\ \A i \in DOMAIN s5'.plan : s2'[s5'.plan[i].task] = None
        /\ \A i, j \in DOMAIN s5'.plan : s5'.plan[i].task = s5'.plan[j].task => i = j
    BY <1>7, <1>8, <1>9
  <2>2. s3' \in Placed
    BY <1>2 DEF DeployTypes
  <2> QED
    BY <1>6, <1>9, <2>1, <2>2 DEF DeployTypes
<1>11. s3[c.task] # None => c.task \in s7
  BY <1>1 DEF PromptInv, c
<1> QED
  BY <1>2, <1>6, <1>9, <1>10, <1>11 DEF PromptInv, Deploy!RecordedIsPrompted

\* The end of a run, and what others do.
LEMMA DeployRest ==
  ASSUME DeployConstants, DeployTypes, PromptInv,
         \/ Deploy!End \/ Deploy!Fail
         \/ \E t \in Deploy!Tasks : Deploy!WorkerEnds(t) \/ Deploy!LegacyMade(t)
  PROVE  DeployTypes' /\ PromptInv' /\ UNCHANGED s2
<1>1. CASE Deploy!End \/ Deploy!Fail
  <2>1. UNCHANGED <<s1, s3, s4, s7>> /\ s5' = Deploy!NoRun /\ (s2' = s2 \/ s2' = s5.copy)
    BY <1>1 DEF Deploy!End, Deploy!Fail
  <2>2. s2' = s2
    BY <1>1, <2>1 DEF Deploy!End, Deploy!Fail, Deploy!At, DeployTypes
  <2>3. s5'.pc = "none" /\ s5'.plan = <<>> /\ s5' \in Runs
    BY <2>1 DEF Deploy!NoRun, Runs, Placed
  <2>4. DeployTypes'
    BY <2>1, <2>2, <2>3 DEF DeployTypes, Deploy!NoRun
  <2> QED
    BY <2>1, <2>2, <2>3, <2>4 DEF PromptInv, Deploy!RecordedIsPrompted
<1>2. ASSUME NEW t \in Deploy!Tasks, Deploy!WorkerEnds(t)
      PROVE  DeployTypes' /\ PromptInv' /\ UNCHANGED s2
  <2>1. /\ UNCHANGED <<s1, s2, s4, s5>> /\ s3' = [s3 EXCEPT ![t] = None] /\ s7' = s7 \ {t}
    BY <1>2 DEF Deploy!WorkerEnds
  <2>2. s3' \in Placed /\ \A u \in Deploy!Tasks : s3'[u] = IF u = t THEN None ELSE s3[u]
    BY <2>1 DEF DeployTypes, Placed
  <2>3. DeployTypes'
    BY <2>1, <2>2 DEF DeployTypes
  <2>4. s5.pc = "save" => s5.plan[1].task \in Deploy!Tasks
    BY PlanParts DEF DeployTypes
  <2> QED
    BY <2>1, <2>2, <2>3, <2>4 DEF PromptInv, Deploy!RecordedIsPrompted
<1>3. ASSUME NEW t \in Deploy!Tasks, Deploy!LegacyMade(t)
      PROVE  DeployTypes' /\ PromptInv' /\ UNCHANGED s2
  BY <1>3 DEF Deploy!LegacyMade, DeployTypes, PromptInv, Deploy!RecordedIsPrompted
<1> QED
  BY <1>1, <1>2, <1>3

LEMMA DeployStep ==
  ASSUME DeployConstants, DeployTypes, PromptInv, [Deploy!Next]_Deploy!vars
  PROVE  DeployTypes' /\ PromptInv'
<1>1. CASE UNCHANGED Deploy!vars
  BY <1>1 DEF Deploy!vars, DeployTypes, PromptInv, Deploy!RecordedIsPrompted
<1> QED
  BY <1>1, DeployBegin, DeploySession, DeployPrompt, DeploySave, DeployRest DEF Deploy!Next

LEMMA DeployStarts ==
  ASSUME DeployConstants, Deploy!Init
  PROVE  DeployTypes /\ PromptInv
<1>1. s5.pc = "none" /\ s5.plan = <<>> /\ s5 \in Runs /\ s5 = Deploy!NoRun
  BY DEF Deploy!Init, Deploy!NoRun, Runs, Placed
<1> QED
  BY <1>1 DEF Deploy!Init, DeployTypes, PromptInv, Deploy!RecordedIsPrompted, Placed

\* RecordedIsPrompted: autokaggle-v2.py records a worker, which it will not start
\* again, after its prompt was pasted, wherever a run ends.
THEOREM RecordedHasPrompt ==
  ASSUME DeployConstants
  PROVE  Spec => []RecordedIsPrompted
<1> DEFINE Inv == kind = "deploy" => DeployTypes /\ PromptInv
<1>1. Init => Inv
  BY OneBegins, DeployStarts
<1>2. Inv /\ [Next]_vars => Inv'
  BY OneActs, DeployStep
<1>3. Inv => RecordedIsPrompted
  BY DEF PromptInv, RecordedIsPrompted
<1> QED
  BY <1>1, <1>2, <1>3, PTL DEF Spec

-----------------------------------------------------------------------------
(* The v2 deployer: runs on the same GPUs                                  *)

Gpu0 == CHOOSE gpus \in Gpus : TRUE

\* A session that has no record is that of the first task and the first place.
FirstPair(t) ==
  /\ Deploy!Eligible # <<>> /\ t = Deploy!Eligible[1]
  /\ Deploy!FreePlaces(Gpu0) # <<>> /\ s3[t] = Deploy!FreePlaces(Gpu0)[1]

SlotsInv ==
  s1 = "same" =>
    /\ s4 = {}
    /\ \A t, u \in Deploy!Tasks : s2[t] # None /\ s2[t] = s2[u] => t = u
    /\ \A t \in Deploy!Tasks : s3[t] # None => s2[t] = s3[t] \/ (s2[t] = None /\ FirstPair(t))
    /\ Paired(s5.plan, Gpu0)

\* What is free depends on the registry alone.
LEMMA SameLists ==
  ASSUME UNCHANGED <<s2, s4>>
  PROVE  /\ Deploy!Eligible' = Deploy!Eligible
         /\ Deploy!FreePlaces(Gpu0)' = Deploy!FreePlaces(Gpu0)
BY DEF Deploy!Eligible, Deploy!Open, Deploy!FreePlaces, Gpu0, Deploy!Places

\* The invariant is what the property needs.
LEMMA SlotsFollow ==
  ASSUME DeployConstants, DeployTypes, SlotsInv
  PROVE  Deploy!SlotsKept
<1> SUFFICES ASSUME s1 = "same", NEW t \in Deploy!Tasks, s3[t] # None
             PROVE  /\ s2[t] \in {None, s3[t]}
                    /\ \A u \in Deploy!Tasks \ {t} : s3[t] # s3[u]
  BY DEF Deploy!SlotsKept
<1>1. Gpu0 \in Gpus
  BY DEF DeployConstants, Gpu0
<1>2. ASSUME NEW u \in Deploy!Tasks, FirstPair(u)
      PROVE  \A r \in Deploy!Tasks : s2[r] # s3[u]
  <2> DEFINE f == Deploy!FreePlaces(Gpu0)
  <2>1. f \in Seq(AllPlaces) /\ Elements(f) = FreeSet(Gpu0)
    BY <1>1, FreePlacesAre
  <2>2. 1 \in DOMAIN f
    BY <1>2, <2>1, EmptySeq DEF FirstPair
  <2>3. f[1] \in FreeSet(Gpu0)
    BY <2>1, <2>2 DEF Elements
  <2> QED
    BY <1>2, <2>3 DEF FirstPair, FreeSet
<1>3. s2[t] \in {None, s3[t]}
  BY DEF SlotsInv
<1>4. ASSUME NEW u \in Deploy!Tasks \ {t}, s3[t] = s3[u]
      PROVE  FALSE
  <2>1. /\ s2[t] = s3[t] \/ (s2[t] = None /\ FirstPair(t))
        /\ s2[u] = s3[u] \/ (s2[u] = None /\ FirstPair(u))
    BY <1>4 DEF SlotsInv
  <2>2. ~ (FirstPair(t) /\ FirstPair(u))
    BY <1>4 DEF FirstPair
  <2> QED
    BY <1>2, <1>4, <2>1, <2>2 DEF SlotsInv
<1> QED
  BY <1>3, <1>4

\* The head of the plan gets its place: the lists lose their first elements.
LEMMA SlotsSave ==
  ASSUME DeployConstants, DeployTypes, SlotsInv, s1 = "same", Deploy!Save
  PROVE  SlotsInv'
<1> DEFINE c == s5.plan[1]
           e == Deploy!Eligible
           f == Deploy!FreePlaces(Gpu0)
<1>1. s5 \in Runs /\ s5.pc = "save" /\ s5.plan # <<>> /\ s5.copy = s2
  BY DEF DeployTypes, Deploy!Save, Deploy!At
<1>2. /\ UNCHANGED <<s1, s3, s4, s7>> /\ s2' = [s2 EXCEPT ![c.task] = c.place]
      /\ s5'.plan = Tail(s5.plan)
  BY <1>1, PlanParts DEF Deploy!Save, Deploy!Saves
<1>3. Gpu0 \in Gpus
  BY DEF DeployConstants, Gpu0
<1>4. /\ DOMAIN s5.plan = 1..Len(s5.plan) /\ Len(s5.plan) \in Nat /\ 1 \in DOMAIN s5.plan
      /\ c.task \in Deploy!Tasks /\ c.place \in AllPlaces /\ s2[c.task] = None
      /\ Len(Tail(s5.plan)) = Len(s5.plan) - 1
      /\ \A i \in 1..Len(Tail(s5.plan)) : Tail(s5.plan)[i] = s5.plan[i + 1]
  BY <1>1, PlanParts
<1>5. /\ e \in Seq(Deploy!Tasks) /\ DistinctSeq(e) /\ Elements(e) = Deploy!Open
      /\ f \in Seq(AllPlaces) /\ DistinctSeq(f) /\ Elements(f) = FreeSet(Gpu0)
      /\ f = Deploy!Only(Deploy!Places(Gpu0), FreeSet(Gpu0))
  BY <1>3, EligibleIs, FreePlacesAre
<1>6. /\ s4 = {} /\ Paired(s5.plan, Gpu0)
      /\ \A t, u \in Deploy!Tasks : s2[t] # None /\ s2[t] = s2[u] => t = u
      /\ \A t \in Deploy!Tasks : s3[t] # None => s2[t] = s3[t] \/ (s2[t] = None /\ FirstPair(t))
  BY DEF SlotsInv
<1>7. /\ Len(s5.plan) <= Len(e) /\ Len(s5.plan) <= Len(f) /\ Len(e) \in Nat /\ Len(f) \in Nat
      /\ \A i \in 1..Len(s5.plan) : s5.plan[i] = [task |-> e[i], place |-> f[i]]
  BY <1>5, <1>6 DEF Paired
<1>8. /\ e # <<>> /\ f # <<>> /\ c.task = e[1] /\ c.place = f[1]
      /\ 1 \in DOMAIN e /\ 1 \in DOMAIN f
  <2>1. 1 <= Len(s5.plan) /\ 1 \in 1..Len(s5.plan)
    BY <1>4
  <2>2. c = [task |-> e[1], place |-> f[1]]
    BY <1>7, <2>1
  <2> HIDE DEF c, e, f
  <2>3. 1 <= Len(e) /\ 1 <= Len(f)
    BY <1>4, <1>7, <2>1
  <2>4. DOMAIN e = 1..Len(e) /\ DOMAIN f = 1..Len(f)
    BY <1>5
  <2>5. e # <<>> /\ f # <<>>
    BY <1>5, <2>3, EmptySeq
  <2> QED
    BY <1>7, <2>2, <2>3, <2>4, <2>5
<1> HIDE DEF c
<1>9. /\ \A t \in Deploy!Tasks : s2'[t] = IF t = c.task THEN c.place ELSE s2[t]
      /\ c.place # None
  BY <1>2, <1>4 DEF DeployTypes, Placed, DeployConstants
<1>10. c.place \in FreeSet(Gpu0)
  BY <1>5, <1>8 DEF Elements
<1>11. Deploy!Eligible' = Tail(e)
  <2>1. Deploy!Open' = Deploy!Open \ {c.task}
    BY <1>2, <1>4, <1>9 DEF Deploy!Open
  <2>2. Deploy!Eligible' = Deploy!Only(TaskList, Deploy!Open \ {c.task})
    BY <2>1 DEF Deploy!Eligible
  <2>3. e = Deploy!Only(TaskList, Deploy!Open)
    BY DEF Deploy!Eligible
  <2> HIDE DEF e
  <2> QED
    BY <1>8, <2>2, <2>3, OnlyRest DEF DeployConstants
<1>12. Deploy!FreePlaces(Gpu0)' = Tail(f)
  <2>1. FreeSet(Gpu0)' = FreeSet(Gpu0) \ {c.place}
    <3> DEFINE P == Elements(Deploy!Places(Gpu0))
    <3>1. FreeSet(Gpu0)' = {p \in P : \A t \in Deploy!Tasks : s2'[t] # p}
      BY DEF FreeSet, Gpu0, Deploy!Places, Elements, Deploy!Tasks, Deploy!ToSet
    <3>2. FreeSet(Gpu0) = {p \in P : \A t \in Deploy!Tasks : s2[t] # p}
      BY DEF FreeSet
    <3> HIDE DEF P
    <3>3. P \subseteq AllPlaces
      BY <1>3, PlacesAreDistinct DEF P
    <3>4. None \notin P
      BY <3>3 DEF DeployConstants
    <3>5. \A p \in P : (\A t \in Deploy!Tasks : s2'[t] # p)
                         <=> p # c.place /\ \A t \in Deploy!Tasks : s2[t] # p
      BY <1>4, <1>9, <3>4
    <3> QED
      BY <3>1, <3>2, <3>5
  <2>2. Deploy!FreePlaces(Gpu0)' = Deploy!Only(Deploy!Places(Gpu0), FreeSet(Gpu0)')
    BY DEF Deploy!FreePlaces, Deploy!ToSet, Elements, FreeSet, Gpu0, Deploy!Places
  <2>3. Deploy!Places(Gpu0) \in Seq(AllPlaces) /\ DistinctSeq(Deploy!Places(Gpu0))
    BY <1>3, PlacesAreDistinct
  <2> HIDE DEF f
  <2> QED
    BY <1>5, <1>8, <2>1, <2>2, <2>3, OnlyRest
<1>13. /\ Len(Tail(e)) = Len(e) - 1 /\ Len(Tail(f)) = Len(f) - 1
       /\ \A i \in 1..(Len(e) - 1) : Tail(e)[i] = e[i + 1]
       /\ \A i \in 1..(Len(f) - 1) : Tail(f)[i] = f[i + 1]
  <2> HIDE DEF e, f
  <2> QED
    BY <1>5, <1>7, <1>8
<1> HIDE DEF e, f
<1>14. Paired(s5.plan, Gpu0)'
  BY <1>2, <1>4, <1>7, <1>11, <1>12, <1>13 DEF Paired
<1>15. \A t, u \in Deploy!Tasks : s2'[t] # None /\ s2'[t] = s2'[u] => t = u
  BY <1>6, <1>9, <1>10 DEF FreeSet
<1>16. \A t \in Deploy!Tasks : s3[t] # None => s2'[t] = s3[t]
  BY <1>4, <1>6, <1>8, <1>9 DEF FirstPair, e, f
<1> QED
  BY <1>2, <1>6, <1>14, <1>15, <1>16 DEF SlotsInv

\* The steps that leave the registry alone.
LEMMA SlotsOther ==
  ASSUME DeployConstants, DeployTypes, SlotsInv, s1 = "same", UNCHANGED <<s1, s2, s4>>,
         \A t \in Deploy!Tasks : s3'[t] # None => s3'[t] = s3[t] \/ FirstPair(t)',
         s5'.plan = s5.plan \/ Paired(s5'.plan, Gpu0)
  PROVE  SlotsInv'
<1>1. /\ Deploy!Eligible' = Deploy!Eligible
      /\ Deploy!FreePlaces(Gpu0)' = Deploy!FreePlaces(Gpu0)
  BY SameLists
<1>2. Paired(s5.plan, Gpu0)'
  BY <1>1 DEF Paired, SlotsInv
<1>3. ASSUME NEW t \in Deploy!Tasks, s3'[t] # None
      PROVE  s2[t] = s3'[t] \/ (s2[t] = None /\ FirstPair(t)')
  <2>1. CASE s3'[t] = s3[t]
    BY <1>1, <1>3, <2>1 DEF SlotsInv, FirstPair
  <2>2. CASE s3'[t] # s3[t]
    <3>1. FirstPair(t)'
      BY <1>3, <2>2
    <3>2. Deploy!Eligible # <<>> /\ t = Deploy!Eligible[1]
      BY <1>1, <3>1 DEF FirstPair
    <3>3. Deploy!Eligible \in Seq(Deploy!Tasks) /\ Elements(Deploy!Eligible) = Deploy!Open
      BY EligibleIs
    <3>4. 1 \in DOMAIN Deploy!Eligible
      BY <3>2, <3>3, EmptySeq
    <3>5. s2[t] = None
      BY <3>2, <3>3, <3>4 DEF Elements, Deploy!Open
    <3> QED
      BY <3>1, <3>5
  <2> QED
    BY <2>1, <2>2
<1> QED
  BY <1>2, <1>3 DEF SlotsInv

LEMMA SlotsStep ==
  ASSUME DeployConstants, DeployTypes, PromptInv, SlotsInv, [Deploy!Next]_Deploy!vars
  PROVE  SlotsInv'
<1>1. UNCHANGED s1
  BY DEF Deploy!Next, Deploy!Begin, Deploy!Session, Deploy!Prompt, Deploy!Save, Deploy!Saves,
         Deploy!End, Deploy!Fail, Deploy!WorkerEnds, Deploy!LegacyMade, Deploy!vars
<1> SUFFICES ASSUME s1 = "same"
             PROVE  SlotsInv'
  BY <1>1 DEF SlotsInv
<1>2. ASSUME UNCHANGED <<s2, s3, s4>>, s5'.plan = s5.plan \/ Paired(s5'.plan, Gpu0)
      PROVE  SlotsInv'
  BY <1>1, <1>2, SlotsOther
<1>3. CASE Deploy!Begin
  <2>1. PICK count \in 1..Len(TaskList), gpus \in Gpus :
          /\ gpus = Gpu0
          /\ s5' = [pc |-> "session", copy |-> s2, plan |-> Deploy!Plan(count, gpus)]
    BY <1>3 DEF Deploy!Begin, Gpu0
  <2>2. Paired(s5'.plan, Gpu0)
    BY <2>1, PlanIs
  <2> QED
    BY <1>2, <1>3, <2>2 DEF Deploy!Begin
<1>4. CASE Deploy!Session
  <2> DEFINE c == s5.plan[1]
  <2>1. /\ s5.plan # <<>> /\ UNCHANGED <<s1, s2, s4, s7>>
        /\ s5' = [s5 EXCEPT !.pc = "prompt"]
        /\ s3' = [s3 EXCEPT ![c.task] = IF s3[c.task] = None THEN c.place ELSE s3[c.task]]
    BY <1>4, PlanParts DEF Deploy!Session, Deploy!Goes
  <2>2. /\ c.task \in Deploy!Tasks /\ s3 \in Placed /\ s5 \in Runs
        /\ Len(s5.plan) \in Nat /\ DOMAIN s5.plan = 1..Len(s5.plan) /\ 1 \in DOMAIN s5.plan
    BY <2>1, PlanParts DEF DeployTypes
  <2>3. s5'.plan = s5.plan
    BY <2>1, <2>2 DEF Runs
  <2> DEFINE e == Deploy!Eligible
             f == Deploy!FreePlaces(Gpu0)
  <2>4. /\ Len(s5.plan) <= Len(e) /\ Len(s5.plan) <= Len(f)
        /\ c = [task |-> e[1], place |-> f[1]]
    BY <2>2 DEF SlotsInv, Paired
  <2>5. e \in Seq(Deploy!Tasks) /\ f \in Seq(AllPlaces)
    BY EligibleIs, FreePlacesAre DEF DeployConstants, Gpu0
  <2> HIDE DEF c
  <2>6. e # <<>> /\ f # <<>>
    <3> HIDE DEF e, f
    <3>1. 1 <= Len(e) /\ 1 <= Len(f)
      BY <2>2, <2>4, <2>5
    <3> QED
      BY <2>5, <3>1, EmptySeq
  <2>7. Deploy!Eligible' = e /\ Deploy!FreePlaces(Gpu0)' = f
    BY <2>1, SameLists
  <2>8. ASSUME NEW t \in Deploy!Tasks, s3'[t] # None
        PROVE  s3'[t] = s3[t] \/ FirstPair(t)'
    <3>1. CASE t = c.task /\ s3[t] = None
      <4>1. s3'[t] = c.place
        BY <2>1, <2>2, <3>1 DEF Placed
      <4> QED
        BY <2>4, <2>6, <2>7, <3>1, <4>1 DEF FirstPair
    <3>2. CASE ~ (t = c.task /\ s3[t] = None)
      BY <2>1, <2>2, <3>2 DEF Placed
    <3> QED
      BY <3>1, <3>2
  <2> QED
    BY <1>1, <2>1, <2>3, <2>8, SlotsOther
<1>5. CASE Deploy!Prompt
  <2>1. s5'.plan = s5.plan
    BY <1>5 DEF Deploy!Prompt, Deploy!Goes, DeployTypes, Runs
  <2> QED
    BY <1>2, <1>5, <2>1 DEF Deploy!Prompt
<1>6. CASE Deploy!Save
  BY <1>6, SlotsSave
<1>7. CASE Deploy!End \/ Deploy!Fail
  <2>1. UNCHANGED <<s2, s3, s4>> /\ s5'.plan = <<>>
    BY <1>7, DeployRest DEF Deploy!End, Deploy!Fail, Deploy!NoRun
  <2>2. Len(Deploy!Eligible) \in Nat /\ Len(Deploy!FreePlaces(Gpu0)) \in Nat
    BY EligibleIs, FreePlacesAre, LenProperties DEF DeployConstants, Gpu0
  <2>3. Paired(<<>>, Gpu0)
    BY <2>2 DEF Paired
  <2> QED
    BY <1>2, <2>1, <2>3
<1>8. ASSUME NEW t \in Deploy!Tasks, Deploy!WorkerEnds(t) \/ Deploy!LegacyMade(t)
      PROVE  SlotsInv'
  <2>1. UNCHANGED <<s2, s4, s5>> /\ s3' = [s3 EXCEPT ![t] = None]
    BY <1>8 DEF Deploy!WorkerEnds, Deploy!LegacyMade
  <2>2. \A u \in Deploy!Tasks : s3'[u] # None => s3'[u] = s3[u]
    BY <2>1 DEF DeployTypes, Placed
  <2> QED
    BY <1>1, <2>1, <2>2, SlotsOther
<1>9. CASE UNCHANGED Deploy!vars
  BY <1>2, <1>9 DEF Deploy!vars
<1> QED
  BY <1>3, <1>4, <1>5, <1>6, <1>7, <1>8, <1>9 DEF Deploy!Next

\* SlotsKept: on the same GPUs, autokaggle-v2.py starts no two sessions for one slot,
\* and records each in the slot that it runs in, wherever runs end and whatever
\* number of tasks they are asked for.
THEOREM SlotsStayApart ==
  ASSUME DeployConstants
  PROVE  Spec => []SlotsKept
<1> DEFINE Inv == kind = "deploy" => DeployTypes /\ PromptInv /\ SlotsInv
<1>1. Init => Inv
  <2> SUFFICES ASSUME Deploy!Init
               PROVE  SlotsInv
    BY OneBegins, DeployStarts
  <2>1. s5.plan = <<>>
    BY DEF Deploy!Init, Deploy!NoRun
  <2>2. Len(Deploy!Eligible) \in Nat /\ Len(Deploy!FreePlaces(Gpu0)) \in Nat
    BY EligibleIs, FreePlacesAre, LenProperties DEF DeployConstants, Gpu0
  <2> QED
    BY <2>1, <2>2 DEF Deploy!Init, SlotsInv, Paired
<1>2. Inv /\ [Next]_vars => Inv'
  BY OneActs, DeployStep, SlotsStep
<1>3. Inv => SlotsKept
  BY SlotsFollow DEF SlotsKept
<1> QED
  BY <1>1, <1>2, <1>3, PTL DEF Spec

-----------------------------------------------------------------------------
(* The Feishu table: the sink of the server                                *)

\* A record holds a task, or is blank, or gone.
FeishuCells == FeishuTasks \cup {Feishu!Blank, Feishu!Gone}

\* No task is a record's mark, and a call of the sink ends before the next is due.
FeishuConstants ==
  /\ Feishu!Blank \notin FeishuTasks /\ Feishu!Gone \notin FeishuTasks
  /\ IsFiniteSet(FeishuTasks)
  /\ Interval \in Int /\ Timeout \in Nat /\ Timeout < Interval
  /\ ListLimit \in Nat /\ None \notin Int
  /\ FeishuModes \subseteq {"server", "commands"}

FeishuCalls ==
  [pc : {"idle", "sent", "applied"}, task : FeishuTasks \cup {None}, record : Nat, since : Int]

SinkTypes ==
  /\ mode = "server" /\ command.pc = "none"
  /\ table \in Seq(FeishuCells)
  /\ cache \in [memory : [FeishuTasks -> Nat], file : [FeishuTasks -> Nat]]
  /\ lastSync \in [FeishuTasks -> Int \cup {None}]
  /\ call \in [FeishuThreads -> FeishuCalls]
  /\ time \in [clock : Int, restarts : Int]
  /\ \A p \in FeishuThreads : call[p].pc # "idle" => call[p].task \in FeishuTasks

\* A record id that is kept for a task is of a record that holds the task, or held it.
Holds(t, record) ==
  record \in 0..Len(table) /\ (record # 0 => table[record] \in {t, Feishu!Gone})
Remembered(t) ==
  /\ Holds(t, cache.memory[t]) /\ Holds(t, cache.file[t])
  /\ t \notin lost => cache.file[t] = cache.memory[t]

\* A call of a task is the only one, younger than the interval, with the record id that
\* was kept, or with that of the record it has made.
Calling(p, t) == call[p].pc # "idle" /\ call[p].task = t
CallIs(p, t) ==
  /\ Holds(t, call[p].record)
  /\ IF call[p].pc = "sent" THEN call[p].record = cache.memory[t]
     ELSE call[p].record # 0 /\ cache.memory[t] \in {0, call[p].record}
  /\ lastSync[t] = call[p].since /\ time.clock <= call[p].since + Timeout
  /\ \A q \in FeishuThreads : Calling(q, t) => q = p

\* The rows of a task are those whose id is kept, or will be when the answer comes.
Accounted(t) ==
  \A i \in Feishu!RowsOf(t) :
    i = cache.memory[t] \/ \E p \in FeishuThreads : Calling(p, t) /\ call[p].record = i

\* What the sink knows: of a task that lost no answer, every row is accounted for.
SinkInv ==
  /\ SinkTypes
  /\ \A t \in FeishuTasks : Remembered(t)
  /\ \A p \in FeishuThreads, t \in FeishuTasks : Calling(p, t) => CallIs(p, t)
  /\ \A t \in FeishuTasks : t \notin lost => Accounted(t)

\* The table is empty, and no thread calls.
LEMMA SinkInit ==
  ASSUME FeishuConstants, Feishu!Init, mode = "server"
  PROVE  SinkInv
<1>1. /\ table = << >> /\ lost = {} /\ command.pc = "none"
      /\ \A p \in FeishuThreads : call[p].pc = "idle"
      /\ \A t \in FeishuTasks : cache.memory[t] = 0 /\ cache.file[t] = 0
  BY DEF Feishu!Init, Feishu!NoCall, Feishu!NoCommand
<1>2. cache \in [memory : [FeishuTasks -> Nat], file : [FeishuTasks -> Nat]]
  BY DEF Feishu!Init
<1>3. call \in [FeishuThreads -> FeishuCalls]
  BY DEF Feishu!Init, Feishu!NoCall, FeishuCalls
<1>4. time \in [clock : Int, restarts : Int] /\ lastSync \in [FeishuTasks -> Int \cup {None}]
  BY DEF Feishu!Init
<1>5. table \in Seq(FeishuCells) /\ Len(table) = 0 /\ DOMAIN table = {}
  BY <1>1
<1>6. SinkTypes
  BY <1>1, <1>2, <1>3, <1>4, <1>5 DEF SinkTypes
<1>7. \A t \in FeishuTasks : Remembered(t) /\ Accounted(t)
  BY <1>1, <1>5 DEF Remembered, Holds, Accounted, Feishu!RowsOf, Feishu!Records
<1> QED
  BY <1>1, <1>6, <1>7 DEF SinkInv, Calling

\* A call begins with the record id that is kept.  The one before has ended.
LEMMA RenderKeeps ==
  ASSUME FeishuConstants, SinkInv, NEW p \in FeishuThreads, NEW t \in FeishuTasks,
         Feishu!Render(p, t)
  PROVE  SinkInv' /\ Feishu!KeepsRows
<1> DEFINE c == [pc |-> "sent", task |-> t, record |-> cache.memory[t], since |-> time.clock]
<1>1. /\ call' = [call EXCEPT ![p] = c] /\ lastSync' = [lastSync EXCEPT ![t] = time.clock]
      /\ UNCHANGED <<mode, command, table, cache, time, lost>>
      /\ Feishu!Due(t)
  BY DEF Feishu!Render, Feishu!Calls, Feishu!besideServer
<1>2. /\ call \in [FeishuThreads -> FeishuCalls] /\ time.clock \in Int
      /\ lastSync \in [FeishuTasks -> Int \cup {None}] /\ cache.memory[t] \in Nat
      /\ lost' = lost
  BY <1>1 DEF SinkInv, SinkTypes
<1>3. c \in FeishuCalls /\ c.pc = "sent" /\ c.task = t /\ c.record = cache.memory[t]
      /\ c.since = time.clock
  BY <1>2 DEF FeishuCalls
<1> HIDE DEF c
<1>4. /\ call' \in [FeishuThreads -> FeishuCalls] /\ call'[p] = c
      /\ \A q \in FeishuThreads \ {p} : call'[q] = call[q]
      /\ lastSync' \in [FeishuTasks -> Int \cup {None}] /\ lastSync'[t] = time.clock
      /\ \A u \in FeishuTasks \ {t} : lastSync'[u] = lastSync[u]
  BY <1>1, <1>2, <1>3
<1>5. SinkTypes'
  BY <1>1, <1>3, <1>4 DEF SinkInv, SinkTypes
<1>6. \A q \in FeishuThreads : ~Calling(q, t)
  <2> SUFFICES ASSUME NEW q \in FeishuThreads, Calling(q, t)
               PROVE  FALSE
    OBVIOUS
  <2>1. lastSync[t] = call[q].since /\ time.clock <= call[q].since + Timeout
    BY DEF SinkInv, CallIs
  <2>2. call[q].since \in Int
    BY <1>2 DEF FeishuCalls
  <2>3. time.clock - call[q].since >= Interval
    BY <1>1, <2>1, <2>2 DEF Feishu!Due, FeishuConstants
  <2> QED
    BY <1>2, <2>1, <2>2, <2>3 DEF FeishuConstants
<1>7. Remembered(t) /\ \A u \in FeishuTasks : Remembered(u)'
  BY <1>1 DEF SinkInv, Remembered, Holds
<1>8. call[p].pc = "idle"
  BY DEF Feishu!Render, Feishu!NoCall
<1>9. ASSUME NEW q \in FeishuThreads, NEW u \in FeishuTasks, Calling(q, u)'
      PROVE  CallIs(q, u)'
  <2>1. CASE q = p
    <3>1. u = t
      BY <1>3, <1>4, <1>9, <2>1 DEF Calling
    <3>2. \A r \in FeishuThreads : Calling(r, u)' => r = p
      BY <1>4, <1>6, <3>1 DEF Calling
    <3>3. Holds(t, call[p].record)'
      BY <1>1, <1>3, <1>4, <1>7 DEF Remembered, Holds
    <3>4. time.clock <= time.clock + Timeout
      BY <1>2 DEF FeishuConstants
    <3> QED
      BY <1>1, <1>3, <1>4, <2>1, <3>1, <3>2, <3>3, <3>4 DEF CallIs
  <2>2. CASE q # p
    <3>1. Calling(q, u) /\ u # t
      BY <1>4, <1>6, <1>9, <2>2 DEF Calling
    <3>2. CallIs(q, u)
      BY <3>1 DEF SinkInv
    <3>3. \A r \in FeishuThreads : Calling(r, u)' => r = q
      BY <1>3, <1>4, <3>1, <3>2 DEF Calling, CallIs
    <3> QED
      BY <1>1, <1>4, <2>2, <3>1, <3>2, <3>3 DEF CallIs, Holds
  <2> QED
    BY <2>1, <2>2
<1>10. ASSUME NEW u \in FeishuTasks, u \notin lost
       PROVE  Accounted(u)'
  <2>1. Accounted(u)
    BY <1>10 DEF SinkInv
  <2>2. Feishu!RowsOf(u)' = Feishu!RowsOf(u)
    BY <1>1 DEF Feishu!RowsOf, Feishu!Records
  <2>3. \A q \in FeishuThreads : Calling(q, u) => Calling(q, u)' /\ call'[q] = call[q]
    BY <1>4, <1>8 DEF Calling
  <2> QED
    BY <1>1, <2>1, <2>2, <2>3 DEF Accounted
<1>11. Feishu!KeepsRows
  BY <1>1 DEF Feishu!KeepsRows, Feishu!Records
<1> QED
  BY <1>2, <1>5, <1>7, <1>9, <1>10, <1>11 DEF SinkInv

\* Feishu makes a record, or writes the one that holds the task.
LEMMA AppliedKeeps ==
  ASSUME FeishuConstants, SinkInv, NEW p \in FeishuThreads, Feishu!Applied(p)
  PROVE  SinkInv' /\ Feishu!KeepsRows
<1> DEFINE t == call[p].task
           n == Len(table)
           r == IF call[p].record = 0 THEN n + 1 ELSE call[p].record
           c == [call[p] EXCEPT !.pc = "applied", !.record = r]
<1>1. /\ call[p].pc = "sent" /\ Feishu!CanUpsert(call[p].record)
      /\ table' = Feishu!Upserted(call[p].record, t)
      /\ UNCHANGED <<mode, command, cache, lastSync, time, lost>>
  BY DEF Feishu!Applied, Feishu!besideServer
<1>2. /\ call \in [FeishuThreads -> FeishuCalls] /\ call[p] \in FeishuCalls
      /\ t \in FeishuTasks /\ Calling(p, t) /\ call[p].record \in Nat
      /\ table \in Seq(FeishuCells) /\ n \in Nat /\ DOMAIN table = 1..n
  BY <1>1, LenProperties DEF SinkInv, SinkTypes, FeishuCalls, Calling
<1>3. CallIs(p, t) /\ call[p].record = cache.memory[t]
  BY <1>1, <1>2 DEF SinkInv, CallIs
<1>4. /\ table' \in Seq(FeishuCells) /\ Len(table') \in Nat /\ DOMAIN table' = 1..Len(table')
      /\ n <= Len(table') /\ r \in 1..Len(table') /\ table'[r] = t
      /\ \A i \in 1..n : table'[i] = table[i]
      /\ \A i \in 1..Len(table') : i \notin 1..n => i = r
      /\ call[p].record = 0 => Len(table') = r
  <2>1. CASE call[p].record = 0
    <3>1. table' = Append(table, t) /\ r = n + 1 /\ t \in FeishuCells
      BY <1>1, <1>2, <2>1 DEF Feishu!Upserted, FeishuCells
    <3>2. /\ table' \in Seq(FeishuCells) /\ Len(table') = n + 1
          /\ \A i \in 1..n : table'[i] = table[i]
          /\ table'[n + 1] = t
      BY <1>2, <3>1, AppendProperties
    <3> HIDE DEF n, r, t
    <3> QED
      BY <1>2, <2>1, <3>1, <3>2, LenProperties
  <2>2. CASE call[p].record # 0
    <3>1. table' = [table EXCEPT ![call[p].record] = t] /\ table[call[p].record] # Feishu!Gone
      BY <1>1, <2>2 DEF Feishu!Upserted, Feishu!CanUpsert
    <3>2. call[p].record \in 1..n /\ table[call[p].record] = t
      BY <1>3, <2>2, <3>1 DEF CallIs, Holds
    <3>3. table' = table
      BY <1>2, <3>1, <3>2
    <3> QED
      BY <1>2, <2>2, <3>2, <3>3
  <2> QED
    BY <2>1, <2>2
<1>5. call' = [call EXCEPT ![p] = c]
  <2>1. call' = [call EXCEPT ![p].pc = "applied",
                             ![p].record = IF @ = 0 THEN Len(table') ELSE @]
    BY DEF Feishu!Applied
  <2> QED
    BY <1>2, <1>4, <2>1
<1>6. /\ c \in FeishuCalls /\ c.pc = "applied" /\ c.task = t /\ c.record = r
      /\ c.since = call[p].since
  BY <1>2, <1>4 DEF FeishuCalls
<1> HIDE DEF c, r, n, t
<1>7. /\ call' \in [FeishuThreads -> FeishuCalls] /\ call'[p] = c
      /\ \A q \in FeishuThreads \ {p} : call'[q] = call[q]
  BY <1>2, <1>5, <1>6
<1>8. SinkTypes'
  <2>1. \A q \in FeishuThreads : call'[q].pc # "idle" => call'[q].task \in FeishuTasks
    BY <1>2, <1>6, <1>7 DEF SinkInv, SinkTypes
  <2> QED
    BY <1>1, <1>4, <1>7, <2>1 DEF SinkInv, SinkTypes
<1>10. \A u \in FeishuTasks : Remembered(u)'
  <2> TAKE u \in FeishuTasks
  <2>1. Remembered(u)
    BY DEF SinkInv
  <2>2. Holds(u, cache.memory[u])' /\ Holds(u, cache.file[u])'
    BY <1>1, <1>2, <1>4, <2>1 DEF Remembered, Holds, n
  <2> QED
    BY <1>1, <2>1, <2>2 DEF Remembered
<1>11. \A q \in FeishuThreads, u \in FeishuTasks : Calling(q, u)' <=> Calling(q, u)
  BY <1>1, <1>6, <1>7 DEF Calling, t
<1>12. ASSUME NEW q \in FeishuThreads, NEW u \in FeishuTasks, Calling(q, u)'
       PROVE  CallIs(q, u)'
  <2>1. CallIs(q, u)
    BY <1>11, <1>12 DEF SinkInv
  <2>2. CASE q = p
    <3>1. u = t
      BY <1>6, <1>7, <1>12, <2>2 DEF Calling
    <3>2. Holds(u, call[q].record)'
      BY <1>4, <1>6, <1>7, <2>2, <3>1 DEF Holds
    <3>3. cache.memory[u] \in {0, r} /\ r # 0
      BY <1>3, <1>4, <3>1 DEF r
    <3>4. \A s \in FeishuThreads : Calling(s, u)' => s = q
      BY <1>11, <2>1 DEF CallIs
    <3> QED
      BY <1>1, <1>6, <1>7, <2>1, <2>2, <3>2, <3>3, <3>4 DEF CallIs
  <2>3. CASE q # p
    <3>1. call'[q] = call[q]
      BY <1>7, <2>3
    <3>2. Holds(u, call[q].record)'
      <4> DEFINE k == call[q].record
      <4>1. k \in 0..n /\ (k # 0 => table[k] \in {u, Feishu!Gone})
        BY <2>1 DEF CallIs, Holds, n
      <4>2. k \in 0..Len(table') /\ (k # 0 => table'[k] \in {u, Feishu!Gone})
        <5> HIDE DEF k
        <5>0. n \in Nat /\ Len(table') \in Nat /\ n <= Len(table') /\ k \in 0..n
          BY <1>2, <1>4, <4>1
        <5>1. k \in 0..Len(table')
          BY <5>0
        <5>2. k # 0 => k \in 1..n
          BY <1>2, <4>1
        <5> QED
          BY <1>4, <4>1, <5>1, <5>2
      <4> QED
        BY <3>1, <4>2 DEF Holds
    <3>3. \A s \in FeishuThreads : Calling(s, u)' => s = q
      BY <1>11, <2>1 DEF CallIs
    <3> QED
      BY <1>1, <2>1, <3>1, <3>2, <3>3 DEF CallIs
  <2> QED
    BY <2>2, <2>3
<1>13. ASSUME NEW u \in FeishuTasks, u \notin lost
       PROVE  Accounted(u)'
  <2> SUFFICES ASSUME NEW i \in 1..Len(table'), table'[i] = u
               PROVE  i = cache.memory[u]
                      \/ \E q \in FeishuThreads : Calling(q, u)' /\ call'[q].record = i
    BY <1>1, <1>4 DEF Accounted, Feishu!RowsOf, Feishu!Records
  <2>1. CASE i = r
    <3>1. u = t
      BY <1>4, <2>1
    <3> QED
      BY <1>2, <1>6, <1>7, <1>11, <2>1, <3>1
  <2>2. CASE i # r
    <3>1. i \in 1..n /\ table[i] = u
      BY <1>4, <2>2
    <3>2. i \in Feishu!RowsOf(u) /\ Accounted(u)
      BY <1>2, <1>13, <3>1 DEF SinkInv, Feishu!RowsOf, Feishu!Records
    <3>3. ASSUME NEW q \in FeishuThreads, Calling(q, u), call[q].record = i
          PROVE  call'[q].record = i
      <4>1. CASE q # p
        BY <1>7, <3>3, <4>1
      <4>2. CASE q = p
        BY <1>2, <1>6, <1>7, <3>1, <3>3, <4>2 DEF r
      <4> QED
        BY <4>1, <4>2
    <3> QED
      BY <1>11, <3>2, <3>3 DEF Accounted
  <2> QED
    BY <2>1, <2>2
<1>14. Feishu!KeepsRows
  BY <1>2, <1>4 DEF Feishu!KeepsRows, Feishu!Records
<1> QED
  BY <1>1, <1>8, <1>10, <1>12, <1>13, <1>14 DEF SinkInv

\* A call of a thread ends: what it must leave behind.
LEMMA CallEnds ==
  ASSUME SinkInv, NEW p \in FeishuThreads, call[p].pc # "idle",
         call' = [call EXCEPT ![p] = Feishu!NoCall],
         UNCHANGED <<mode, command, table, lastSync, time>>,
         cache' \in [memory : [FeishuTasks -> Nat], file : [FeishuTasks -> Nat]],
         \A u \in FeishuTasks : u \in lost => u \in lost',
         \A u \in FeishuTasks : Remembered(u)',
         \A u \in FeishuTasks \ {call[p].task} : cache'.memory[u] = cache.memory[u],
         call[p].task \notin lost' =>
           Feishu!RowsOf(call[p].task) \subseteq {cache'.memory[call[p].task]}
  PROVE  SinkInv' /\ Feishu!KeepsRows
<1> DEFINE t == call[p].task
<1>1. /\ call \in [FeishuThreads -> FeishuCalls] /\ call[p] \in FeishuCalls
      /\ t \in FeishuTasks /\ Calling(p, t)
  BY DEF SinkInv, SinkTypes, Calling
<1>2. /\ call' \in [FeishuThreads -> FeishuCalls] /\ call'[p].pc = "idle"
      /\ \A q \in FeishuThreads \ {p} : call'[q] = call[q]
  BY <1>1 DEF FeishuCalls, Feishu!NoCall
<1>3. SinkTypes'
  BY <1>2 DEF SinkInv, SinkTypes
<1>4. \A q \in FeishuThreads, u \in FeishuTasks :
        Calling(q, u)' <=> Calling(q, u) /\ q # p
  BY <1>2 DEF Calling
<1>5. \A q \in FeishuThreads : Calling(q, t) => q = p
  <2>1. CallIs(p, t)
    BY <1>1 DEF SinkInv
  <2> QED
    BY <2>1 DEF CallIs
<1> HIDE DEF t
<1>6. ASSUME NEW q \in FeishuThreads, NEW u \in FeishuTasks, Calling(q, u)'
      PROVE  CallIs(q, u)'
  <2>1. Calling(q, u) /\ q # p
    BY <1>4, <1>6
  <2>2. CallIs(q, u) /\ u # t /\ call'[q] = call[q]
    BY <1>2, <1>5, <2>1 DEF SinkInv
  <2>3. \A s \in FeishuThreads : Calling(s, u)' => s = q
    BY <1>4, <2>2 DEF CallIs
  <2>4. cache'.memory[u] = cache.memory[u]
    BY <2>2 DEF t
  <2> QED
    BY <2>2, <2>3, <2>4 DEF CallIs, Holds
<1>7. ASSUME NEW u \in FeishuTasks, u \notin lost'
      PROVE  Accounted(u)'
  <2>1. Feishu!RowsOf(u)' = Feishu!RowsOf(u)
    BY DEF Feishu!RowsOf, Feishu!Records
  <2>2. CASE u = t
    BY <1>7, <2>1, <2>2 DEF Accounted, t
  <2>3. CASE u # t
    <3>1. Accounted(u)
      BY <1>7 DEF SinkInv
    <3>2. \A q \in FeishuThreads : Calling(q, u) => Calling(q, u)' /\ call'[q] = call[q]
      BY <1>2, <1>4, <2>3 DEF Calling, t
    <3> QED
      BY <2>1, <2>3, <3>1, <3>2 DEF Accounted, t
  <2> QED
    BY <2>2, <2>3
<1>8. Feishu!KeepsRows
  BY DEF Feishu!KeepsRows, Feishu!Records
<1> QED
  BY <1>3, <1>6, <1>7, <1>8 DEF SinkInv

\* The answer tells the record that the call wrote.
LEMMA AnsweredKeeps ==
  ASSUME FeishuConstants, SinkInv, NEW p \in FeishuThreads, Feishu!Answered(p)
  PROVE  SinkInv' /\ Feishu!KeepsRows
<1> DEFINE t == call[p].task
           memory == [cache.memory EXCEPT ![t] = call[p].record]
<1>1. /\ call[p].pc = "applied" /\ call' = [call EXCEPT ![p] = Feishu!NoCall]
      /\ UNCHANGED <<mode, command, table, lastSync, time>>
  BY DEF Feishu!Answered, Feishu!besideServer
<1>2. \/ cache.memory[t] = call[p].record /\ UNCHANGED <<cache, lost>>
      \/ cache' = [memory |-> memory, file |-> memory] /\ UNCHANGED lost
      \/ cache' = [cache EXCEPT !.memory = memory] /\ lost' = lost \cup {t}
  BY DEF Feishu!Answered
<1>3. /\ t \in FeishuTasks /\ Calling(p, t) /\ call[p].record \in Nat
      /\ cache \in [memory : [FeishuTasks -> Nat], file : [FeishuTasks -> Nat]]
  BY <1>1 DEF SinkInv, SinkTypes, FeishuCalls, Calling
<1>4. CallIs(p, t) /\ \A u \in FeishuTasks : Remembered(u)
  BY <1>3 DEF SinkInv
<1>5. /\ memory \in [FeishuTasks -> Nat] /\ memory[t] = call[p].record
      /\ \A u \in FeishuTasks \ {t} : memory[u] = cache.memory[u]
  BY <1>3
<1> HIDE DEF memory, t
<1>6. \A u \in FeishuTasks : Holds(u, memory[u])
  BY <1>4, <1>5 DEF CallIs, Remembered
<1>7. /\ cache' \in [memory : [FeishuTasks -> Nat], file : [FeishuTasks -> Nat]]
      /\ cache'.memory[t] = call[p].record
      /\ \A u \in FeishuTasks \ {t} : cache'.memory[u] = cache.memory[u]
      /\ \A u \in FeishuTasks : u \in lost => u \in lost'
      /\ \/ cache'.memory = cache.memory /\ cache'.file = cache.file /\ lost' = lost
         \/ cache'.memory = memory /\ cache'.file = memory /\ lost' = lost
         \/ cache'.memory = memory /\ cache'.file = cache.file /\ lost' = lost \cup {t}
  <2>1. CASE cache.memory[t] = call[p].record /\ UNCHANGED <<cache, lost>>
    BY <1>3, <2>1
  <2>2. CASE cache' = [memory |-> memory, file |-> memory] /\ UNCHANGED lost
    BY <1>5, <2>2
  <2>3. CASE cache' = [cache EXCEPT !.memory = memory] /\ lost' = lost \cup {t}
    BY <1>3, <1>5, <2>3
  <2> QED
    BY <1>2, <2>1, <2>2, <2>3
<1>8. ASSUME NEW u \in FeishuTasks
      PROVE  Remembered(u)'
  <2>1. Holds(u, cache.memory[u])' /\ Holds(u, cache.file[u])'
    BY <1>1, <1>4, <1>6, <1>7 DEF Remembered, Holds
  <2>2. u \notin lost' => cache'.file[u] = cache'.memory[u]
    <3>1. u \notin lost => cache.file[u] = cache.memory[u]
      BY <1>4 DEF Remembered
    <3> QED
      BY <1>5, <1>7, <3>1
  <2> QED
    BY <2>1, <2>2 DEF Remembered
<1>9. t \notin lost' => Feishu!RowsOf(t) \subseteq {cache'.memory[t]}
  <2> SUFFICES ASSUME t \notin lost', NEW i \in Feishu!RowsOf(t)
               PROVE  i = call[p].record
    BY <1>7
  <2>1. Accounted(t) /\ i # 0
    <3>1. i \in DOMAIN table /\ table \in Seq(FeishuCells)
      BY DEF Feishu!RowsOf, Feishu!Records, SinkInv, SinkTypes
    <3>2. i # 0
      BY <3>1, LenProperties
    <3> QED
      BY <1>3, <1>7, <3>2 DEF SinkInv
  <2>2. cache.memory[t] \in {0, call[p].record} /\ \A q \in FeishuThreads : Calling(q, t) => q = p
    BY <1>1, <1>4 DEF CallIs
  <2> QED
    BY <2>1, <2>2 DEF Accounted
<1> QED
  BY <1>1, <1>7, <1>8, <1>9, CallEnds DEF t

\* A call that was not applied leaves no row; of one that was, the answer is lost.
LEMMA FailedKeeps ==
  ASSUME FeishuConstants, SinkInv, NEW p \in FeishuThreads, Feishu!Failed(p)
  PROVE  SinkInv' /\ Feishu!KeepsRows
<1> DEFINE t == call[p].task
<1>1. /\ call[p].pc # "idle" /\ call' = [call EXCEPT ![p] = Feishu!NoCall]
      /\ lost' = IF call[p].pc = "applied" THEN lost \cup {t} ELSE lost
      /\ UNCHANGED <<mode, command, table, cache, lastSync, time>>
  BY DEF Feishu!Failed, Feishu!besideServer
<1>2. /\ t \in FeishuTasks /\ Calling(p, t) /\ call[p].pc \in {"sent", "applied"}
      /\ cache \in [memory : [FeishuTasks -> Nat], file : [FeishuTasks -> Nat]]
  BY <1>1 DEF SinkInv, SinkTypes, FeishuCalls, Calling
<1>3. CallIs(p, t) /\ \A u \in FeishuTasks : Remembered(u)
  BY <1>2 DEF SinkInv
<1> HIDE DEF t
<1>4. ASSUME NEW u \in FeishuTasks
      PROVE  Remembered(u)' /\ (u \in lost => u \in lost')
  BY <1>1, <1>3 DEF Remembered, Holds
<1>5. t \notin lost' => Feishu!RowsOf(t) \subseteq {cache'.memory[t]}
  <2> SUFFICES ASSUME t \notin lost', NEW i \in Feishu!RowsOf(t)
               PROVE  i = cache.memory[t]
    BY <1>1
  <2>1. call[p].record = cache.memory[t] /\ t \notin lost
    BY <1>1, <1>2, <1>3 DEF CallIs
  <2> QED
    BY <1>2, <1>3, <2>1 DEF SinkInv, Accounted, CallIs
<1> QED
  BY <1>1, <1>2, <1>4, <1>5, CallEnds DEF t

\* The clock stays within the time of the calls.
LEMMA TickKeeps ==
  ASSUME FeishuConstants, SinkInv, Feishu!Tick
  PROVE  SinkInv' /\ Feishu!KeepsRows
<1>1. /\ UNCHANGED <<mode, command, table, cache, lastSync, call, lost>>
      /\ time' = [time EXCEPT !.clock = time.clock + 1]
      /\ \A p \in FeishuThreads : call[p].pc # "idle" => time.clock < call[p].since + Timeout
  BY DEF Feishu!Tick, Feishu!besideServer
<1>2. time \in [clock : Int, restarts : Int] /\ call \in [FeishuThreads -> FeishuCalls]
  BY DEF SinkInv, SinkTypes
<1>3. time' \in [clock : Int, restarts : Int] /\ time'.clock = time.clock + 1
  BY <1>1, <1>2
<1>4. SinkTypes'
  BY <1>1, <1>3 DEF SinkInv, SinkTypes
<1>5. \A u \in FeishuTasks : Remembered(u)'
  BY <1>1 DEF SinkInv, Remembered, Holds
<1>6. \A p \in FeishuThreads, u \in FeishuTasks : Calling(p, u)' = Calling(p, u)
  BY <1>1 DEF Calling
<1>7. ASSUME NEW p \in FeishuThreads, NEW u \in FeishuTasks, Calling(p, u)'
      PROVE  CallIs(p, u)'
  <2>1. CallIs(p, u) /\ call[p].pc # "idle" /\ call[p].since \in Int
    BY <1>2, <1>6, <1>7 DEF SinkInv, Calling, FeishuCalls
  <2>2. time'.clock <= call[p].since + Timeout
    BY <1>1, <1>2, <1>3, <2>1 DEF FeishuConstants
  <2> QED
    BY <1>1, <1>6, <2>1, <2>2 DEF CallIs, Holds
<1>8. \A u \in FeishuTasks : u \notin lost => Accounted(u)'
  BY <1>1, <1>6 DEF SinkInv, Accounted, Feishu!RowsOf, Feishu!Records
<1>9. Feishu!KeepsRows
  BY <1>1 DEF Feishu!KeepsRows, Feishu!Records
<1> QED
  BY <1>1, <1>4, <1>5, <1>7, <1>8, <1>9 DEF SinkInv

\* The server starts again with the record ids of the file.
LEMMA SinkRestartKeeps ==
  ASSUME FeishuConstants, SinkInv, Feishu!Restart
  PROVE  SinkInv' /\ Feishu!KeepsRows
<1>1. /\ UNCHANGED <<mode, command, table>>
      /\ time' = [time EXCEPT !.restarts = time.restarts + 1]
      /\ cache' = [cache EXCEPT !.memory = cache.file]
      /\ lastSync' = [t \in FeishuTasks |-> None]
      /\ call' = [p \in FeishuThreads |-> Feishu!NoCall]
      /\ lost' = lost \cup {call[p].task : p \in {q \in FeishuThreads : call[q].pc = "applied"}}
  BY DEF Feishu!Restart, Feishu!besideServer
<1>2. /\ time' \in [clock : Int, restarts : Int]
      /\ cache' \in [memory : [FeishuTasks -> Nat], file : [FeishuTasks -> Nat]]
      /\ cache'.memory = cache.file /\ cache'.file = cache.file
      /\ call' \in [FeishuThreads -> FeishuCalls]
      /\ \A p \in FeishuThreads : call'[p].pc = "idle"
      /\ lastSync' \in [FeishuTasks -> Int \cup {None}]
  <2>1. /\ time \in [clock : Int, restarts : Int]
        /\ cache \in [memory : [FeishuTasks -> Nat], file : [FeishuTasks -> Nat]]
    BY DEF SinkInv, SinkTypes
  <2>2. time' \in [clock : Int, restarts : Int]
    BY <1>1, <2>1
  <2>3. /\ cache' \in [memory : [FeishuTasks -> Nat], file : [FeishuTasks -> Nat]]
        /\ cache'.memory = cache.file /\ cache'.file = cache.file
    BY <1>1, <2>1
  <2>4. Feishu!NoCall \in FeishuCalls /\ Feishu!NoCall.pc = "idle"
    BY DEF FeishuCalls, Feishu!NoCall
  <2>5. call' \in [FeishuThreads -> FeishuCalls] /\ \A p \in FeishuThreads : call'[p].pc = "idle"
    BY <1>1, <2>4
  <2>6. lastSync' \in [FeishuTasks -> Int \cup {None}]
    BY <1>1
  <2> QED
    BY <2>2, <2>3, <2>5, <2>6
<1>3. SinkTypes'
  BY <1>1, <1>2 DEF SinkInv, SinkTypes
<1>4. \A u \in FeishuTasks : Remembered(u)'
  BY <1>1, <1>2 DEF SinkInv, Remembered, Holds
<1>5. \A p \in FeishuThreads, u \in FeishuTasks : ~Calling(p, u)'
  BY <1>2 DEF Calling
<1>6. ASSUME NEW u \in FeishuTasks, u \notin lost'
      PROVE  Accounted(u)'
  <2>1. /\ Accounted(u) /\ cache.file[u] = cache.memory[u]
        /\ \A p \in FeishuThreads : Calling(p, u) => call[p].pc # "applied"
    BY <1>1, <1>6 DEF SinkInv, Remembered, Calling
  <2>2. \A p \in FeishuThreads : Calling(p, u) => call[p].record = cache.memory[u]
    <3> SUFFICES ASSUME NEW p \in FeishuThreads, Calling(p, u)
                 PROVE  call[p].record = cache.memory[u]
      OBVIOUS
    <3>1. CallIs(p, u) /\ call[p].pc \in {"idle", "sent", "applied"}
      BY DEF SinkInv, SinkTypes, FeishuCalls
    <3> QED
      BY <2>1, <3>1 DEF CallIs, Calling
  <2>3. Feishu!RowsOf(u)' = Feishu!RowsOf(u)
    BY <1>1 DEF Feishu!RowsOf, Feishu!Records
  <2> QED
    BY <1>2, <2>1, <2>2, <2>3 DEF Accounted
<1>7. Feishu!KeepsRows
  BY <1>1 DEF Feishu!KeepsRows, Feishu!Records
<1> QED
  BY <1>3, <1>4, <1>5, <1>6, <1>7 DEF SinkInv

\* People delete a record.
LEMMA DeleteRowKeeps ==
  ASSUME FeishuConstants, SinkInv, Feishu!DeleteRow
  PROVE  SinkInv' /\ Feishu!KeepsRows
<1>1. PICK r \in DOMAIN table : table' = [table EXCEPT ![r] = Feishu!Gone]
  BY DEF Feishu!DeleteRow, Feishu!Records
<1>2. UNCHANGED <<mode, cache, lastSync, call, time, command, lost>>
  BY DEF Feishu!DeleteRow, Feishu!besideTable
<1>3. /\ table \in Seq(FeishuCells) /\ Len(table) \in Nat /\ DOMAIN table = 1..Len(table)
  BY LenProperties DEF SinkInv, SinkTypes
<1>4. /\ table' \in Seq(FeishuCells) /\ Len(table') = Len(table)
      /\ DOMAIN table' = DOMAIN table /\ table'[r] = Feishu!Gone
      /\ \A i \in DOMAIN table : i # r => table'[i] = table[i]
  <2>1. Feishu!Gone \in FeishuCells
    BY DEF FeishuCells
  <2>2. table' \in Seq(FeishuCells) /\ Len(table') = Len(table)
    BY <1>1, <1>3, <2>1, ExceptSeq
  <2> QED
    BY <1>1, <1>3, <2>2
<1>5. SinkTypes'
  BY <1>2, <1>4 DEF SinkInv, SinkTypes
<1>6. ASSUME NEW u, NEW k, Holds(u, k)
      PROVE  k \in 0..Len(table') /\ (k # 0 => table'[k] \in {u, Feishu!Gone})
  BY <1>3, <1>4, <1>6 DEF Holds
<1>7. \A u \in FeishuTasks : Remembered(u)'
  BY <1>2, <1>6 DEF SinkInv, Remembered, Holds
<1>8. \A p \in FeishuThreads, u \in FeishuTasks : Calling(p, u)' = Calling(p, u)
  BY <1>2 DEF Calling
<1>9. ASSUME NEW p \in FeishuThreads, NEW u \in FeishuTasks, Calling(p, u)'
      PROVE  CallIs(p, u)'
  <2>1. CallIs(p, u)
    BY <1>8, <1>9 DEF SinkInv
  <2>2. Holds(u, call[p].record)'
    BY <1>2, <1>6, <2>1 DEF CallIs, Holds
  <2> QED
    BY <1>2, <1>8, <2>1, <2>2 DEF CallIs
<1>10. ASSUME NEW u \in FeishuTasks, u \notin lost
       PROVE  Accounted(u)'
  <2>1. Feishu!RowsOf(u)' \subseteq Feishu!RowsOf(u)
    BY <1>4 DEF Feishu!RowsOf, Feishu!Records, FeishuConstants
  <2>2. Accounted(u)
    BY <1>10 DEF SinkInv
  <2> QED
    BY <1>2, <1>8, <2>1, <2>2 DEF Accounted
<1>11. Feishu!KeepsRows
  BY <1>4 DEF Feishu!KeepsRows, Feishu!Records
<1> QED
  BY <1>2, <1>5, <1>7, <1>9, <1>10, <1>11 DEF SinkInv

\* Each step of the server's table keeps what its sink knows.
LEMMA SinkStep ==
  ASSUME FeishuConstants, SinkInv, [Feishu!Next]_Feishu!vars
  PROVE  SinkInv' /\ Feishu!KeepsRows
<1>1. mode = "server" /\ command.pc = "none"
  BY DEF SinkInv, SinkTypes
<1>2. ASSUME NEW p \in FeishuThreads,
             Feishu!Applied(p) \/ Feishu!Answered(p) \/ Feishu!Failed(p)
             \/ \E t \in FeishuTasks : Feishu!Render(p, t)
      PROVE  SinkInv' /\ Feishu!KeepsRows
  BY <1>2, AppliedKeeps, AnsweredKeeps, FailedKeeps, RenderKeeps
<1>3. CASE Feishu!Tick
  BY <1>3, TickKeeps
<1>4. CASE Feishu!Restart
  BY <1>4, SinkRestartKeeps
<1>5. CASE Feishu!DeleteRow
  BY <1>5, DeleteRowKeeps
<1>6. ~ (Feishu!InitBegin \/ Feishu!SyncBegin \/ Feishu!LoopRound \/ Feishu!AddBlank)
  BY <1>1 DEF Feishu!InitBegin, Feishu!SyncBegin, Feishu!LoopRound, Feishu!Begins,
              Feishu!AddBlank
<1>7. ~ (Feishu!ReadMap \/ Feishu!ReadBlanks \/ Feishu!FillInit \/ Feishu!CreateBatch
         \/ Feishu!FillSync \/ Feishu!CommandEnd)
  BY <1>1 DEF Feishu!ReadMap, Feishu!ReadBlanks, Feishu!Plans, Feishu!FillInit,
              Feishu!CreateBatch, Feishu!FillSync, Feishu!Fills, Feishu!CommandEnd
<1>8. CASE UNCHANGED Feishu!vars
  <2>1. UNCHANGED <<mode, command, table, cache, lastSync, call, time, lost>>
    BY <1>8 DEF Feishu!vars
  <2> QED
    BY <2>1 DEF SinkInv, SinkTypes, Remembered, Holds, Calling, CallIs, Accounted,
                Feishu!RowsOf, Feishu!Records, Feishu!KeepsRows
<1> QED
  BY <1>2, <1>3, <1>4, <1>5, <1>6, <1>7, <1>8 DEF Feishu!Next

\* A task has at most one row, and has one.
OneRow(t) == \A i, j \in Feishu!RowsOf(t) : i = j
HasRow(t) == Feishu!RowsOf(t) # {}

\* What the properties say by counting.
LEMMA CountedRows ==
  ASSUME NEW t
  PROVE  /\ OneRow(t) => Feishu!Cardinality(Feishu!RowsOf(t)) <= 1
         /\ OneRow(t) /\ HasRow(t) => Feishu!Cardinality(Feishu!RowsOf(t)) = 1
<1>1. \A S : Feishu!Cardinality(S) = Cardinality(S)
  BY DEF Feishu!Cardinality, Cardinality
<1>2. CASE HasRow(t) /\ OneRow(t)
  <2>1. PICK i : i \in Feishu!RowsOf(t)
    BY <1>2 DEF HasRow
  <2>2. Feishu!RowsOf(t) = {i}
    BY <1>2, <2>1 DEF OneRow
  <2> QED
    BY <1>1, <2>2, FS_Singleton
<1>3. CASE ~HasRow(t)
  BY <1>1, <1>3, FS_EmptySet DEF HasRow
<1> QED
  BY <1>2, <1>3

\* The ids that the sink keeps are of one record for each task.
LEMMA SinkKeepsOneRow ==
  ASSUME SinkInv, NEW t \in FeishuTasks, t \notin lost
  PROVE  OneRow(t)
<1>1. Accounted(t)
  BY DEF SinkInv
<1>2. \A i \in Feishu!RowsOf(t) : i # 0
  BY LenProperties DEF Feishu!RowsOf, Feishu!Records, SinkInv, SinkTypes
<1>3. \A p \in FeishuThreads : Calling(p, t) =>
        /\ call[p].record = cache.memory[t] \/ cache.memory[t] \in {0, call[p].record}
        /\ \A q \in FeishuThreads : Calling(q, t) => q = p
  <2> TAKE p \in FeishuThreads
  <2> HAVE Calling(p, t)
  <2>1. CallIs(p, t)
    BY DEF SinkInv
  <2> QED
    BY <2>1 DEF CallIs
<1> QED
  BY <1>1, <1>2, <1>3 DEF OneRow, Accounted

-----------------------------------------------------------------------------
(* The Feishu table: the commands                                          *)

\* The command that runs, or ran last.  Rows are of different tasks, and only a command
\* in "write" has something left to write.
FeishuFills == [record : Nat, task : FeishuTasks]

FeishuCommands ==
  [pc : {"none", "map", "blanks", "write", "ok", "failed"}, op : {"init", "sync", None},
   rows : Seq(FeishuTasks), map : [FeishuTasks -> Nat], fill : Seq(FeishuFills),
   create : Seq(FeishuTasks)]

CommandTypes ==
  /\ mode = "commands" /\ \A p \in FeishuThreads : call[p].pc = "idle"
  /\ table \in Seq(FeishuTasks \cup {Feishu!Blank})
  /\ command \in FeishuCommands
  /\ DistinctSeq(command.rows)
  /\ command.pc = "blanks" => command.op = "init"
  /\ command.pc # "write" => command.fill = <<>> /\ command.create = <<>>
  /\ command.op # "init" => command.create = <<>>

\* A task that the command has yet to give a row.
Filled(t) == \E i \in DOMAIN command.fill : command.fill[i].task = t
Pending(t) == Filled(t) \/ t \in Elements(command.create)

\* A command fills records and creates rows of tasks apart.  init-feishu fills blank
\* records with tasks that have no row, if the lists were complete.
Short == Len(table) <= ListLimit
WriteInv ==
  /\ \A i \in DOMAIN command.fill :
       /\ command.fill[i].record \in DOMAIN table
       /\ table[command.fill[i].record] =
            IF command.op = "init" THEN Feishu!Blank ELSE command.fill[i].task
       /\ command.fill[i].task \notin Elements(command.create)
  /\ \A i, j \in DOMAIN command.fill :
       command.fill[i].record = command.fill[j].record
       \/ command.fill[i].task = command.fill[j].task => i = j
  /\ DistinctSeq(command.create)
  /\ command.op = "init" /\ Short => \A t \in FeishuTasks : Pending(t) => ~HasRow(t)

\* A task of the snapshot of an init-feishu has a row, or is pending, until it is done.
CommandInv ==
  /\ CommandTypes
  /\ Short => \A t \in FeishuTasks : OneRow(t)
  /\ command.pc = "blanks" =>
       \A t \in FeishuTasks :
         IF command.map[t] # 0 THEN HasRow(t) ELSE Short => ~HasRow(t)
  /\ command.pc = "write" => WriteInv
  /\ command.op = "init" =>
       \A t \in Elements(command.rows) :
         /\ command.pc = "write" => HasRow(t) \/ Pending(t)
         /\ command.pc = "ok" => HasRow(t)

\* The table is empty, and no command has run.
LEMMA CommandInit ==
  ASSUME FeishuConstants, Feishu!Init, mode = "commands"
  PROVE  CommandInv
<1>1. /\ table = <<>> /\ \A p \in FeishuThreads : call[p].pc = "idle"
  BY DEF Feishu!Init, Feishu!NoCall
<1>2. command = [pc |-> "none", op |-> None, rows |-> <<>>,
                 map |-> [t \in FeishuTasks |-> 0], fill |-> <<>>, create |-> <<>>]
  BY DEF Feishu!Init, Feishu!NoCommand
<1>3. \A S : <<>> \in Seq(S)
  OBVIOUS
<1>4. CommandTypes
  <2>1. [t \in FeishuTasks |-> 0] \in [FeishuTasks -> Nat]
    OBVIOUS
  <2>2. command \in FeishuCommands
    BY <1>2, <1>3, <2>1 DEF FeishuCommands
  <2>3. /\ command.rows = <<>> /\ command.fill = <<>> /\ command.create = <<>>
        /\ command.pc = "none" /\ DOMAIN <<>> = {}
    BY <1>2
  <2> QED
    BY <1>1, <1>3, <2>2, <2>3 DEF CommandTypes, DistinctSeq
<1>5. \A t : Feishu!RowsOf(t) = {}
  BY <1>1 DEF Feishu!RowsOf, Feishu!Records
<1> QED
  BY <1>2, <1>4, <1>5 DEF CommandInv, OneRow, Elements

\* The parts of a command, and of the table, with their domains.
LEMMA CommandParts ==
  ASSUME CommandTypes
  PROVE  /\ command \in FeishuCommands
         /\ command.rows \in Seq(FeishuTasks) /\ command.map \in [FeishuTasks -> Nat]
         /\ command.fill \in Seq(FeishuFills) /\ command.create \in Seq(FeishuTasks)
         /\ DOMAIN command.rows = 1..Len(command.rows) /\ Len(command.rows) \in Nat
         /\ DOMAIN command.fill = 1..Len(command.fill) /\ Len(command.fill) \in Nat
         /\ DOMAIN command.create = 1..Len(command.create) /\ Len(command.create) \in Nat
         /\ table \in Seq(FeishuTasks \cup {Feishu!Blank})
         /\ DOMAIN table = 1..Len(table) /\ Len(table) \in Nat
         /\ \A i \in DOMAIN command.rows : command.rows[i] \in FeishuTasks
         /\ \A i \in DOMAIN command.fill :
              command.fill[i].record \in Nat /\ command.fill[i].task \in FeishuTasks
         /\ \A i \in DOMAIN command.create : command.create[i] \in FeishuTasks
<1>1. /\ command.rows \in Seq(FeishuTasks) /\ command.map \in [FeishuTasks -> Nat]
      /\ command.fill \in Seq(FeishuFills) /\ command.create \in Seq(FeishuTasks)
  BY DEF CommandTypes, FeishuCommands
<1>2. \A i \in DOMAIN command.fill : command.fill[i] \in FeishuFills
  BY <1>1, ElementOfSeq, LenProperties
<1>3. table \in Seq(FeishuTasks \cup {Feishu!Blank}) /\ command \in FeishuCommands
  BY DEF CommandTypes
<1>4. /\ DOMAIN table = 1..Len(table) /\ Len(table) \in Nat
      /\ DOMAIN command.rows = 1..Len(command.rows) /\ Len(command.rows) \in Nat
      /\ DOMAIN command.fill = 1..Len(command.fill) /\ Len(command.fill) \in Nat
      /\ DOMAIN command.create = 1..Len(command.create) /\ Len(command.create) \in Nat
  BY <1>1, <1>3, LenProperties
<1>5. /\ \A i \in DOMAIN command.rows : command.rows[i] \in FeishuTasks
      /\ \A i \in DOMAIN command.create : command.create[i] \in FeishuTasks
  BY <1>1, <1>4, ElementOfSeq
<1> QED
  BY <1>1, <1>2, <1>3, <1>4, <1>5 DEF FeishuFills

\* A list of all records is complete as long as it may have as many.
LEMMA ListedAll ==
  ASSUME FeishuConstants, CommandTypes, Short
  PROVE  Feishu!Listed = DOMAIN table
<1>1. /\ DOMAIN table = 1..Len(table) /\ Len(table) \in Nat
      /\ \A i \in DOMAIN table : table[i] # Feishu!Gone
  <2>1. \A i \in 1..Len(table) : table[i] \in FeishuTasks \cup {Feishu!Blank}
    BY CommandParts, ElementOfSeq
  <2> QED
    BY <2>1, CommandParts DEF FeishuConstants, Feishu!Blank, Feishu!Gone
<1>2. ASSUME NEW i \in 1..Len(table)
      PROVE  Feishu!Cardinality({j \in 1..i : table[j] # Feishu!Gone}) <= ListLimit
  <2> DEFINE S == {j \in 1..i : table[j] # Feishu!Gone}
  <2>1. Feishu!Cardinality(S) = Cardinality(S)
    BY DEF Feishu!Cardinality, Cardinality
  <2>2. IsFiniteSet(1..i) /\ Cardinality(1..i) = i
    BY <1>1, FS_Interval
  <2>3. S \in SUBSET (1..i)
    OBVIOUS
  <2> HIDE DEF S
  <2>4. Cardinality(S) <= i /\ Cardinality(S) \in Nat
    BY <2>2, <2>3, FS_Subset, FS_CardinalityType
  <2> QED
    BY <1>1, <2>1, <2>4 DEF Short, FeishuConstants, S
<1> QED
  BY <1>1, <1>2 DEF Feishu!Listed, Feishu!Records

\* The map has a row of the task, and none only if the task has none.
LEMMA RecordOfIs ==
  ASSUME FeishuConstants, CommandTypes, NEW t
  PROVE  /\ Feishu!RecordOf(t) \in Nat
         /\ Feishu!RecordOf(t) # 0 => Feishu!RecordOf(t) \in Feishu!RowsOf(t)
         /\ Feishu!RecordOf(t) = 0 /\ Short => ~HasRow(t)
<1> DEFINE mine == Feishu!RowsOf(t) \cap Feishu!Listed
<1>1. /\ DOMAIN table = 1..Len(table) /\ Len(table) \in Nat
      /\ mine \in SUBSET (1..Len(table)) /\ Feishu!RowsOf(t) \subseteq DOMAIN table
  BY CommandParts DEF Feishu!RowsOf, Feishu!Records
<1>2. Feishu!RecordOf(t)
        = IF mine = {} THEN 0 ELSE CHOOSE i \in mine : \A j \in mine : j <= i
  BY DEF Feishu!RecordOf
<1>3. mine \subseteq Feishu!RowsOf(t) /\ (Short => mine = Feishu!RowsOf(t))
  BY <1>1, ListedAll
<1> HIDE DEF mine
<1>4. CASE mine # {}
  <2>1. \E i \in mine : \A j \in mine : j <= i
    BY <1>1, <1>4, LastExists
  <2>2. Feishu!RecordOf(t) \in mine
    BY <1>2, <1>4, <2>1
  <2>3. Feishu!RecordOf(t) \in 1..Len(table) /\ Feishu!RecordOf(t) \in Feishu!RowsOf(t)
    BY <1>1, <1>3, <2>2
  <2> HIDE DEF mine
  <2>4. Feishu!RecordOf(t) \in Nat /\ Feishu!RecordOf(t) # 0
    BY <1>1, <2>3
  <2> QED
    BY <2>3, <2>4
<1>5. CASE mine = {}
  BY <1>2, <1>3, <1>5 DEF HasRow
<1> QED
  BY <1>4, <1>5

\* A command's rows are of the tasks of its snapshot, each once.
LEMMA SnapshotIs ==
  ASSUME FeishuConstants, NEW S \in SUBSET FeishuTasks
  PROVE  Feishu!SetToSeq(S) \in Seq(FeishuTasks) /\ DistinctSeq(Feishu!SetToSeq(S))
<1>1. IsFiniteSet(S)
  BY FS_Subset DEF FeishuConstants
<1>2. Cardinality(S) \in Nat /\ ExistsBijection(1..Cardinality(S), S)
  BY <1>1, FS_CardinalityType
<1>3. Feishu!Cardinality(S) = Cardinality(S)
  BY DEF Feishu!Cardinality, Cardinality
<1>4. PICK f \in [1..Feishu!Cardinality(S) -> S] : Feishu!IsInjective(f)
  BY <1>2, <1>3 DEF ExistsBijection, Bijection, Injection, IsInjective, Feishu!IsInjective
<1>5. /\ Feishu!SetToSeq(S) \in [1..Feishu!Cardinality(S) -> S]
      /\ Feishu!IsInjective(Feishu!SetToSeq(S))
  BY <1>4 DEF Feishu!SetToSeq
<1>6. Feishu!SetToSeq(S) \in [1..Feishu!Cardinality(S) -> FeishuTasks]
  BY <1>5
<1> QED
  BY <1>2, <1>3, <1>5, <1>6, IsASeq DEF Feishu!IsInjective, DistinctSeq

\* The lists of FeishuMirror are those of V2Deploy.
LEMMA FeishuOnlyIs ==
  ASSUME NEW A, NEW s \in Seq(A), DistinctSeq(s), NEW S
  PROVE  /\ Feishu!Only(s, S) \in Seq(A) /\ DistinctSeq(Feishu!Only(s, S))
         /\ Elements(Feishu!Only(s, S)) = Elements(s) \cap S
<1>1. Feishu!Only(s, S) = Deploy!Only(s, S)
  BY DEF Feishu!Only, Deploy!Only
<1> QED
  BY <1>1, OnlyIs

\* A command begins with nothing to write.
LEMMA BeginKeeps ==
  ASSUME FeishuConstants, CommandInv, NEW op \in {"init", "sync"},
         NEW snapshots \in SUBSET (SUBSET FeishuTasks), Feishu!Begins(op, snapshots)
  PROVE  CommandInv' /\ Feishu!KeepsRows
<1>1. PICK S \in SUBSET FeishuTasks :
        command' = [Feishu!NoCommand EXCEPT !.pc = "map", !.op = op, !.rows = Feishu!SetToSeq(S)]
  BY DEF Feishu!Begins
<1>2. UNCHANGED <<mode, call, table>>
  BY DEF Feishu!Begins, Feishu!besideCommands
<1> DEFINE rows == Feishu!SetToSeq(S)
<1>3. rows \in Seq(FeishuTasks) /\ DistinctSeq(rows)
  BY SnapshotIs
<1>4. command' = [pc |-> "map", op |-> op, rows |-> rows,
                  map |-> [t \in FeishuTasks |-> 0], fill |-> <<>>, create |-> <<>>]
  BY <1>1 DEF Feishu!NoCommand
<1> HIDE DEF rows
<1>5. [t \in FeishuTasks |-> 0] \in [FeishuTasks -> Nat] /\ \A A : <<>> \in Seq(A)
  OBVIOUS
<1>6. command' \in FeishuCommands
  BY <1>3, <1>4, <1>5 DEF FeishuCommands
<1>7. /\ command'.pc = "map" /\ command'.rows = rows /\ command'.fill = <<>>
      /\ command'.create = <<>>
  BY <1>4
<1>8. CommandTypes'
  BY <1>2, <1>3, <1>6, <1>7 DEF CommandInv, CommandTypes
<1>9. Feishu!KeepsRows /\ (Short => \A t \in FeishuTasks : OneRow(t))'
  BY <1>2 DEF CommandInv, Short, OneRow, Feishu!RowsOf, Feishu!Records, Feishu!KeepsRows
<1> QED
  BY <1>7, <1>8, <1>9 DEF CommandInv

\* The table as it is.
LEMMA SameTable ==
  ASSUME CommandInv, UNCHANGED table
  PROVE  /\ Feishu!KeepsRows /\ (Short => \A t \in FeishuTasks : OneRow(t))'
         /\ \A t : HasRow(t)' = HasRow(t)
         /\ Short' = Short
BY DEF CommandInv, Short, OneRow, HasRow, Feishu!RowsOf, Feishu!Records, Feishu!KeepsRows

\* init-feishu knows the tasks that have a row; sync-feishu writes the rows that are.
LEMMA ReadMapKeeps ==
  ASSUME FeishuConstants, CommandInv, Feishu!ReadMap
  PROVE  CommandInv' /\ Feishu!KeepsRows
<1> DEFINE map == [t \in FeishuTasks |-> Feishu!RecordOf(t)]
           mine == Feishu!Only(command.rows, {t \in FeishuTasks : map[t] # 0})
           fill == [i \in DOMAIN mine |-> [record |-> map[mine[i]], task |-> mine[i]]]
<1>1. /\ command.pc = "map" /\ UNCHANGED <<mode, call, table>>
      /\ command' = IF command.op = "init"
                    THEN [command EXCEPT !.pc = "blanks", !.map = map]
                    ELSE [command EXCEPT !.pc = "write", !.map = map, !.fill = fill]
  BY DEF Feishu!ReadMap, Feishu!besideCommands
<1>2. /\ command \in FeishuCommands /\ DistinctSeq(command.rows)
      /\ command.rows \in Seq(FeishuTasks) /\ command.create = <<>> /\ command.fill = <<>>
  BY <1>1, CommandParts DEF CommandInv, CommandTypes
<1>3. /\ map \in [FeishuTasks -> Nat]
      /\ \A t \in FeishuTasks : /\ map[t] # 0 => map[t] \in Feishu!RowsOf(t)
                                /\ map[t] = 0 /\ Short => ~HasRow(t)
  BY RecordOfIs DEF CommandInv
<1>4. /\ mine \in Seq(FeishuTasks) /\ DistinctSeq(mine)
      /\ Elements(mine) = Elements(command.rows) \cap {t \in FeishuTasks : map[t] # 0}
  <2> HIDE DEF map
  <2> QED
    BY <1>2, FeishuOnlyIs
<1> HIDE DEF map, mine
<1>5. /\ DOMAIN mine = 1..Len(mine) /\ Len(mine) \in Nat
      /\ \A i \in DOMAIN mine : mine[i] \in FeishuTasks /\ map[mine[i]] # 0
  BY <1>4, LenProperties DEF Elements
<1>6. /\ fill \in Seq(FeishuFills) /\ DOMAIN fill = DOMAIN mine
      /\ \A i \in DOMAIN fill : fill[i].record = map[mine[i]] /\ fill[i].task = mine[i]
  <2>1. \A i \in DOMAIN mine : map[mine[i]] \in Nat /\ mine[i] \in FeishuTasks
    BY <1>3, <1>5
  <2>2. fill \in [1..Len(mine) -> FeishuFills]
    BY <1>5, <2>1 DEF FeishuFills
  <2> QED
    BY <1>5, <2>2, IsASeq
<1> HIDE DEF fill
<1>7. Feishu!KeepsRows /\ (Short => \A t \in FeishuTasks : OneRow(t))'
      /\ (\A t : HasRow(t)' = HasRow(t)) /\ Short' = Short
  BY <1>1, SameTable
<1>8. CASE command.op = "init"
  <2>1. command' = [command EXCEPT !.pc = "blanks", !.map = map]
    BY <1>1, <1>8
  <2>2. /\ command' \in FeishuCommands /\ command'.pc = "blanks" /\ command'.op = "init"
        /\ command'.map = map /\ command'.fill = <<>> /\ command'.create = <<>>
        /\ command'.rows = command.rows
    BY <1>2, <1>3, <1>8, <2>1 DEF FeishuCommands
  <2>3. CommandTypes'
    BY <1>1, <1>2, <2>2 DEF CommandInv, CommandTypes
  <2>4. \A t \in FeishuTasks :
          IF command'.map[t] # 0 THEN HasRow(t)' ELSE Short' => ~HasRow(t)'
    BY <1>3, <1>7, <2>2 DEF HasRow
  <2> QED
    BY <1>7, <2>2, <2>3, <2>4 DEF CommandInv
<1>9. CASE command.op # "init"
  <2>1. command' = [command EXCEPT !.pc = "write", !.map = map, !.fill = fill]
    BY <1>1, <1>9
  <2>2. /\ command' \in FeishuCommands /\ command'.pc = "write" /\ command'.op = command.op
        /\ command'.map = map /\ command'.fill = fill /\ command'.create = <<>>
        /\ command'.rows = command.rows
    BY <1>2, <1>3, <1>6, <2>1 DEF FeishuCommands
  <2>3. CommandTypes'
    BY <1>1, <1>2, <2>2 DEF CommandInv, CommandTypes
  <2>4. WriteInv'
    <3>1. \A i \in DOMAIN fill :
            /\ fill[i].record \in Feishu!RowsOf(fill[i].task)
      BY <1>3, <1>5, <1>6
    <3>2. \A i \in DOMAIN fill :
            fill[i].record \in DOMAIN table /\ table[fill[i].record] = fill[i].task
      BY <3>1 DEF Feishu!RowsOf, Feishu!Records
    <3>3. \A i, j \in DOMAIN fill :
            fill[i].record = fill[j].record \/ fill[i].task = fill[j].task => i = j
      BY <1>4, <1>6, <3>2 DEF DistinctSeq
    <3>4. DOMAIN <<>> = {}
      OBVIOUS
    <3> QED
      BY <1>1, <1>9, <2>2, <3>2, <3>3, <3>4 DEF WriteInv, Elements, DistinctSeq
  <2> QED
    BY <1>7, <1>9, <2>2, <2>3, <2>4 DEF CommandInv
<1> QED
  BY <1>7, <1>8, <1>9

\* init-feishu gives each row that is missing a blank record, or a record of its own.
LEMMA ReadBlanksKeeps ==
  ASSUME FeishuConstants, CommandInv, Feishu!ReadBlanks
  PROVE  CommandInv' /\ Feishu!KeepsRows
<1> DEFINE blanks == Feishu!Blanks
           missing == Feishu!MissingRows
           n == Feishu!Reused
           fill == [i \in 1..n |-> [record |-> blanks[i], task |-> missing[i]]]
           create == SubSeq(missing, n + 1, Len(missing))
<1>1. /\ command.pc = "blanks" /\ UNCHANGED <<mode, call, table>>
      /\ command' = [command EXCEPT !.pc = "write", !.fill = fill, !.create = create]
  BY DEF Feishu!ReadBlanks, Feishu!Plans, Feishu!besideCommands
<1>2. /\ command \in FeishuCommands /\ DistinctSeq(command.rows) /\ command.op = "init"
      /\ command.rows \in Seq(FeishuTasks) /\ command.map \in [FeishuTasks -> Nat]
      /\ DOMAIN table = 1..Len(table) /\ Len(table) \in Nat
  BY <1>1, CommandParts DEF CommandInv, CommandTypes
<1>3. /\ blanks \in Seq(1..Len(table)) /\ DistinctSeq(blanks)
      /\ Elements(blanks) \subseteq Feishu!Reusable
  <2> DEFINE all == [i \in 1..Len(table) |-> i]
  <2>1. blanks = Feishu!Only(all, Feishu!Reusable)
    BY <1>2 DEF Feishu!Blanks, Feishu!Records
  <2>2. all \in Seq(1..Len(table)) /\ DistinctSeq(all)
    BY <1>2, IsASeq DEF DistinctSeq
  <2> HIDE DEF all
  <2> QED
    BY <2>1, <2>2, FeishuOnlyIs
<1>4. /\ missing \in Seq(FeishuTasks) /\ DistinctSeq(missing)
      /\ Elements(missing) = Elements(command.rows) \cap {t \in FeishuTasks : command.map[t] = 0}
  BY <1>2, FeishuOnlyIs DEF Feishu!MissingRows
<1>5. /\ Len(blanks) \in Nat /\ DOMAIN blanks = 1..Len(blanks)
      /\ Len(missing) \in Nat /\ DOMAIN missing = 1..Len(missing)
      /\ n \in Nat /\ n <= Len(blanks) /\ n <= Len(missing)
  BY <1>3, <1>4, LenProperties DEF Feishu!Reused
<1> HIDE DEF blanks, missing, n
<1>6. \A i \in 1..Len(missing) : missing[i] \in FeishuTasks /\ command.map[missing[i]] = 0
  BY <1>4, <1>5 DEF Elements
<1>7. \A i \in 1..Len(blanks) : /\ blanks[i] \in DOMAIN table
                                /\ table[blanks[i]] = Feishu!Blank
  BY <1>2, <1>3, <1>5, ElementOfSeq DEF Elements, Feishu!Reusable
<1>8. /\ fill \in Seq(FeishuFills) /\ DOMAIN fill = 1..n
      /\ \A i \in 1..n : fill[i].record = blanks[i] /\ fill[i].task = missing[i]
  <2>1. \A i \in 1..n : blanks[i] \in Nat /\ missing[i] \in FeishuTasks
    BY <1>2, <1>5, <1>6, <1>7
  <2>2. fill \in [1..n -> FeishuFills]
    BY <2>1 DEF FeishuFills
  <2> QED
    BY <1>5, <2>2, IsASeq
<1>9. /\ create \in Seq(FeishuTasks) /\ DOMAIN create = 1..(Len(missing) - n)
      /\ \A i \in 1..(Len(missing) - n) : create[i] = missing[n + i]
  <2>1. \A i \in n + 1..Len(missing) : missing[i] \in FeishuTasks
    BY <1>5, <1>6
  <2>2. /\ create \in Seq(FeishuTasks)
        /\ Len(create) = IF n + 1 <= Len(missing) THEN Len(missing) - (n + 1) + 1 ELSE 0
        /\ \A i \in 1..Len(missing) - (n + 1) + 1 : create[i] = missing[n + 1 + i - 1]
    BY <1>5, <2>1, SubSeqProperties
  <2> HIDE DEF create, fill
  <2>3. Len(create) = Len(missing) - n
    <3>1. Len(create) = IF n + 1 <= Len(missing) THEN Len(missing) - (n + 1) + 1 ELSE 0
      BY <2>2
    <3>2. n \in Nat /\ Len(missing) \in Nat /\ n <= Len(missing)
      BY <1>5
    <3> QED
      BY <3>1, <3>2
  <2>4. DOMAIN create = 1..(Len(missing) - n)
    BY <2>2, <2>3, LenProperties
  <2>5. \A i \in 1..(Len(missing) - n) :
          i \in 1..Len(missing) - (n + 1) + 1 /\ n + 1 + i - 1 = n + i
    BY <1>5
  <2> QED
    BY <2>2, <2>4, <2>5
<1> HIDE DEF fill, create
<1>10. /\ command' \in FeishuCommands /\ command'.pc = "write" /\ command'.op = "init"
       /\ command'.fill = fill /\ command'.create = create
       /\ command'.rows = command.rows
  BY <1>1, <1>2, <1>8, <1>9 DEF FeishuCommands
<1>11. CommandTypes'
  BY <1>1, <1>2, <1>10 DEF CommandInv, CommandTypes
<1>12. Feishu!KeepsRows /\ (Short => \A t \in FeishuTasks : OneRow(t))'
       /\ (\A t : HasRow(t)' = HasRow(t)) /\ Short' = Short
  BY <1>1, SameTable
<1>13. \A t : Pending(t)' <=> t \in Elements(missing)
  <2> TAKE t
  <2>1. Pending(t)' <=> \/ \E i \in 1..n : missing[i] = t
                        \/ \E i \in 1..(Len(missing) - n) : missing[n + i] = t
    BY <1>8, <1>9, <1>10 DEF Pending, Filled, Elements
  <2>2. \A i \in 1..Len(missing) : i \in 1..n \/ (i - n \in 1..(Len(missing) - n) /\ n + (i - n) = i)
    BY <1>5
  <2>3. (\A i \in 1..n : i \in 1..Len(missing))
        /\ \A i \in 1..(Len(missing) - n) : n + i \in 1..Len(missing)
    BY <1>5
  <2> QED
    BY <1>5, <2>1, <2>2, <2>3 DEF Elements
<1>14. WriteInv'
  <2>1. \A i \in DOMAIN fill :
          /\ fill[i].record \in DOMAIN table /\ table[fill[i].record] = Feishu!Blank
          /\ fill[i].task \notin Elements(create)
    <3> TAKE i \in DOMAIN fill
    <3>1. i \in 1..n /\ i \in 1..Len(blanks) /\ i \in 1..Len(missing)
      BY <1>5, <1>8
    <3>2. \A j \in 1..(Len(missing) - n) : n + j \in 1..Len(missing) /\ n + j # i
      BY <1>5, <3>1
    <3>3. fill[i].record \in DOMAIN table /\ table[fill[i].record] = Feishu!Blank
      BY <1>7, <1>8, <3>1
    <3>4. \A j \in 1..(Len(missing) - n) : create[j] # missing[i]
      BY <1>4, <1>5, <1>9, <3>1, <3>2 DEF DistinctSeq
    <3> QED
      BY <1>8, <1>9, <3>1, <3>3, <3>4 DEF Elements
  <2>2. \A i, j \in DOMAIN fill :
          fill[i].record = fill[j].record \/ fill[i].task = fill[j].task => i = j
    <3>1. \A i \in 1..n : i \in 1..Len(blanks) /\ i \in 1..Len(missing)
      BY <1>5
    <3> QED
      BY <1>3, <1>4, <1>5, <1>8, <3>1 DEF DistinctSeq
  <2>3. DistinctSeq(create)
    <3>1. \A i \in 1..(Len(missing) - n) : n + i \in 1..Len(missing) /\ i \in Nat
      BY <1>5
    <3>2. \A i, j \in 1..(Len(missing) - n) : n + i = n + j => i = j
      BY <1>5
    <3> QED
      BY <1>4, <1>5, <1>9, <3>1, <3>2 DEF DistinctSeq
  <2>4. Short => \A t \in FeishuTasks : Pending(t)' => ~HasRow(t)
    BY <1>1, <1>4, <1>13 DEF CommandInv
  <2> QED
    BY <1>1, <1>10, <1>12, <2>1, <2>2, <2>3, <2>4 DEF WriteInv
<1>15. \A t \in Elements(command.rows) : HasRow(t)' \/ Pending(t)'
  <2> TAKE t \in Elements(command.rows)
  <2>1. t \in FeishuTasks
    BY CommandParts DEF CommandInv, Elements
  <2> QED
    BY <1>1, <1>4, <1>12, <1>13, <2>1 DEF CommandInv
<1> QED
  BY <1>10, <1>11, <1>12, <1>14, <1>15 DEF CommandInv

\* A record that is blank, or holds the task, is written.
LEMMA RecordWritten ==
  ASSUME CommandTypes, NEW r \in DOMAIN table, NEW t \in FeishuTasks,
         table[r] \in {Feishu!Blank, t}, FeishuConstants,
         table' = [table EXCEPT ![r] = t]
  PROVE  /\ table' \in Seq(FeishuTasks \cup {Feishu!Blank})
         /\ DOMAIN table' = DOMAIN table /\ Len(table') = Len(table)
         /\ \A i \in DOMAIN table : table'[i] = IF i = r THEN t ELSE table[i]
         /\ Feishu!RowsOf(t)' = Feishu!RowsOf(t) \cup {r}
         /\ \A u \in FeishuTasks \ {t} : Feishu!RowsOf(u)' = Feishu!RowsOf(u)
         /\ Feishu!KeepsRows
<1>1. /\ table \in Seq(FeishuTasks \cup {Feishu!Blank})
      /\ DOMAIN table = 1..Len(table) /\ Len(table) \in Nat
  BY CommandParts
<1>2. table' \in Seq(FeishuTasks \cup {Feishu!Blank}) /\ Len(table') = Len(table)
  BY <1>1, ExceptSeq
<1>3. DOMAIN table' = DOMAIN table
      /\ \A i \in DOMAIN table : table'[i] = IF i = r THEN t ELSE table[i]
  OBVIOUS
<1>4. /\ Feishu!RowsOf(t)' = Feishu!RowsOf(t) \cup {r}
      /\ \A u \in FeishuTasks \ {t} : Feishu!RowsOf(u)' = Feishu!RowsOf(u)
  BY <1>3 DEF Feishu!RowsOf, Feishu!Records, FeishuConstants
<1>5. Feishu!KeepsRows
  BY <1>3 DEF Feishu!KeepsRows, Feishu!Records, FeishuConstants
<1> QED
  BY <1>2, <1>3, <1>4, <1>5

\* What is left to fill when the first record is written.
LEMMA FillRest ==
  ASSUME CommandTypes, command.fill # <<>>
  PROVE  LET rest == Tail(command.fill)
         IN  /\ 1 \in DOMAIN command.fill /\ Head(command.fill) = command.fill[1]
             /\ rest \in Seq(FeishuFills)
             /\ \A i \in DOMAIN rest : i + 1 \in DOMAIN command.fill /\ i + 1 # 1
                                       /\ rest[i] = command.fill[i + 1]
             /\ \A i \in DOMAIN command.fill :
                  i # 1 => i - 1 \in DOMAIN rest /\ rest[i - 1] = command.fill[i]
<1> DEFINE rest == Tail(command.fill)
<1>1. /\ command.fill \in Seq(FeishuFills) /\ Len(command.fill) \in Nat
      /\ DOMAIN command.fill = 1..Len(command.fill)
  BY CommandParts
<1>2. /\ rest \in Seq(FeishuFills) /\ Len(rest) = Len(command.fill) - 1
      /\ \A i \in 1..Len(rest) : rest[i] = command.fill[i + 1]
  BY <1>1, HeadTailProperties
<1>3. DOMAIN rest = 1..Len(rest)
  BY <1>2, LenProperties
<1>4. Len(command.fill) # 0
  BY <1>1, EmptySeq
<1>5. Head(command.fill) = command.fill[1]
  BY <1>1
<1> HIDE DEF rest
<1>6. \A i \in DOMAIN rest : i + 1 \in DOMAIN command.fill /\ i + 1 # 1
  BY <1>1, <1>2, <1>3
<1>7. \A i \in DOMAIN command.fill : i # 1 => i - 1 \in DOMAIN rest /\ (i - 1) + 1 = i
  BY <1>1, <1>2, <1>3
<1> QED
  BY <1>1, <1>2, <1>3, <1>4, <1>5, <1>6, <1>7 DEF rest

\* A command that fails leaves the table as it is then.
LEMMA FailsKeeps ==
  ASSUME CommandInv, UNCHANGED <<mode, call>>, command' = Feishu!InitFails,
         table' \in Seq(FeishuTasks \cup {Feishu!Blank}),
         Short' => \A t \in FeishuTasks : OneRow(t)'
  PROVE  CommandInv'
<1>1. command' = [command EXCEPT !.pc = "failed", !.fill = <<>>, !.create = <<>>]
  BY DEF Feishu!InitFails
<1>2. command \in FeishuCommands /\ DistinctSeq(command.rows)
  BY DEF CommandInv, CommandTypes
<1>3. /\ command'.pc = "failed" /\ command'.rows = command.rows
      /\ command'.fill = <<>> /\ command'.create = <<>>
      /\ command' \in FeishuCommands
  <2>1. <<>> \in Seq(FeishuFills) /\ <<>> \in Seq(FeishuTasks)
    OBVIOUS
  <2>2. PICK none : none = <<>> /\ none \in Seq(FeishuFills) /\ none \in Seq(FeishuTasks)
    BY <2>1
  <2>3. command' = [command EXCEPT !.pc = "failed", !.fill = none, !.create = none]
    BY <1>1, <2>2
  <2>4. /\ command'.pc = "failed" /\ command'.rows = command.rows
        /\ command'.fill = none /\ command'.create = none
        /\ command' \in FeishuCommands
    BY <1>2, <2>2, <2>3 DEF FeishuCommands
  <2> QED
    BY <2>2, <2>4
<1>4. CommandTypes'
  BY <1>2, <1>3 DEF CommandInv, CommandTypes
<1> QED
  BY <1>3, <1>4 DEF CommandInv

\* init-feishu fills a blank record with the row of a task that has none.
LEMMA FillInitKeeps ==
  ASSUME FeishuConstants, CommandInv, Feishu!FillInit
  PROVE  CommandInv' /\ Feishu!KeepsRows
<1> DEFINE w == command.fill[1]
           rest == Tail(command.fill)
<1>1. /\ command.pc = "write" /\ command.op = "init" /\ command.fill # <<>>
      /\ UNCHANGED <<mode, call>>
      /\ \/ /\ table' = [table EXCEPT ![Head(command.fill).record] = Head(command.fill).task]
            /\ command' \in {[command EXCEPT !.fill = rest], Feishu!InitFails}
         \/ UNCHANGED table /\ command' = Feishu!InitFails
  BY DEF Feishu!FillInit, Feishu!Fills, Feishu!Sends, Feishu!besideCommands
<1>2. CommandTypes /\ WriteInv /\ (Short => \A t \in FeishuTasks : OneRow(t))
  BY <1>1 DEF CommandInv
<1>3. /\ 1 \in DOMAIN command.fill /\ Head(command.fill) = w
      /\ rest \in Seq(FeishuFills)
      /\ \A i \in DOMAIN rest : i + 1 \in DOMAIN command.fill /\ i + 1 # 1
                                /\ rest[i] = command.fill[i + 1]
      /\ \A i \in DOMAIN command.fill :
           i # 1 => i - 1 \in DOMAIN rest /\ rest[i - 1] = command.fill[i]
  BY <1>1, <1>2, FillRest
<1> HIDE DEF rest
<1>4. /\ w.record \in DOMAIN table /\ w.task \in FeishuTasks
      /\ table[w.record] = Feishu!Blank /\ w.task \notin Elements(command.create)
      /\ Pending(w.task)
  BY <1>1, <1>2, <1>3, CommandParts DEF WriteInv, Pending, Filled
<1>5. CASE UNCHANGED table /\ command' = Feishu!InitFails
  <2>1. Feishu!KeepsRows /\ (Short => \A t \in FeishuTasks : OneRow(t))'
    BY <1>5, SameTable
  <2>2. table' \in Seq(FeishuTasks \cup {Feishu!Blank})
    BY <1>2, <1>5 DEF CommandTypes
  <2> QED
    BY <1>1, <1>5, <2>1, <2>2, FailsKeeps
<1>6. CASE /\ table' = [table EXCEPT ![w.record] = w.task]
           /\ command' \in {[command EXCEPT !.fill = rest], Feishu!InitFails}
  <2>1. PICK r \in DOMAIN table, t \in FeishuTasks : r = w.record /\ t = w.task
    BY <1>4
  <2>2. /\ table' \in Seq(FeishuTasks \cup {Feishu!Blank})
        /\ DOMAIN table' = DOMAIN table /\ Len(table') = Len(table)
        /\ \A i \in DOMAIN table : table'[i] = IF i = r THEN t ELSE table[i]
        /\ Feishu!RowsOf(t)' = Feishu!RowsOf(t) \cup {r}
        /\ \A u \in FeishuTasks \ {t} : Feishu!RowsOf(u)' = Feishu!RowsOf(u)
        /\ Feishu!KeepsRows
    <3>1. table' = [table EXCEPT ![r] = t] /\ table[r] \in {Feishu!Blank, t}
      BY <1>4, <1>6, <2>1
    <3> QED
      BY <1>2, <3>1, RecordWritten
  <2>3. Short' = Short /\ (Short => ~HasRow(t))
    BY <1>1, <1>2, <1>4, <2>1, <2>2 DEF Short, WriteInv
  <2>4. Short' => \A u \in FeishuTasks : OneRow(u)'
    <3> SUFFICES ASSUME Short, NEW u \in FeishuTasks
                 PROVE  OneRow(u)'
      BY <2>3
    <3>1. CASE u = t
      BY <2>2, <2>3, <3>1 DEF OneRow, HasRow
    <3>2. CASE u # t
      BY <1>2, <2>2, <3>2 DEF OneRow
    <3> QED
      BY <3>1, <3>2
  <2>5. CASE command' = Feishu!InitFails
    BY <1>1, <2>2, <2>4, <2>5, FailsKeeps
  <2>6. CASE command' = [command EXCEPT !.fill = rest]
    <3>1. command \in FeishuCommands /\ DistinctSeq(command.rows)
      BY <1>2 DEF CommandTypes
    <3>2. /\ command' \in FeishuCommands /\ command'.pc = "write" /\ command'.op = "init"
          /\ command'.rows = command.rows /\ command'.fill = rest
          /\ command'.create = command.create
      BY <1>1, <1>3, <2>6, <3>1 DEF FeishuCommands
    <3>3. CommandTypes'
      BY <1>1, <1>2, <2>2, <3>2 DEF CommandTypes
    <3>4. \A i \in DOMAIN rest :
            /\ rest[i].record # r /\ rest[i].task # t
            /\ rest[i].record \in DOMAIN table /\ table[rest[i].record] = Feishu!Blank
            /\ rest[i].task \notin Elements(command.create)
      BY <1>1, <1>2, <1>3, <2>1 DEF WriteInv
    <3>5. \A i, j \in DOMAIN rest :
            rest[i].record = rest[j].record \/ rest[i].task = rest[j].task => i = j
      <4> TAKE i, j \in DOMAIN rest
      <4> HAVE rest[i].record = rest[j].record \/ rest[i].task = rest[j].task
      <4>1. i + 1 = j + 1
        BY <1>2, <1>3 DEF WriteInv
      <4>2. i \in Nat /\ j \in Nat
        BY <1>3, LenProperties
      <4> QED
        BY <4>1, <4>2
    <3>6. \A u \in FeishuTasks : /\ Pending(u)' => Pending(u) /\ u # t
                                 /\ Pending(u) => Pending(u)' \/ u = t
      <4> TAKE u \in FeishuTasks
      <4>1. Filled(u)' <=> \E i \in DOMAIN rest : rest[i].task = u
        BY <3>2 DEF Filled
      <4>2. Filled(u)' => Filled(u) /\ u # t
        BY <1>3, <3>4, <4>1 DEF Filled
      <4>3. Filled(u) => Filled(u)' \/ u = t
        BY <1>3, <2>1, <4>1 DEF Filled
      <4>4. t \notin Elements(command.create)
        BY <1>4, <2>1
      <4> QED
        BY <3>2, <4>2, <4>3, <4>4 DEF Pending
    <3>7. WriteInv'
      <4>1. \A i \in DOMAIN rest : /\ rest[i].record \in DOMAIN table'
                                   /\ table'[rest[i].record] = Feishu!Blank
        BY <2>2, <3>4
      <4>2. Short' => \A u \in FeishuTasks : Pending(u)' => ~HasRow(u)'
        BY <1>1, <1>2, <2>2, <2>3, <3>6 DEF WriteInv, HasRow
      <4>3. DistinctSeq(command.create)
        BY <1>2 DEF WriteInv
      <4> QED
        BY <3>2, <3>4, <3>5, <4>1, <4>2, <4>3 DEF WriteInv
    <3>8. \A u \in Elements(command.rows) : HasRow(u)' \/ Pending(u)'
      <4> TAKE u \in Elements(command.rows)
      <4>1. u \in FeishuTasks /\ (HasRow(u) \/ Pending(u))
        BY <1>1, <1>2, CommandParts DEF CommandInv, Elements
      <4> QED
        BY <2>2, <3>6, <4>1 DEF HasRow
    <3> QED
      BY <2>2, <2>4, <3>2, <3>3, <3>7, <3>8 DEF CommandInv
  <2> QED
    BY <1>6, <2>2, <2>5, <2>6
<1> QED
  BY <1>1, <1>3, <1>5, <1>6

\* sync-feishu writes a row into the record that has it.
LEMMA FillSyncKeeps ==
  ASSUME FeishuConstants, CommandInv, Feishu!FillSync
  PROVE  CommandInv' /\ Feishu!KeepsRows
<1> DEFINE w == command.fill[1]
           rest == Tail(command.fill)
<1>1. /\ command.pc = "write" /\ command.op = "sync" /\ command.fill # <<>>
      /\ UNCHANGED <<mode, call>> /\ command' = [command EXCEPT !.fill = rest]
      /\ \/ table' = [table EXCEPT ![Head(command.fill).record] = Head(command.fill).task]
         \/ UNCHANGED table
  BY DEF Feishu!FillSync, Feishu!Fills, Feishu!Sends, Feishu!besideCommands
<1>2. CommandTypes /\ WriteInv
  BY <1>1 DEF CommandInv
<1>3. /\ 1 \in DOMAIN command.fill /\ Head(command.fill) = w
      /\ rest \in Seq(FeishuFills)
      /\ \A i \in DOMAIN rest : i + 1 \in DOMAIN command.fill /\ i + 1 # 1
                                /\ rest[i] = command.fill[i + 1]
  BY <1>1, <1>2, FillRest
<1> HIDE DEF rest
<1>4. UNCHANGED table
  <2>1. w.record \in DOMAIN table /\ table[w.record] = w.task
    BY <1>1, <1>2, <1>3 DEF WriteInv
  <2>2. table = [i \in DOMAIN table |-> table[i]]
    BY <1>2 DEF CommandTypes
  <2> QED
    BY <1>1, <1>3, <2>1, <2>2
<1>5. Feishu!KeepsRows /\ (Short => \A t \in FeishuTasks : OneRow(t))'
  BY <1>4, SameTable
<1>6. command \in FeishuCommands /\ DistinctSeq(command.rows) /\ command.create = <<>>
  BY <1>1, <1>2 DEF CommandTypes
<1>7. /\ command' \in FeishuCommands /\ command'.pc = "write" /\ command'.op = "sync"
      /\ command'.rows = command.rows /\ command'.fill = rest
      /\ command'.create = <<>>
  BY <1>1, <1>3, <1>6 DEF FeishuCommands
<1>8. CommandTypes'
  BY <1>1, <1>2, <1>4, <1>6, <1>7 DEF CommandTypes
<1>9. WriteInv'
  <2>1. \A i \in DOMAIN rest :
          rest[i].record \in DOMAIN table /\ table[rest[i].record] = rest[i].task
    BY <1>1, <1>2, <1>3 DEF WriteInv
  <2>2. \A i, j \in DOMAIN rest :
          rest[i].record = rest[j].record \/ rest[i].task = rest[j].task => i = j
    <3> TAKE i, j \in DOMAIN rest
    <3> HAVE rest[i].record = rest[j].record \/ rest[i].task = rest[j].task
    <3>1. i + 1 = j + 1
      BY <1>2, <1>3 DEF WriteInv
    <3>2. i \in Nat /\ j \in Nat
      BY <1>3, LenProperties
    <3> QED
      BY <3>1, <3>2
  <2>3. DOMAIN <<>> = {}
    OBVIOUS
  <2> QED
    BY <1>4, <1>7, <2>1, <2>2, <2>3 DEF WriteInv, Elements, DistinctSeq
<1> QED
  BY <1>5, <1>7, <1>8, <1>9 DEF CommandInv

\* init-feishu creates a batch of rows for tasks that have none.
LEMMA CreateBatchKeeps ==
  ASSUME FeishuConstants, CommandInv, Feishu!CreateBatch
  PROVE  CommandInv' /\ Feishu!KeepsRows
<1> DEFINE rows == command.create
           size == IF Len(rows) < ListLimit THEN Len(rows) ELSE ListLimit
           batch == SubSeq(rows, 1, size)
           rest == SubSeq(rows, size + 1, Len(rows))
           n == Len(table)
<1>1. /\ command.pc = "write" /\ command.fill = <<>> /\ rows # <<>>
      /\ UNCHANGED <<mode, call>>
      /\ \/ /\ table' = table \o batch
            /\ command' \in {[command EXCEPT !.create = rest], Feishu!InitFails}
         \/ UNCHANGED table /\ command' = Feishu!InitFails
  BY DEF Feishu!CreateBatch, Feishu!Sends, Feishu!besideCommands
<1>2. CommandTypes /\ WriteInv /\ (Short => \A t \in FeishuTasks : OneRow(t))
  BY <1>1 DEF CommandInv
<1>3. /\ rows \in Seq(FeishuTasks) /\ Len(rows) \in Nat /\ DOMAIN rows = 1..Len(rows)
      /\ \A i \in 1..Len(rows) : rows[i] \in FeishuTasks
      /\ table \in Seq(FeishuTasks \cup {Feishu!Blank}) /\ n \in Nat /\ DOMAIN table = 1..n
      /\ size \in Nat /\ size <= Len(rows)
  BY <1>2, CommandParts DEF FeishuConstants
<1> HIDE DEF size
<1>4. /\ batch \in Seq(FeishuTasks) /\ Len(batch) = size
      /\ \A i \in 1..size : batch[i] = rows[i]
  <2>1. \A i \in 1..size : rows[i] \in FeishuTasks
    BY <1>3
  <2>2. /\ batch \in Seq(FeishuTasks) /\ Len(batch) = IF 1 <= size THEN size - 1 + 1 ELSE 0
        /\ \A i \in 1..size - 1 + 1 : batch[i] = rows[1 + i - 1]
    BY <1>3, <2>1, SubSeqProperties
  <2> HIDE DEF batch, rest
  <2>3. Len(batch) = size
    BY <1>3, <2>2
  <2>4. \A i \in 1..size : i \in 1..size - 1 + 1 /\ 1 + i - 1 = i
    BY <1>3
  <2> QED
    BY <2>2, <2>3, <2>4
<1>5. /\ rest \in Seq(FeishuTasks) /\ DOMAIN rest = 1..(Len(rows) - size)
      /\ \A i \in 1..(Len(rows) - size) : rest[i] = rows[size + i]
  <2>1. \A i \in size + 1..Len(rows) : rows[i] \in FeishuTasks
    BY <1>3
  <2>2. /\ rest \in Seq(FeishuTasks)
        /\ Len(rest) = IF size + 1 <= Len(rows) THEN Len(rows) - (size + 1) + 1 ELSE 0
        /\ \A i \in 1..Len(rows) - (size + 1) + 1 : rest[i] = rows[size + 1 + i - 1]
    BY <1>3, <2>1, SubSeqProperties
  <2> HIDE DEF batch, rest
  <2>3. Len(rest) = Len(rows) - size
    BY <1>3, <2>2
  <2>4. DOMAIN rest = 1..(Len(rows) - size)
    BY <2>2, <2>3, LenProperties
  <2>5. \A i \in 1..(Len(rows) - size) :
          i \in 1..Len(rows) - (size + 1) + 1 /\ size + 1 + i - 1 = size + i
    BY <1>3
  <2> QED
    BY <2>2, <2>4, <2>5
<1> HIDE DEF batch, rest, n
<1>6. CASE UNCHANGED table /\ command' = Feishu!InitFails
  <2>1. Feishu!KeepsRows /\ (Short => \A t \in FeishuTasks : OneRow(t))'
    BY <1>6, SameTable
  <2>2. table' \in Seq(FeishuTasks \cup {Feishu!Blank})
    BY <1>3, <1>6
  <2> QED
    BY <1>1, <1>6, <2>1, <2>2, FailsKeeps
<1>7. CASE /\ table' = table \o batch
           /\ command' \in {[command EXCEPT !.create = rest], Feishu!InitFails}
  <2>1. /\ table' \in Seq(FeishuTasks \cup {Feishu!Blank}) /\ Len(table') = n + size
        /\ \A i \in 1..n + size : table'[i] = IF i <= n THEN table[i] ELSE batch[i - n]
    <3>1. PICK S : S = FeishuTasks \cup {Feishu!Blank}
      OBVIOUS
    <3>2. batch \in Seq(S) /\ table \in Seq(S)
      BY <1>3, <1>4, <3>1
    <3>3. /\ table \o batch \in Seq(S) /\ Len(table \o batch) = Len(table) + Len(batch)
          /\ \A i \in 1..Len(table) + Len(batch) :
               (table \o batch)[i] = IF i <= Len(table) THEN table[i] ELSE batch[i - Len(table)]
      BY <3>2, ConcatProperties
    <3>4. Len(table) = n /\ Len(batch) = size /\ table' = table \o batch
      BY <1>4, <1>7 DEF n
    <3>5. PICK s : s = table \o batch
      OBVIOUS
    <3>6. /\ s \in Seq(S) /\ Len(s) = n + size
          /\ \A i \in 1..n + size : s[i] = IF i <= n THEN table[i] ELSE batch[i - n]
      BY <3>3, <3>4, <3>5
    <3>7. table' = s
      BY <3>4, <3>5
    <3> QED
      BY <3>1, <3>6, <3>7
  <2>2. /\ DOMAIN table' = 1..(n + size)
        /\ \A i \in 1..n : i \in DOMAIN table' /\ table'[i] = table[i]
        /\ \A i \in 1..size : n + i \in DOMAIN table' /\ table'[n + i] = rows[i]
        /\ \A i \in DOMAIN table' : i \in 1..n \/ (i - n \in 1..size /\ i = n + (i - n))
    <3>1. DOMAIN table' = 1..(n + size)
      BY <2>1, LenProperties
    <3>2. \A i \in 1..n : i \in 1..n + size /\ i <= n
      BY <1>3
    <3>3. \A i \in 1..size : n + i \in 1..n + size /\ ~ (n + i <= n) /\ (n + i) - n = i
      BY <1>3
    <3>4. \A i \in 1..n + size : i \in 1..n \/ (i - n \in 1..size /\ i = n + (i - n))
      BY <1>3
    <3>5. \A i \in 1..n : i \in DOMAIN table' /\ table'[i] = table[i]
      BY <2>1, <3>1, <3>2
    <3>6. ASSUME NEW i \in 1..size
          PROVE  n + i \in DOMAIN table' /\ table'[n + i] = rows[i]
      <4>1. n + i \in 1..n + size /\ ~ (n + i <= n) /\ (n + i) - n = i
        BY <3>3
      <4>2. table'[n + i] = batch[i]
        BY <2>1, <4>1
      <4> QED
        BY <1>4, <3>1, <4>1, <4>2
    <3> QED
      BY <3>1, <3>4, <3>5, <3>6
  <2> DEFINE Now(u) == \E i \in 1..size : rows[i] = u
  <2>3. \A u \in FeishuTasks : ~Now(u) => Feishu!RowsOf(u)' = Feishu!RowsOf(u)
    <3> SUFFICES ASSUME NEW u \in FeishuTasks, ~Now(u)
                 PROVE  {i \in DOMAIN table' : table'[i] = u} = {i \in DOMAIN table : table[i] = u}
      BY DEF Feishu!RowsOf, Feishu!Records
    <3>1. \A i \in DOMAIN table : i \in DOMAIN table' /\ table'[i] = table[i]
      BY <1>3, <2>2
    <3>2. ASSUME NEW i \in DOMAIN table', table'[i] = u
          PROVE  i \in DOMAIN table
      BY <1>3, <2>2, <3>2
    <3> QED
      BY <3>1, <3>2
  <2>4. \A u \in FeishuTasks : Now(u) => HasRow(u)'
    BY <2>2 DEF HasRow, Feishu!RowsOf, Feishu!Records
  <2>5. \A u \in FeishuTasks : HasRow(u) => HasRow(u)'
    BY <1>3, <2>2 DEF HasRow, Feishu!RowsOf, Feishu!Records
  <2>6. Feishu!KeepsRows
    BY <1>3, <2>2 DEF Feishu!KeepsRows, Feishu!Records
  <2>7. Short' => Short
    <3>1. Len(table') \in Int /\ n <= Len(table') /\ n \in Int /\ ListLimit \in Int
      BY <1>3, <2>1 DEF FeishuConstants
    <3> QED
      BY <3>1 DEF Short, n
  <2>8. \A u : Pending(u) <=> u \in Elements(rows)
    BY <1>1 DEF Pending, Filled
  <2>9. command.op = "init" /\ DistinctSeq(rows)
    BY <1>1, <1>2 DEF CommandTypes, WriteInv
  <2>10. Short' => \A u \in FeishuTasks : OneRow(u)'
    <3> SUFFICES ASSUME Short, NEW u \in FeishuTasks
                 PROVE  OneRow(u)'
      BY <2>7
    <3>1. CASE ~Now(u)
      BY <1>2, <2>3, <3>1 DEF OneRow
    <3>2. CASE Now(u)
      <4>1. ~HasRow(u)
        <5>1. \E i \in 1..Len(rows) : rows[i] = u
          BY <1>3, <3>2
        <5> QED
          BY <1>2, <1>3, <2>8, <2>9, <5>1 DEF WriteInv, Elements
      <4>2. \A i \in DOMAIN table' :
              table'[i] = u => i - n \in 1..size /\ rows[i - n] = u /\ i = n + (i - n)
        <5>1. \A i \in 1..n : table[i] # u
          BY <1>3, <4>1 DEF HasRow, Feishu!RowsOf, Feishu!Records
        <5> SUFFICES ASSUME NEW i \in DOMAIN table', table'[i] = u
                     PROVE  i - n \in 1..size /\ rows[i - n] = u /\ i = n + (i - n)
          OBVIOUS
        <5>2. i \notin 1..n
          BY <2>2, <5>1
        <5>3. i - n \in 1..size /\ i = n + (i - n)
          BY <2>2, <5>2
        <5>4. table'[n + (i - n)] = rows[i - n]
          BY <2>2, <5>3
        <5> QED
          BY <5>3, <5>4
      <4>3. \A i, j \in 1..size : rows[i] = u /\ rows[j] = u => i = j
        BY <1>3, <2>9 DEF DistinctSeq
      <4>4. ASSUME NEW i \in DOMAIN table', NEW j \in DOMAIN table', table'[i] = u, table'[j] = u
            PROVE  i = j
        <5>1. /\ i - n \in 1..size /\ j - n \in 1..size /\ rows[i - n] = u /\ rows[j - n] = u
              /\ i = n + (i - n) /\ j = n + (j - n)
          BY <4>2, <4>4
        <5>2. i - n = j - n
          BY <4>3, <5>1
        <5> QED
          BY <5>1, <5>2
      <4> QED
        BY <4>4 DEF OneRow, Feishu!RowsOf, Feishu!Records
    <3> QED
      BY <3>1, <3>2
  <2>11. CASE command' = Feishu!InitFails
    BY <1>1, <2>1, <2>6, <2>10, <2>11, FailsKeeps
  <2>12. CASE command' = [command EXCEPT !.create = rest]
    <3>1. command \in FeishuCommands /\ DistinctSeq(command.rows)
      BY <1>2 DEF CommandTypes
    <3>2. /\ command' \in FeishuCommands /\ command'.pc = "write" /\ command'.op = "init"
          /\ command'.rows = command.rows /\ command'.fill = <<>>
          /\ command'.create = rest
      BY <1>1, <1>5, <2>9, <2>12, <3>1 DEF FeishuCommands
    <3>3. CommandTypes'
      BY <1>1, <1>2, <2>1, <3>1, <3>2 DEF CommandTypes
    <3>4. \A u : Pending(u)' <=> u \in Elements(rest)
      BY <3>2 DEF Pending, Filled
    <3>5. /\ \A i \in 1..(Len(rows) - size) : size + i \in 1..Len(rows) /\ size + i \notin 1..size
          /\ \A i, j \in 1..(Len(rows) - size) : size + i = size + j => i = j
          /\ \A i \in 1..Len(rows) :
               i \in 1..size \/ (i - size \in 1..(Len(rows) - size) /\ size + (i - size) = i)
          /\ \A i \in 1..size : i \in 1..Len(rows)
      BY <1>3
    <3>6. DistinctSeq(rest)
      <4>1. ASSUME NEW i \in 1..(Len(rows) - size), NEW j \in 1..(Len(rows) - size),
                   rest[i] = rest[j]
            PROVE  i = j
        <5>1. rows[size + i] = rows[size + j]
          BY <1>5, <4>1
        <5>2. size + i = size + j
          BY <1>3, <2>9, <3>5, <5>1 DEF DistinctSeq
        <5> QED
          BY <3>5, <5>2
      <4> QED
        BY <1>5, <4>1 DEF DistinctSeq
    <3>7. \A u : u \in Elements(rest) => u \in Elements(rows) /\ ~Now(u)
      <4> SUFFICES ASSUME NEW i \in 1..(Len(rows) - size)
                   PROVE  rest[i] \in Elements(rows) /\ ~Now(rest[i])
        BY <1>5 DEF Elements
      <4>1. /\ rest[i] = rows[size + i] /\ size + i \in 1..Len(rows)
            /\ size + i \notin 1..size
        BY <1>5, <3>5
      <4>2. \A j \in 1..size : j \in 1..Len(rows) /\ rows[j] # rows[size + i]
        BY <1>3, <2>9, <3>5, <4>1 DEF DistinctSeq
      <4> QED
        BY <1>3, <4>1, <4>2 DEF Elements
    <3>8. \A u : u \in Elements(rows) => u \in Elements(rest) \/ Now(u)
      BY <1>3, <1>5, <3>5 DEF Elements
    <3> HIDE DEF Now
    <3>9. WriteInv'
      <4>1. Short' => \A u \in FeishuTasks : Pending(u)' => ~HasRow(u)'
        BY <1>2, <2>3, <2>7, <2>8, <2>9, <3>4, <3>7 DEF WriteInv, HasRow
      <4> QED
        BY <3>2, <3>6, <4>1 DEF WriteInv
    <3>10. \A u \in Elements(command.rows) : HasRow(u)' \/ Pending(u)'
      <4> TAKE u \in Elements(command.rows)
      <4>1. u \in FeishuTasks /\ (HasRow(u) \/ Pending(u))
        BY <1>1, <1>2, <2>9, CommandParts DEF CommandInv, Elements
      <4> QED
        BY <2>4, <2>5, <2>8, <3>4, <3>8, <4>1
    <3> QED
      BY <2>6, <2>10, <3>2, <3>3, <3>9, <3>10 DEF CommandInv
  <2> QED
    BY <1>7, <2>6, <2>11, <2>12
<1> QED
  BY <1>1, <1>6, <1>7

\* A command that has nothing left to write reports success.
LEMMA CommandEndKeeps ==
  ASSUME FeishuConstants, CommandInv, Feishu!CommandEnd
  PROVE  CommandInv' /\ Feishu!KeepsRows
<1>1. /\ command.pc = "write" /\ command.fill = <<>> /\ command.create = <<>>
      /\ UNCHANGED <<mode, call, table>> /\ command' = [command EXCEPT !.pc = "ok"]
  BY DEF Feishu!CommandEnd, Feishu!besideCommands
<1>2. command \in FeishuCommands /\ DistinctSeq(command.rows)
  BY DEF CommandInv, CommandTypes
<1>3. /\ command' \in FeishuCommands /\ command'.pc = "ok" /\ command'.op = command.op
      /\ command'.rows = command.rows /\ command'.fill = <<>> /\ command'.create = <<>>
  BY <1>1, <1>2 DEF FeishuCommands
<1>4. CommandTypes'
  BY <1>1, <1>2, <1>3 DEF CommandInv, CommandTypes
<1>5. Feishu!KeepsRows /\ (Short => \A t \in FeishuTasks : OneRow(t))'
      /\ \A t : HasRow(t)' = HasRow(t)
  BY <1>1, SameTable
<1>6. \A t : ~Pending(t)
  BY <1>1 DEF Pending, Filled, Elements
<1> QED
  BY <1>1, <1>3, <1>4, <1>5, <1>6 DEF CommandInv

\* People add an empty record.
LEMMA AddBlankKeeps ==
  ASSUME FeishuConstants, CommandInv, Feishu!AddBlank
  PROVE  CommandInv' /\ Feishu!KeepsRows
<1>1. table' = Append(table, Feishu!Blank) /\ UNCHANGED <<mode, call, command>>
  BY DEF Feishu!AddBlank, Feishu!besideTable
<1>2. /\ table \in Seq(FeishuTasks \cup {Feishu!Blank})
      /\ DOMAIN table = 1..Len(table) /\ Len(table) \in Nat
  BY CommandParts DEF CommandInv
<1>3. /\ table' \in Seq(FeishuTasks \cup {Feishu!Blank}) /\ Len(table') = Len(table) + 1
      /\ \A i \in 1..Len(table) : table'[i] = table[i]
      /\ table'[Len(table) + 1] = Feishu!Blank
  BY <1>1, <1>2, AppendProperties
<1>4. /\ DOMAIN table' = 1..(Len(table) + 1)
      /\ \A i \in DOMAIN table : i \in DOMAIN table' /\ table'[i] = table[i]
      /\ \A i \in DOMAIN table' : i \in DOMAIN table \/ table'[i] = Feishu!Blank
  BY <1>2, <1>3, LenProperties
<1>5. \A t \in FeishuTasks : Feishu!RowsOf(t)' = Feishu!RowsOf(t)
  BY <1>4 DEF Feishu!RowsOf, Feishu!Records, FeishuConstants
<1>6. Short' => Short
  BY <1>2, <1>3 DEF Short, FeishuConstants
<1>7. Feishu!KeepsRows
  BY <1>4 DEF Feishu!KeepsRows, Feishu!Records
<1>8. CommandTypes'
  BY <1>1, <1>3 DEF CommandInv, CommandTypes
<1>9. \A t : Pending(t)' = Pending(t)
  BY <1>1 DEF Pending, Filled
<1>10. WriteInv => WriteInv'
  <2> SUFFICES ASSUME WriteInv
               PROVE  WriteInv'
    OBVIOUS
  <2>1. \A i \in DOMAIN command.fill :
          /\ command.fill[i].record \in DOMAIN table'
          /\ table'[command.fill[i].record] = table[command.fill[i].record]
    BY <1>4 DEF WriteInv
  <2>2. command.op = "init" /\ Short' => \A t \in FeishuTasks : Pending(t)' => ~HasRow(t)'
    BY <1>5, <1>6, <1>9 DEF WriteInv, HasRow
  <2> QED
    BY <1>1, <2>1, <2>2 DEF WriteInv
<1>11. \A t \in Elements(command.rows) : t \in FeishuTasks
  BY CommandParts DEF CommandInv, Elements
<1> QED
  BY <1>1, <1>5, <1>6, <1>7, <1>8, <1>9, <1>10, <1>11 DEF CommandInv, OneRow, HasRow

\* Each step of a command keeps what it knows of the table.
LEMMA TableCommandStep ==
  ASSUME FeishuConstants, CommandInv, [Feishu!Next]_Feishu!vars
  PROVE  CommandInv' /\ Feishu!KeepsRows
<1>1. mode = "commands" /\ \A p \in FeishuThreads : call[p].pc = "idle"
  BY DEF CommandInv, CommandTypes
<1>2. CASE Feishu!InitBegin \/ Feishu!SyncBegin \/ Feishu!LoopRound
  <2>1. /\ SUBSET FeishuTasks \ {{}} \in SUBSET (SUBSET FeishuTasks)
        /\ {FeishuTasks} \in SUBSET (SUBSET FeishuTasks)
    OBVIOUS
  <2> QED
    BY <1>2, <2>1, BeginKeeps DEF Feishu!InitBegin, Feishu!SyncBegin, Feishu!LoopRound
<1>3. CASE Feishu!ReadMap \/ Feishu!ReadBlanks
  BY <1>3, ReadMapKeeps, ReadBlanksKeeps
<1>4. CASE Feishu!FillInit \/ Feishu!FillSync
  BY <1>4, FillInitKeeps, FillSyncKeeps
<1>5. CASE Feishu!CreateBatch \/ Feishu!CommandEnd
  BY <1>5, CreateBatchKeeps, CommandEndKeeps
<1>6. CASE Feishu!AddBlank
  BY <1>6, AddBlankKeeps
<1>7. \A p \in FeishuThreads :
        ~ (Feishu!Applied(p) \/ Feishu!Answered(p) \/ Feishu!Failed(p)
           \/ \E t \in FeishuTasks : Feishu!Render(p, t))
  BY <1>1 DEF Feishu!Applied, Feishu!Answered, Feishu!Failed, Feishu!Render
<1>8. ~ (Feishu!Tick \/ Feishu!Restart \/ Feishu!DeleteRow)
  BY <1>1 DEF Feishu!Tick, Feishu!Restart, Feishu!DeleteRow
<1>9. CASE UNCHANGED Feishu!vars
  <2>1. UNCHANGED <<mode, table, call, command>>
    BY <1>9 DEF Feishu!vars
  <2> QED
    BY <2>1 DEF CommandInv, CommandTypes, Short, OneRow, HasRow, WriteInv, Pending, Filled,
                Feishu!RowsOf, Feishu!Records, Feishu!KeepsRows
<1> QED
  BY <1>2, <1>3, <1>4, <1>5, <1>6, <1>7, <1>8, <1>9 DEF Feishu!Next

\* The table has one kind of writer.
FeishuInv == SinkInv \/ CommandInv

\* Who writes is decided at the start.
LEMMA FeishuHolds ==
  ASSUME FeishuConstants
  PROVE  /\ Init => (kind = "feishu" => FeishuInv)
         /\ (kind = "feishu" => FeishuInv) /\ [Next]_vars =>
              (kind = "feishu" => FeishuInv)' /\ (kind = "feishu" => Feishu!KeepsRows)
<1>1. ASSUME Feishu!Init
      PROVE  FeishuInv
  <2>1. mode \in {"server", "commands"}
    BY <1>1 DEF Feishu!Init, FeishuConstants
  <2> QED
    BY <1>1, <2>1, SinkInit, CommandInit DEF FeishuInv
<1>2. ASSUME FeishuInv, [Feishu!Next]_Feishu!vars
      PROVE  FeishuInv' /\ Feishu!KeepsRows
  BY <1>2, SinkStep, TableCommandStep DEF FeishuInv
<1>3. Init => (kind = "feishu" => FeishuInv)
  BY <1>1, OneBegins
<1>4. ASSUME kind = "feishu" => FeishuInv, [Next]_vars
      PROVE  (kind = "feishu" => FeishuInv)' /\ (kind = "feishu" => Feishu!KeepsRows)
  <2>1. UNCHANGED kind /\ (kind = "feishu" => [Feishu!Next]_Feishu!vars)
    BY <1>4, OneActs
  <2> QED
    BY <1>2, <1>4, <2>1
<1> QED
  BY <1>3, <1>4

\* OneRowPerTask: whatever threads of the server publish at once, however calls of the
\* sink and commands fail half-way, and whatever is repeated: no task has two rows,
\* unless the sink missed an answer or the table is longer than a list.
THEOREM NoTaskHasTwoRows ==
  ASSUME FeishuConstants
  PROVE  Spec => []OneRowPerTask
<1>1. FeishuInv => Feishu!OneRowPerTask
  <2> SUFFICES ASSUME FeishuInv, Feishu!Complete, NEW t \in FeishuTasks \ lost
               PROVE  Feishu!Cardinality(Feishu!RowsOf(t)) <= 1
    BY DEF Feishu!OneRowPerTask
  <2>1. OneRow(t)
    <3>1. CASE SinkInv
      BY <3>1, SinkKeepsOneRow
    <3>2. CASE CommandInv
      BY <3>2 DEF CommandInv, CommandTypes, Feishu!Complete, Short
    <3> QED
      BY <3>1, <3>2 DEF FeishuInv
  <2> QED
    BY <2>1, CountedRows
<1>2. (kind = "feishu" => FeishuInv) => OneRowPerTask
  BY <1>1 DEF OneRowPerTask
<1> QED
  BY <1>2, FeishuHolds, PTL DEF Spec

\* InitCompletes: an init-feishu that reports success leaves each task of its snapshot
\* one row, although it reuses blank records, creates the others in batches, and
\* earlier ones have failed half-way.
THEOREM InitLeavesRows ==
  ASSUME FeishuConstants
  PROVE  Spec => []InitCompletes
<1>1. FeishuInv => Feishu!InitCompletes
  <2> SUFFICES ASSUME FeishuInv, command.pc = "ok", command.op = "init", Feishu!Complete,
                      NEW i \in DOMAIN command.rows
               PROVE  Feishu!Cardinality(Feishu!RowsOf(command.rows[i])) = 1
    BY DEF Feishu!InitCompletes
  <2>1. CommandInv
    BY DEF FeishuInv, SinkInv, SinkTypes
  <2>2. Short
    BY <2>1 DEF CommandInv, CommandTypes, Feishu!Complete, Short
  <2>3. command.rows[i] \in FeishuTasks /\ command.rows[i] \in Elements(command.rows)
    BY <2>1, CommandParts DEF CommandInv, Elements
  <2>4. OneRow(command.rows[i]) /\ HasRow(command.rows[i])
    BY <2>1, <2>2, <2>3 DEF CommandInv
  <2> QED
    BY <2>4, CountedRows
<1>2. (kind = "feishu" => FeishuInv) => InitCompletes
  BY <1>1 DEF InitCompletes
<1> QED
  BY <1>2, FeishuHolds, PTL DEF Spec

\* RowsKept: neither the sink nor a command ever writes a task into a record that holds
\* another.
THEOREM RecordsAreKept ==
  ASSUME FeishuConstants
  PROVE  Spec => RowsKept
BY FeishuHolds, PTL DEF Spec, RowsKept
==============================================================================
