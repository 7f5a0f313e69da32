-------------------------- MODULE RetirementProofs --------------------------
(***************************************************************************)
(* Proofs about retire() and the two things it takes back, the row of a    *)
(* worker and the lease of its GPU, for any number of threads that retire, *)
(* dispatch and delete at once: an active task always has a live row, one  *)
(* retirement of a task is under way at a time, and until the server is    *)
(* restarted a live row holds the lease of its GPU.                        *)
(***************************************************************************)
EXTENDS FlotillaProofs

-----------------------------------------------------------------------------
(* Rows and the tasks they belong to                                       *)

\* The places of retire() once the worker row has been read.
LatePcs == {"stop", "evaluate", "commit", "release", "leave"}

\* The id of a claim that is not activated yet has no row.
JobRowless == \A t \in Tasks : job[t].w # None => rowTask[job[t].w] = None

\* A row that has ended belongs to a task that is settled.
EndedSettled ==
  \A w \in Workers : rowTask[w] # None /\ w \notin live => task[rowTask[w]] \in Terminal

\* What retire() remembers as already_terminal stays true of the row it is
\* about to end, and that row is not the one of a dispatch under way.
DoneSettled ==
  \A p \in Threads : th[p].done =>
    /\ th[p].pc \in LatePcs
    /\ th[p].w \in Workers /\ job[th[p].t].w # th[p].w
    /\ th[p].w \in live => task[rowTask[th[p].w]] \in Terminal

RowsInv == TypeInv /\ OneLiveRow /\ JobRowless /\ EndedSettled /\ DoneSettled

-----------------------------------------------------------------------------
(* How the tables can change                                               *)

\* Nothing brings a settled task back; its record can only be deleted.
LEMMA SettledStays ==
  ASSUME TypeInv, [Next]_vars, NEW t \in Tasks, task[t] \in Terminal
  PROVE  task'[t] \in Terminal \/ DeleteTask(t)
<1>0. task \in [Tasks -> STATES \cup {Absent}] /\ queue \in Seq(Tasks)
  BY DEF TypeInv, FlotillaTypeOK, StoreTypeOK
<1>1. ASSUME UNCHANGED storeVars PROVE task'[t] \in Terminal
  BY <1>1 DEF storeVars
<1>2. ASSUME NEW b \in Batches, NEW place, CreateTasks(b, place) PROVE task'[t] \in Terminal
  <2>1. t \notin ToSet(b)
    BY <1>2 DEF CreateTasks, ToSet, Terminal, Absent
  <2> QED BY <1>2, <2>1 DEF CreateTasks
<1>3. ASSUME ClaimQueuedTasks PROVE task'[t] \in Terminal
  <2>1. t \notin Claimed
    BY <1>0, <1>3, ClaimedFacts DEF TypeInv, FlotillaTypeOK, ClaimQueuedTasks, Terminal
  <2> QED BY <1>3, <2>1 DEF ClaimQueuedTasks
<1>4. ASSUME NEW S \in SUBSET Tasks, MarkStaleDispatchingLost(S) PROVE task'[t] \in Terminal
  BY <1>4 DEF MarkStaleDispatchingLost, Terminal
<1>5. ASSUME NEW u \in Tasks, NEW c \in SetCalls, SetTaskState(u, c[1], c[2]) PROVE task'[t] \in Terminal
  <2>1. c[2] \cap Terminal = {}
    BY DEF SetCalls, Terminal
  <2> QED BY <1>0, <1>5, <2>1 DEF SetTaskState, PutState
<1>6. ASSUME NEW u \in Tasks, NEW w, ActivateWorker(u, w) PROVE task'[t] \in Terminal
  BY <1>0, <1>6 DEF ActivateWorker, PutState, Terminal
<1>7. ASSUME NEW u \in Tasks, NEW w, NEW s \in Terminal, FinishWorker(u, w, s) PROVE task'[t] \in Terminal
  BY <1>0, <1>7 DEF FinishWorker, PutState
<1>8. ASSUME NEW w, EndWorker(w) PROVE task'[t] \in Terminal
  BY <1>8 DEF EndWorker
<1>9. ASSUME NEW u \in Tasks, DeleteTask(u) PROVE task'[t] \in Terminal \/ DeleteTask(t)
  BY <1>0, <1>9 DEF DeleteTask
<1> QED BY <1>1, <1>2, <1>3, <1>4, <1>5, <1>6, <1>7, <1>8, <1>9, TableStep

\* A row becomes live only by the activation of the claim that has its id.
LEMMA LiveOrigin ==
  ASSUME TypeInv, [Next]_vars, NEW w \in live', w \notin live
  PROVE  \E t \in Tasks : Activate(t) /\ ActivateWorker(t, w) /\ w = job[t].w
<1>1. ASSUME NEW t \in Tasks, NEW c \in SetCalls, SetTaskState(t, c[1], c[2]) PROVE w \in live
  BY <1>1 DEF SetTaskState
<1>2. ASSUME NEW t \in Tasks, NEW v, NEW s \in Terminal, FinishWorker(t, v, s) PROVE w \in live
  BY <1>2 DEF FinishWorker
<1>3. ASSUME NEW t \in Tasks, DeleteTask(t) PROVE w \in live
  BY <1>3 DEF DeleteTask
<1>4. ASSUME NEW t \in Tasks, ActivateWorker(t, job[t].w) PROVE w = job[t].w
  BY <1>4 DEF ActivateWorker
<1>5. ASSUME NEW b, NEW place, CreateTasks(b, place) PROVE w \in live
  BY <1>5 DEF CreateTasks
<1>6. ASSUME NEW S, MarkStaleDispatchingLost(S) PROVE w \in live
  BY <1>6 DEF MarkStaleDispatchingLost
<1> QED BY <1>1, <1>2, <1>3, <1>4, <1>5, <1>6, TableStep DEF storeVars, ClaimQueuedTasks, EndWorker

\* When a row stops being live, its task is settled or the row itself is gone.
LEMMA RowSettles ==
  ASSUME RowsInv, [Next]_vars, NEW w \in live, w \notin live'
  PROVE  rowTask'[w] = None \/ task'[rowTask[w]] \in Terminal
<1>0. /\ task \in [Tasks -> STATES \cup {Absent}] /\ live \subseteq Workers
      /\ rowTask[w] \in Tasks /\ rowTask[w] = home[w] /\ w \in Workers /\ None \notin Workers
      /\ rowTask \in [Workers -> Tasks \cup {None}]
  BY StoreAssumptions DEF RowsInv, OneLiveRow, TypeInv, FlotillaTypeOK, StoreTypeOK, HomesAgree, RowHomes
<1>1. ASSUME NEW t \in Tasks, NEW v, Tied(t, v), NEW s \in Terminal, FinishWorker(t, v, s)
      PROVE  task'[rowTask[w]] \in Terminal
  <2>1. v = w
    BY <1>0, <1>1 DEF FinishWorker
  <2>2. t = rowTask[w]
    BY <1>0, <1>1, <2>1 DEF Tied
  <2> QED BY <1>0, <1>1, <2>2 DEF FinishWorker, PutState
<1>2. ASSUME NEW p \in Threads, th[p].done, EndWorker(th[p].w)
      PROVE  task'[rowTask[w]] \in Terminal
  <2>1. th[p].w = w
    BY <1>0, <1>2 DEF EndWorker
  <2> QED BY <1>0, <1>2, <2>1 DEF EndWorker, RowsInv, DoneSettled
<1>3. ASSUME NEW t \in Tasks, DeleteTask(t) PROVE rowTask'[w] = None
  BY <1>0, <1>3 DEF DeleteTask
<1>4. ASSUME NEW t \in Tasks, NEW c \in SetCalls, SetTaskState(t, c[1], c[2]) PROVE FALSE
  BY <1>4 DEF SetTaskState
<1>5. ASSUME NEW t \in Tasks, ActivateWorker(t, job[t].w) PROVE FALSE
  BY <1>5 DEF ActivateWorker
<1>6. ASSUME NEW b, NEW place, CreateTasks(b, place) PROVE FALSE
  BY <1>6 DEF CreateTasks
<1>7. ASSUME NEW S, MarkStaleDispatchingLost(S) PROVE FALSE
  BY <1>7 DEF MarkStaleDispatchingLost
<1>8. TypeInv
  BY DEF RowsInv
<1> QED BY <1>1, <1>2, <1>3, <1>4, <1>5, <1>6, <1>7, <1>8, TableStep DEF storeVars, ClaimQueuedTasks

-----------------------------------------------------------------------------
(* How the threads can move                                                *)

\* A thread moves by a step of its own, or a crash ends it.
LEMMA ThreadMoves ==
  ASSUME TypeInv, [Next]_vars, NEW p \in Threads
  PROVE  \/ th'[p] = th[p]
         \/ th'[p] = IdleThread
         \/ p \in Requests /\ RequestStep(p)
         \/ p = Observer /\ ObserverItem
         \/ RetireStep(p) \/ ActuateStep(p)
<1>0. th \in [Threads -> ThreadRecord]
  BY DEF TypeInv, FlotillaTypeOK, ControlTypeOK
<1>1. ASSUME NEW q \in Threads, NEW r, Becomes(q, r) PROVE q = p \/ th'[p] = th[p]
  BY <1>0, <1>1 DEF Becomes
<1>2. ASSUME NEW q \in Requests, RequestStep(q) PROVE q = p \/ th'[p] = th[p]
  <2>1. q \in Threads
    BY DEF Threads
  <2> QED BY <1>1, <1>2, <2>1 DEF RequestStep, RequestStop, RequestNudge, RequestDelete, Begin, WorkerPing,
             EraseTask, PingTarget
<1>3. CASE ObserverItem
  BY <1>1, <1>3 DEF ObserverItem, Threads
<1>4. ASSUME NEW q \in Threads, RetireStep(q) \/ ActuateStep(q) PROVE q = p \/ th'[p] = th[p]
  <2>1. CASE RetireStuck(q) \/ RetireEnter(q) \/ RetireRead(q) \/ RetireStop(q) \/ RetireEvaluate(q)
    BY <1>1, <2>1 DEF RetireStuck, RetireEnter, RetireRead, RetireStop, RetireEvaluate, Goto
  <2>2. CASE RetireCommit(q) \/ RetireRelease(q) \/ RetireLeave(q)
    BY <1>1, <2>2 DEF RetireCommit, RetireRelease, RetireLeave, Goto
  <2>3. CASE ActuateStep(q)
    BY <1>1, <2>3 DEF ActuateStep, HaltWorker, VerifyCancelled, NudgeWorker
  <2> QED BY <1>4, <2>1, <2>2, <2>3 DEF RetireStep
<1>5. CASE Crash
  BY <1>5 DEF Crash
<1>6. CASE UNCHANGED vars
  BY <1>6 DEF vars, controlVars
<1> QED BY <1>2, <1>3, <1>4, <1>5, <1>6, Steps, WorkerFrame, DispatchFrame, OtherFrames DEF controlVars

\* The arguments of retire() and what it read stay what they are.
SameArgs(p) ==
  /\ th'[p].op = th[p].op /\ th'[p].t = th[p].t /\ th'[p].w = th[p].w /\ th'[p].h = th[p].h
  /\ th'[p].lock = th[p].lock /\ th'[p].done = th[p].done

\* retire() reads the row and goes on: the task exists, and if it is settled the
\* row is still live.
ReadsOn(p) ==
  LET t == th[p].t
      w == th[p].w
      done == task[t] \in Terminal IN
  /\ RetireRead(p)
  /\ task[t] # Absent /\ (done => w \in live)
  /\ th'[p].op = th[p].op /\ th'[p].t = t /\ th'[p].w = w /\ th'[p].h = th[p].h
  /\ th'[p].term = th[p].term
  /\ th'[p].done = done /\ th'[p].pc = AfterRead(th[p], done)
  /\ th'[p].lock = IF HasRow(w) THEN Gpu[rowTask[w]] ELSE None

\* Between the read and the end of retire() a thread only moves on.
LateStep(p) ==
  /\ th[p].pc \in LatePcs \ {"leave"} /\ th'[p].pc \in LatePcs
  /\ RetireStop(p) \/ RetireEvaluate(p) \/ RetireCommit(p) \/ RetireRelease(p)
  /\ SameArgs(p)

\* How a thread comes to, or moves among, the places after the read.
LEMMA LateMoves ==
  ASSUME TypeInv, [Next]_vars, NEW p \in Threads, th[p].done => th[p].pc \in LatePcs,
         th'[p].pc \in LatePcs \/ th'[p].done
  PROVE  th'[p] = th[p] \/ ReadsOn(p) \/ LateStep(p)
<1>0. th \in [Threads -> ThreadRecord] /\ th[p] \in ThreadRecord
  BY DEF TypeInv, FlotillaTypeOK, ControlTypeOK
<1>1. ASSUME NEW r, Becomes(p, r), r.pc \notin LatePcs, r.done = FALSE PROVE FALSE
  BY <1>0, <1>1 DEF Becomes
<1>2. IdleThread.pc \notin LatePcs /\ IdleThread.done = FALSE
  BY DEF IdleThread, LatePcs
<1>3. ASSUME NEW result, Becomes(p, AfterRetire(p, result)) PROVE FALSE
  <2>1. AfterRetire(p, result).pc \notin LatePcs /\ AfterRetire(p, result).done = FALSE
    BY DEF AfterRetire, IdleThread, LatePcs
  <2> QED BY <1>1, <1>3, <2>1
<1>4. ASSUME RequestStep(p) PROVE FALSE
  <2>1. ASSUME NEW op, NEW t \in Tasks, NEW pc \in {"halt", "paste", "erase"}, Begin(p, op, t, pc) PROVE FALSE
    <3> DEFINE r == [IdleThread EXCEPT !.pc = pc, !.op = op, !.t = t, !.w = handles[t], !.h = handles[t]]
    <3>1. r.pc \notin LatePcs /\ r.done = FALSE
      BY DEF IdleThread, LatePcs
    <3> QED BY <1>1, <2>1, <3>1 DEF Begin
  <2>2. ASSUME NEW t \in Tasks, WorkerPing(p, t) PROVE FALSE
    <3> DEFINE r == [IdleThread EXCEPT !.pc = "target", !.op = "ping", !.t = t,
                                       !.term = MapTerminal(status[t], FALSE)]
    <3>1. r.pc \notin LatePcs /\ r.done = FALSE
      BY DEF IdleThread, LatePcs
    <3> QED BY <1>1, <2>2, <3>1 DEF WorkerPing
  <2>3. ~EraseTask(p)
    BY <1>1, <1>2 DEF EraseTask
  <2>4. ASSUME PingTarget(p) PROVE FALSE
    <3> DEFINE r == [th[p] EXCEPT !.pc = IF th[p].term = "STUCK" THEN "stick" ELSE "enter",
                                  !.w = ActiveWorkerId(th[p].t)]
    <3>1. r.pc \notin LatePcs /\ r.done = th[p].done
      BY <1>0 DEF LatePcs, ThreadRecord
    <3>2. th[p].done = FALSE
      BY <1>0, <2>4 DEF PingTarget, At, LatePcs, ThreadRecord
    <3> HIDE DEF r
    <3>3. Becomes(p, r)
      BY <2>4 DEF PingTarget, r
    <3> QED BY <1>1, <3>1, <3>2, <3>3
  <2> QED BY <1>4, <2>1, <2>2, <2>3, <2>4 DEF RequestStep, RequestStop, RequestNudge, RequestDelete
<1>5. ASSUME p = Observer, ObserverItem PROVE FALSE
  <2>1. PICK i, term :
          /\ i \in todo
          /\ Becomes(Observer, IF term = None THEN IdleThread
                               ELSE [IdleThread EXCEPT
                                       !.pc = IF term = "STUCK" THEN "stick" ELSE "enter",
                                       !.op = "observe", !.t = i[1], !.w = i[2], !.term = term])
    BY <1>5 DEF ObserverItem
  <2> DEFINE r == [IdleThread EXCEPT !.pc = IF term = "STUCK" THEN "stick" ELSE "enter",
                                     !.op = "observe", !.t = i[1], !.w = i[2], !.term = term]
  <2>2. r.pc \notin LatePcs /\ r.done = FALSE
    BY DEF IdleThread, LatePcs
  <2>3. Becomes(Observer, IdleThread) \/ Becomes(Observer, r)
    BY <2>1
  <2> HIDE DEF r
  <2> QED BY <1>1, <1>2, <1>5, <2>2, <2>3
<1>6. ASSUME ActuateStep(p) PROVE FALSE
  <2>1. th[p].pc \in {"halt", "verify", "paste"}
    BY <1>6 DEF ActuateStep, HaltWorker, VerifyCancelled, NudgeWorker, At
  <2>2. th[p].done = FALSE
    BY <1>0, <2>1 DEF LatePcs, ThreadRecord
  <2>3. ASSUME NEW pc \in {"enter", "erase"}, NEW r, r.pc = pc, r.done = th[p].done, Becomes(p, r) PROVE FALSE
    BY <1>1, <2>2, <2>3 DEF LatePcs
  <2>4. CASE HaltWorker(p)
    <3> DEFINE r == [th[p] EXCEPT !.pc = "enter", !.term = "CANCELLED", !.h = None]
    <3>1. r.pc = "enter" /\ r.done = th[p].done
      BY <1>0 DEF ThreadRecord
    <3> HIDE DEF r
    <3>2. Becomes(p, IdleThread) \/ Becomes(p, r)
      BY <2>4 DEF HaltWorker, r
    <3> QED BY <1>1, <1>2, <2>3, <3>1, <3>2
  <2>5. CASE VerifyCancelled(p)
    <3> DEFINE r == [th[p] EXCEPT !.pc = "erase"]
    <3>1. r.pc = "erase" /\ r.done = th[p].done
      BY <1>0 DEF ThreadRecord
    <3> HIDE DEF r
    <3>2. Becomes(p, IdleThread) \/ Becomes(p, r)
      BY <2>5 DEF VerifyCancelled, r
    <3> QED BY <1>1, <1>2, <2>3, <3>1, <3>2
  <2>6. CASE NudgeWorker(p)
    BY <1>1, <1>2, <2>6 DEF NudgeWorker
  <2> QED BY <1>6, <2>4, <2>5, <2>6 DEF ActuateStep
<1>7. ASSUME RetireStep(p) PROVE ReadsOn(p) \/ LateStep(p)
  <2>1. ~RetireStuck(p)
    BY <1>1, <1>2 DEF RetireStuck
  <2>2. ASSUME RetireEnter(p) PROVE FALSE
    <3> DEFINE r == [th[p] EXCEPT !.pc = "read", !.h = handles[th[p].t]]
    <3>1. r.pc \notin LatePcs /\ r.done = FALSE
      BY <1>0, <2>2 DEF RetireEnter, At, LatePcs, ThreadRecord
    <3> HIDE DEF r
    <3>2. Becomes(p, AfterRetire(p, None)) \/ Becomes(p, r)
      BY <2>2 DEF RetireEnter, r
    <3> QED BY <1>1, <1>3, <3>1, <3>2
  <2>3. ASSUME RetireRead(p) PROVE ReadsOn(p)
    <3> DEFINE done == task[th[p].t] \in Terminal
               lock == IF HasRow(th[p].w) THEN Gpu[rowTask[th[p].w]] ELSE None
               r == [th[p] EXCEPT !.pc = AfterRead(th[p], done), !.done = done, !.lock = lock]
    <3>1. /\ task[th[p].t] # Absent /\ (done => th[p].w \in live)
          /\ Becomes(p, r)
      BY <1>3, <2>3 DEF RetireRead
    <3> HIDE DEF done, lock
    <3>2. /\ r.op = th[p].op /\ r.t = th[p].t /\ r.w = th[p].w /\ r.h = th[p].h /\ r.term = th[p].term
          /\ r.done = done /\ r.pc = AfterRead(th[p], done) /\ r.lock = lock
      BY <1>0 DEF ThreadRecord
    <3>3. th'[p] = r
      BY <1>0, <3>1 DEF Becomes
    <3> QED BY <2>3, <3>1, <3>2, <3>3 DEF ReadsOn, done, lock
  <2>4. ASSUME NEW pc \in LatePcs, Goto(p, pc) PROVE SameArgs(p) /\ th'[p].pc = pc
    BY <1>0, <2>4 DEF Goto, Becomes, SameArgs, ThreadRecord
  <2>5. CASE RetireStop(p) \/ RetireRelease(p)
    BY <2>4, <2>5 DEF RetireStop, RetireRelease, AfterStop, LateStep, LatePcs, At
  <2>6. CASE RetireEvaluate(p)
    <3>1. PICK verdict : Becomes(p, [th[p] EXCEPT !.pc = "commit", !.term = verdict])
      BY <2>6 DEF RetireEvaluate
    <3>2. SameArgs(p) /\ th'[p].pc = "commit"
      BY <1>0, <3>1 DEF Becomes, SameArgs, ThreadRecord
    <3> QED BY <2>6, <3>2 DEF RetireEvaluate, LateStep, LatePcs, At
  <2>7. CASE RetireCommit(p)
    <3>1. Goto(p, IF th[p].lock = None THEN "leave" ELSE "release")
      BY <1>3, <2>7 DEF RetireCommit
    <3>2. SameArgs(p) /\ th'[p].pc \in LatePcs
      BY <2>4, <3>1 DEF LatePcs
    <3> QED BY <2>7, <3>2 DEF RetireCommit, LateStep, LatePcs, At
  <2>8. ~RetireLeave(p)
    BY <1>3 DEF RetireLeave
  <2> QED BY <1>7, <2>1, <2>2, <2>3, <2>5, <2>6, <2>7, <2>8 DEF RetireStep
<1>8. CASE th'[p] = IdleThread
  BY <1>2, <1>8
<1> QED BY <1>4, <1>5, <1>6, <1>7, <1>8, ThreadMoves

-----------------------------------------------------------------------------
(* Every active task has a live row                                        *)

\* What the parts of the invariant say in the form the proofs need.
LEMMA RowFacts ==
  ASSUME RowsInv
  PROVE  /\ TypeInv /\ StoreTypeOK /\ RuntimesTypeOK /\ ControlTypeOK /\ HomesAgree
         /\ None \notin Tasks /\ None \notin Workers /\ live \subseteq Workers
         /\ \A w \in Workers : rowTask[w] # None => rowTask[w] \in Tasks /\ rowTask[w] = home[w]
         /\ \A w \in live : rowTask[w] # None
         /\ \A t \in Tasks : job[t].w # None => job[t].w \in Workers /\ home[job[t].w] = t
         /\ \A p \in Threads : /\ th[p] \in ThreadRecord
                               /\ th[p].done => th[p].t \in Tasks /\ home[th[p].w] = th[p].t
BY StoreAssumptions
   DEF RowsInv, TypeInv, FlotillaTypeOK, StoreTypeOK, RuntimesTypeOK, ControlTypeOK, HomesAgree, RowHomes, JobHomes,
       ThreadHomes, OneLiveRow, DoneSettled, ThreadArgs, ArgsFit, ThreadRecord, LatePcs, IdleThread

\* Only a claim that has just been resolved brings a new id, and the activation
\* that gives an id its row ends the claim.
LEMMA JobRowlessStep ==
  ASSUME RowsInv, [Next]_vars, TypeInv'
  PROVE  JobRowless'
<1>0. TypeInv /\ JobRowless
  BY DEF RowsInv
<1> SUFFICES ASSUME NEW t \in Tasks, job'[t].w # None, rowTask'[job'[t].w] # None PROVE FALSE
  BY DEF JobRowless
<1>1. job'[t].w \in Workers
  BY DEF TypeInv, FlotillaTypeOK, ControlTypeOK
<1>2. rowTask[job'[t].w] = None
  <2>1. CASE job'[t].w = job[t].w
    BY <1>0, <2>1 DEF JobRowless
  <2>2. CASE Resolve(t) /\ job'[t].w = FreshWorker
    BY <1>0, <1>1, <2>2, FreshWorkerType, RowFacts DEF Resolve
  <2> QED BY <1>0, <2>1, <2>2, JobOrigin
<1>3. PICK u \in Tasks : Activate(u) /\ ActivateWorker(u, job'[t].w) /\ job'[t].w = job[u].w
  BY <1>0, <1>1, <1>2, RowOrigin
<1>4. ASSUME EndJob(u) PROVE FALSE
  <2>1. t # u /\ job'[t] = job[t]
    BY <1>4, RowFacts DEF EndJob, NoJob, ControlTypeOK
  <2> QED BY <1>3, <2>1, RowFacts
<1>5. ASSUME UNCHANGED storeVars PROVE FALSE
  BY <1>2, <1>5 DEF storeVars
<1> QED BY <1>3, <1>4, <1>5 DEF Activate

\* A row ends with its task, and a settled task is not taken up again.
LEMMA EndedSettledStep ==
  ASSUME RowsInv, [Next]_vars
  PROVE  EndedSettled'
<1>0. TypeInv /\ EndedSettled
  BY DEF RowsInv
<1> SUFFICES ASSUME NEW w \in Workers, rowTask'[w] # None, w \notin live'
             PROVE  task'[rowTask'[w]] \in Terminal
  BY DEF EndedSettled
<1>1. ASSUME NEW t \in Tasks, ActivateWorker(t, w) PROVE FALSE
  BY <1>1 DEF ActivateWorker
<1>2. rowTask'[w] = rowTask[w] /\ rowTask[w] \in Tasks
  BY <1>0, <1>1, RowOrigin, RowFacts
<1>3. CASE w \in live
  BY <1>2, <1>3, RowSettles
<1>4. CASE w \notin live
  <2>1. task[rowTask[w]] \in Terminal
    BY <1>0, <1>2, <1>4 DEF EndedSettled
  <2>2. ~DeleteTask(rowTask[w])
    BY <1>2 DEF DeleteTask
  <2> QED BY <1>0, <1>2, <2>1, <2>2, SettledStays
<1> QED BY <1>3, <1>4

\* What already_terminal promises of a row, when the thread itself stands still.
LEMMA DoneKept ==
  ASSUME RowsInv, [Next]_vars, TypeInv', NEW t \in Tasks, NEW w \in Workers, home[w] = t,
         job[t].w # w, w \in live => task[rowTask[w]] \in Terminal
  PROVE  job'[t].w # w /\ (w \in live' => task'[rowTask'[w]] \in Terminal)
<1>0. TypeInv
  BY DEF RowsInv
<1>1. ASSUME job'[t].w = w PROVE FALSE
  BY <1>0, <1>1, JobOrigin, FreshWorkerType, RowFacts DEF Resolve
<1>2. ASSUME w \in live' PROVE task'[rowTask'[w]] \in Terminal
  <2>1. ASSUME NEW u \in Tasks, w = job[u].w PROVE FALSE
    BY <2>1, RowFacts
  <2>2. w \in live
    BY <1>0, <1>2, <2>1, LiveOrigin
  <2>3. rowTask[w] \in Tasks
    BY <2>2, RowFacts
  <2>4. rowTask'[w] = rowTask[w]
    <3>1. rowTask'[w] # None
      BY <1>0, <1>2, StoreStep, RowsStep DEF OneLiveRow, RowsInv, TypeInv, FlotillaTypeOK
    <3> QED BY <1>0, <2>1, <3>1, RowOrigin
  <2>5. ~DeleteTask(rowTask[w])
    BY <1>2 DEF DeleteTask
  <2> QED BY <1>0, <2>2, <2>3, <2>4, <2>5, SettledStays
<1> QED BY <1>1, <1>2

\* retire() reads a settled task and a live row under one mark, and what it remembers
\* of them is still true when it ends the row.
LEMMA DoneSettledStep ==
  ASSUME RowsInv, [Next]_vars, TypeInv'
  PROVE  DoneSettled'
<1>0. TypeInv /\ DoneSettled /\ JobRowless
  BY DEF RowsInv
<1> SUFFICES ASSUME NEW p \in Threads, th'[p].done
             PROVE  /\ th'[p].pc \in LatePcs
                    /\ th'[p].w \in Workers /\ job'[th'[p].t].w # th'[p].w
                    /\ th'[p].w \in live' => task'[rowTask'[th'[p].w]] \in Terminal
  BY DEF DoneSettled
<1>1. th'[p] = th[p] \/ ReadsOn(p) \/ LateStep(p)
  BY <1>0, LateMoves DEF DoneSettled
<1>2. CASE th[p].done
  <2>1. /\ th[p].pc \in LatePcs /\ th[p].w \in Workers /\ job[th[p].t].w # th[p].w
        /\ th[p].w \in live => task[rowTask[th[p].w]] \in Terminal
    BY <1>0, <1>2 DEF DoneSettled
  <2>2. th[p].t \in Tasks /\ home[th[p].w] = th[p].t
    BY <1>2, RowFacts
  <2>3. ~ReadsOn(p)
    BY <2>1 DEF ReadsOn, RetireRead, At, LatePcs
  <2>4. th'[p].t = th[p].t /\ th'[p].w = th[p].w /\ th'[p].pc \in LatePcs
    BY <1>1, <2>1, <2>3 DEF LateStep, SameArgs
  <2> QED BY <2>1, <2>2, <2>4, DoneKept
<1>3. CASE ~th[p].done
  <2>1. ReadsOn(p)
    BY <1>1, <1>3 DEF LateStep, SameArgs
  <2> DEFINE t == th[p].t
             w == th[p].w
  <2>2. /\ task[t] \in Terminal /\ w \in live /\ th'[p].t = t /\ th'[p].w = w
        /\ th'[p].pc \in LatePcs
    BY <2>1 DEF ReadsOn, AfterRead, AfterStop, LatePcs
  <2>3. t \in Tasks /\ w \in Workers /\ rowTask[w] # None /\ home[w] = t /\ rowTask[w] = t
    <3>1. w \in Workers /\ rowTask[w] # None /\ rowTask[w] = home[w] /\ None \notin Workers
      BY <2>2, RowFacts
    <3>2. home[w] = t
      BY <1>0, <3>1 DEF TypeInv, HomesAgree, ThreadHomes
    <3> QED BY <3>1, <3>2, RowFacts
  <2>4. job[t].w # w
    BY <1>0, <2>3, RowFacts DEF JobRowless
  <2> QED BY <2>2, <2>3, <2>4, DoneKept
<1> QED BY <1>2, <1>3

\* Every step keeps the four facts about rows.
LEMMA RowsInvStep ==
  ASSUME RowsInv, [Next]_vars
  PROVE  RowsInv'
<1>1. TypeInv'
  BY TypeInvStep DEF RowsInv
<1>2. OneLiveRow'
  BY StoreStep, RowsStep DEF RowsInv, TypeInv, FlotillaTypeOK
<1> QED BY <1>1, <1>2, JobRowlessStep, EndedSettledStep, DoneSettledStep DEF RowsInv

\* ... so they hold throughout.
LEMMA RowsInvHolds == Spec => []RowsInv
<1>1. Init => RowsInv
  <2>1. Init => JobRowless /\ EndedSettled /\ DoneSettled /\ OneLiveRow
    BY DEF Init, StoreInit, ControlInit, NoJob, IdleThread, JobRowless, EndedSettled, DoneSettled, OneLiveRow
  <2> QED BY <2>1, TypeInvInit DEF RowsInv
<1>2. RowsInv /\ [Next]_vars => RowsInv'
  BY RowsInvStep
<1> QED BY <1>1, <1>2, PTL DEF Spec

\* An active task keeps its row, and one that becomes active gets one.
LEMMA ActiveHasWorkerStep ==
  ASSUME RowsInv, ActiveHasWorker, [Next]_vars
  PROVE  ActiveHasWorker'
<1>0. /\ TypeInv /\ task \in [Tasks -> STATES \cup {Absent}] /\ queue \in Seq(Tasks)
      /\ rowTask \in [Workers -> Tasks \cup {None}]
  BY DEF RowsInv, TypeInv, FlotillaTypeOK, StoreTypeOK
<1> SUFFICES ASSUME NEW t \in Tasks, task'[t] \in Active PROVE \E w \in live' : rowTask'[w] = t
  BY DEF ActiveHasWorker, LiveRows
<1>1. ASSUME NEW w \in live, rowTask[w] = t PROVE w \in live' /\ rowTask'[w] = t
  <2>1. w \in Workers
    BY RowFacts
  <2>2. ASSUME NEW u \in Tasks, Activate(u), w = job[u].w PROVE FALSE
    BY <1>1, <2>1, <2>2, RowFacts DEF RowsInv, JobRowless
  <2>3. CASE w \notin live'
    <3>1. rowTask'[w] = None
      BY <1>1, <2>3, RowSettles DEF Active, Terminal
    <3>2. ASSUME NEW u \in Tasks, DeleteTask(u) PROVE FALSE
      BY <1>0, <1>1, <2>1, <3>1, <3>2, RowFacts DEF DeleteTask, Active, Absent
    <3>3. ASSUME UNCHANGED rowTask PROVE FALSE
      BY <1>1, <3>1, <3>3, RowFacts
    <3>4. ASSUME NEW u \in Tasks, ActivateWorker(u, job[u].w) PROVE FALSE
      BY <2>3, <3>4 DEF ActivateWorker
    <3> QED BY <1>0, <3>2, <3>3, <3>4, TableStep
            DEF storeVars, CreateTasks, ClaimQueuedTasks, MarkStaleDispatchingLost, SetTaskState,
                FinishWorker, EndWorker
  <2>4. CASE w \in live'
    <3>1. rowTask'[w] # None
      BY <2>4, StoreStep, RowsStep DEF OneLiveRow, RowsInv, TypeInv, FlotillaTypeOK
    <3> QED BY <1>0, <1>1, <2>1, <2>2, <2>4, <3>1, RowOrigin
  <2> QED BY <2>3, <2>4
<1>2. CASE task[t] \in Active
  BY <1>1, <1>2 DEF ActiveHasWorker, LiveRows
<1>3. CASE task[t] \notin Active
  <2>1. ASSUME NEW u \in Tasks, NEW c \in SetCalls, SetTaskState(u, c[1], c[2]) PROVE FALSE
    BY <1>0, <1>3, <2>1 DEF SetTaskState, PutState, SetCalls, Active
  <2>2. ASSUME NEW u \in Tasks, NEW w, NEW s \in Terminal, FinishWorker(u, w, s) PROVE FALSE
    BY <1>0, <1>3, <2>2 DEF FinishWorker, PutState, Active, Terminal
  <2>3. ASSUME NEW u \in Tasks, NEW w \in Workers, ActivateWorker(u, w) PROVE w \in live' /\ rowTask'[w] = t
    BY <1>0, <1>3, <2>3 DEF ActivateWorker, PutState
  <2>4. ASSUME NEW u \in Tasks, DeleteTask(u) PROVE FALSE
    BY <1>0, <1>3, <2>4 DEF DeleteTask, Active, Absent
  <2>5. ASSUME NEW b, NEW place, CreateTasks(b, place) PROVE FALSE
    BY <1>3, <2>5 DEF CreateTasks, Active
  <2>6. CASE ClaimQueuedTasks
    BY <1>3, <2>6 DEF ClaimQueuedTasks, Active
  <2>7. ASSUME NEW S, MarkStaleDispatchingLost(S) PROVE FALSE
    BY <1>3, <2>7 DEF MarkStaleDispatchingLost, Active
  <2> QED BY <1>0, <1>3, <2>1, <2>2, <2>3, <2>4, <2>5, <2>6, <2>7, TableStep DEF storeVars, EndWorker
<1> QED BY <1>2, <1>3

\* A task the database calls active has a live worker row: no activation, finish,
\* deletion or late end of a row, in whatever order the threads make them and
\* across restarts, leaves a RUNNING task with nothing to observe.
THEOREM ActiveTaskHasWorker == Spec => []ActiveHasWorker
<1>1. Init => ActiveHasWorker
  BY DEF Init, StoreInit, ActiveHasWorker, Active, Absent
<1>2. RowsInv /\ ActiveHasWorker /\ [Next]_vars => ActiveHasWorker'
  BY ActiveHasWorkerStep
<1> QED BY <1>1, <1>2, RowsInvHolds, PTL DEF Spec

-----------------------------------------------------------------------------
(* One retirement of a task at a time                                      *)

\* A thread between the mark in _RETIRING and its removal has its task marked, and
\* no other thread is there for the same task.
OneRetirement ==
  \A p \in Threads : th[p].pc \in InsidePcs =>
    /\ th[p].t \in retiring
    /\ \A q \in Threads : th[q].pc \in InsidePcs /\ th[q].t = th[p].t => q = p

\* Only retire() itself takes a thread past the mark.
LEMMA OutsideMoves ==
  ASSUME TypeInv, NEW p \in Threads,
         (p \in Requests /\ RequestStep(p)) \/ (p = Observer /\ ObserverItem) \/ ActuateStep(p)
  PROVE  th'[p].pc \notin InsidePcs
<1>0. th \in [Threads -> ThreadRecord] /\ th[p] \in ThreadRecord
  BY DEF TypeInv, FlotillaTypeOK, ControlTypeOK
<1>1. ASSUME NEW r, Becomes(p, r), r.pc \notin InsidePcs PROVE th'[p].pc \notin InsidePcs
  BY <1>0, <1>1 DEF Becomes
<1>2. IdleThread.pc \notin InsidePcs
  BY DEF IdleThread, InsidePcs
<1>3. ASSUME RequestStep(p) PROVE th'[p].pc \notin InsidePcs
  <2>1. ASSUME NEW op, NEW t \in Tasks, NEW pc \in {"halt", "paste", "erase"}, Begin(p, op, t, pc)
        PROVE  th'[p].pc \notin InsidePcs
    <3>1. [IdleThread EXCEPT !.pc = pc, !.op = op, !.t = t, !.w = handles[t], !.h = handles[t]].pc
            \notin InsidePcs
      BY DEF IdleThread, InsidePcs
    <3> QED BY <1>1, <2>1, <3>1 DEF Begin
  <2>2. ASSUME NEW t \in Tasks, WorkerPing(p, t) PROVE th'[p].pc \notin InsidePcs
    <3>1. [IdleThread EXCEPT !.pc = "target", !.op = "ping", !.t = t,
                             !.term = MapTerminal(status[t], FALSE)].pc \notin InsidePcs
      BY DEF IdleThread, InsidePcs
    <3> QED BY <1>1, <2>2, <3>1 DEF WorkerPing
  <2>3. CASE EraseTask(p)
    BY <1>1, <1>2, <2>3 DEF EraseTask
  <2>4. CASE PingTarget(p)
    <3>1. [th[p] EXCEPT !.pc = IF th[p].term = "STUCK" THEN "stick" ELSE "enter",
                        !.w = ActiveWorkerId(th[p].t)].pc \notin InsidePcs
      BY <1>0 DEF InsidePcs, ThreadRecord
    <3> QED BY <1>1, <2>4, <3>1 DEF PingTarget
  <2> QED BY <1>3, <2>1, <2>2, <2>3, <2>4 DEF RequestStep, RequestStop, RequestNudge, RequestDelete
<1>4. ASSUME p = Observer, ObserverItem PROVE th'[p].pc \notin InsidePcs
  <2>1. PICK i, term :
          /\ i \in todo
          /\ Becomes(Observer, IF term = None THEN IdleThread
                               ELSE [IdleThread EXCEPT
                                       !.pc = IF term = "STUCK" THEN "stick" ELSE "enter",
                                       !.op = "observe", !.t = i[1], !.w = i[2], !.term = term])
    BY <1>4 DEF ObserverItem
  <2>2. [IdleThread EXCEPT !.pc = IF term = "STUCK" THEN "stick" ELSE "enter",
                           !.op = "observe", !.t = i[1], !.w = i[2], !.term = term].pc \notin InsidePcs
    BY DEF IdleThread, InsidePcs
  <2> QED BY <1>1, <1>2, <1>4, <2>1, <2>2
<1>5. ASSUME ActuateStep(p) PROVE th'[p].pc \notin InsidePcs
  <2>1. /\ [th[p] EXCEPT !.pc = "enter", !.term = "CANCELLED", !.h = None].pc \notin InsidePcs
        /\ [th[p] EXCEPT !.pc = "erase"].pc \notin InsidePcs
    BY <1>0 DEF InsidePcs, ThreadRecord
  <2> QED BY <1>1, <1>2, <1>5, <2>1 DEF ActuateStep, HaltWorker, VerifyCancelled, NudgeWorker
<1> QED BY <1>3, <1>4, <1>5

\* The thread enters retire(), or goes on inside it.
Enters(p) ==
  /\ RetireEnter(p)
  /\ th[p].t \notin retiring /\ retiring' = retiring \cup {th[p].t}
  /\ th'[p] = [th[p] EXCEPT !.pc = "read", !.h = handles[th[p].t]]

\* How a thread comes to, or moves among, the places between the mark and the end.
LEMMA InsideMoves ==
  ASSUME RowsInv, [Next]_vars, NEW p \in Threads, th'[p].pc \in InsidePcs
  PROVE  th'[p] = th[p] \/ Enters(p) \/ ReadsOn(p) \/ LateStep(p)
<1>0. TypeInv /\ th \in [Threads -> ThreadRecord] /\ th[p] \in ThreadRecord
  BY DEF RowsInv, TypeInv, FlotillaTypeOK, ControlTypeOK
<1>1. CASE th'[p].pc \in LatePcs
  BY <1>0, <1>1, LateMoves DEF RowsInv, DoneSettled
<1>2. CASE th'[p].pc = "read"
  <2>1. th'[p] = th[p] \/ RetireStep(p)
    BY <1>0, ThreadMoves, OutsideMoves DEF IdleThread, InsidePcs
  <2>2. ASSUME NEW r, Becomes(p, r), r.pc # "read" PROVE FALSE
    BY <1>0, <1>2, <2>2 DEF Becomes
  <2>3. ASSUME NEW result, Becomes(p, AfterRetire(p, result)) PROVE FALSE
    <3>1. AfterRetire(p, result).pc # "read"
      BY DEF AfterRetire, IdleThread
    <3> QED BY <2>2, <2>3, <3>1
  <2>4. ASSUME NEW pc, pc # "read", Goto(p, pc) PROVE FALSE
    <3>1. [th[p] EXCEPT !.pc = pc].pc = pc
      BY <1>0 DEF ThreadRecord
    <3> QED BY <2>2, <2>4, <3>1 DEF Goto
  <2>5. ~RetireStuck(p)
    BY <2>2 DEF RetireStuck, IdleThread
  <2>6. ASSUME RetireRead(p) PROVE FALSE
    <3> DEFINE done == task[th[p].t] \in Terminal
               lock == IF HasRow(th[p].w) THEN Gpu[rowTask[th[p].w]] ELSE None
               r == [th[p] EXCEPT !.pc = AfterRead(th[p], done), !.done = done, !.lock = lock]
    <3>1. r.pc # "read"
      BY <1>0 DEF AfterRead, AfterStop, ThreadRecord
    <3> QED BY <2>2, <2>3, <2>6, <3>1 DEF RetireRead
  <2>7. ~RetireStop(p) /\ ~RetireRelease(p) /\ ~RetireCommit(p) /\ ~RetireLeave(p)
    BY <2>3, <2>4 DEF RetireStop, RetireRelease, RetireCommit, RetireLeave, AfterStop
  <2>8. ASSUME RetireEvaluate(p) PROVE FALSE
    <3>1. \A verdict : [th[p] EXCEPT !.pc = "commit", !.term = verdict].pc # "read"
      BY <1>0 DEF ThreadRecord
    <3> QED BY <2>2, <2>8, <3>1 DEF RetireEvaluate
  <2>9. ASSUME RetireEnter(p) PROVE Enters(p)
    BY <1>0, <2>3, <2>9 DEF RetireEnter, Enters, Becomes
  <2> QED BY <2>1, <2>5, <2>6, <2>7, <2>8, <2>9 DEF RetireStep
<1> QED BY <1>1, <1>2 DEF InsidePcs, LatePcs

\* Inside retire() a thread keeps its task.
LEMMA InsideTask ==
  ASSUME RowsInv, [Next]_vars, NEW p \in Threads, th'[p].pc \in InsidePcs
  PROVE  th'[p].t = th[p].t /\ (th[p].pc \in InsidePcs \/ Enters(p))
<1>0. th[p] \in ThreadRecord
  BY DEF RowsInv, TypeInv, FlotillaTypeOK, ControlTypeOK
<1>1. CASE Enters(p)
  BY <1>0, <1>1 DEF Enters, ThreadRecord
<1>2. CASE ReadsOn(p)
  BY <1>2 DEF ReadsOn, RetireRead, At, InsidePcs
<1>3. CASE LateStep(p)
  BY <1>3 DEF LateStep, SameArgs, LatePcs, InsidePcs
<1> QED BY <1>1, <1>2, <1>3, InsideMoves

\* The mark of a task goes when the thread that set it leaves retire().
LEMMA MarkRemoved ==
  ASSUME TypeInv, [Next]_vars, NEW u \in retiring, u \notin retiring'
  PROVE  \/ \A q \in Threads : th'[q] = IdleThread
         \/ \E q \in Threads : th[q].t = u /\ th[q].pc \in InsidePcs /\ th'[q].pc \notin InsidePcs
<1>0. th \in [Threads -> ThreadRecord]
  BY DEF TypeInv, FlotillaTypeOK, ControlTypeOK
<1>1. ASSUME NEW q \in Threads, NEW result, Becomes(q, AfterRetire(q, result)) PROVE th'[q].pc \notin InsidePcs
  BY <1>0, <1>1 DEF Becomes, AfterRetire, IdleThread, InsidePcs
<1>2. ASSUME NEW q \in Threads, RetireRead(q) \/ RetireCommit(q) \/ RetireLeave(q)
      PROVE  th[q].t = u /\ th[q].pc \in InsidePcs /\ th'[q].pc \notin InsidePcs
  <2>1. th[q].pc \in InsidePcs
    BY <1>2 DEF RetireRead, RetireCommit, RetireLeave, At, InsidePcs
  <2>2. CASE RetireRead(q)
    BY <1>1, <2>1, <2>2 DEF RetireRead
  <2>3. CASE RetireCommit(q)
    BY <1>1, <2>1, <2>3 DEF RetireCommit
  <2>4. CASE RetireLeave(q)
    BY <1>1, <2>1, <2>4 DEF RetireLeave
  <2> QED BY <1>2, <2>2, <2>3, <2>4
<1>3. ASSUME NEW q \in Threads, RetireEnter(q) PROVE FALSE
  BY <1>3 DEF RetireEnter
<1>4. CASE Crash
  BY <1>4 DEF Crash
<1>5. CASE UNCHANGED vars
  BY <1>5 DEF vars, controlVars, registryVars
<1> QED BY <1>2, <1>3, <1>4, <1>5, Steps, WorkerFrame, RequestFrame, ThreadFrame, DispatchFrame, OtherFrames
        DEF controlVars, registryVars

\* The test of _RETIRING under the registry lock keeps a second thread out.
LEMMA OneRetirementStep ==
  ASSUME RowsInv, OneRetirement, [Next]_vars
  PROVE  OneRetirement'
<1>0. TypeInv
  BY DEF RowsInv
<1> SUFFICES ASSUME NEW p \in Threads, th'[p].pc \in InsidePcs
             PROVE  /\ th'[p].t \in retiring'
                    /\ \A q \in Threads : th'[q].pc \in InsidePcs /\ th'[q].t = th'[p].t => q = p
  BY DEF OneRetirement
<1>1. th'[p].t = th[p].t /\ (th[p].pc \in InsidePcs \/ Enters(p))
  BY InsideTask
<1>2. \A q \in Threads : th'[q].pc \in InsidePcs =>
        th'[q].t = th[q].t /\ (th[q].pc \in InsidePcs \/ Enters(q))
  BY InsideTask
<1>3. ASSUME NEW q \in Threads, Enters(q), NEW r \in Threads, th[r].pc \in InsidePcs PROVE th[r].t # th[q].t
  BY <1>3 DEF Enters, OneRetirement
<1>4. ASSUME NEW q \in Threads, NEW r \in Threads, Enters(q), Enters(r), q # r PROVE FALSE
  <2>1. th'[r] = th[r]
    BY <1>0, <1>4 DEF Enters, RetireEnter, Becomes, TypeInv, FlotillaTypeOK, ControlTypeOK
  <2> QED BY <1>0, <1>4, <2>1 DEF Enters, RetireEnter, At, TypeInv, FlotillaTypeOK, ControlTypeOK, ThreadRecord
<1>5. th'[p].t \in retiring'
  <2>1. CASE Enters(p)
    BY <1>1, <2>1 DEF Enters
  <2>2. CASE th[p].pc \in InsidePcs
    <3>1. th[p].t \in retiring
      BY <2>2 DEF OneRetirement
    <3>2. th'[p] # IdleThread
      BY DEF IdleThread, InsidePcs
    <3>3. \A q \in Threads : th[q].t = th[p].t /\ th[q].pc \in InsidePcs => q = p
      BY <2>2 DEF OneRetirement
    <3> QED BY <1>0, <1>1, <3>1, <3>2, <3>3, MarkRemoved
  <2> QED BY <1>1, <2>1, <2>2
<1>6. ASSUME NEW q \in Threads, th'[q].pc \in InsidePcs, th'[q].t = th'[p].t PROVE q = p
  BY <1>1, <1>2, <1>3, <1>4, <1>6 DEF OneRetirement
<1> QED BY <1>5, <1>6

\* The retirement lock of actuator.py works: of all the observer, ping, stop and
\* delete threads, one at a time is between the mark and the end of retire() for
\* a task, and the mark is there as long as it is.
THEOREM OneRetirementAtATime == Spec => []OneRetirement
<1>1. Init => OneRetirement
  BY DEF Init, ControlInit, OneRetirement, IdleThread, InsidePcs
<1>2. RowsInv /\ OneRetirement /\ [Next]_vars => OneRetirement'
  BY OneRetirementStep
<1> QED BY <1>1, <1>2, RowsInvHolds, PTL DEF Spec

-----------------------------------------------------------------------------
(* The lease of a live worker                                              *)

\* From the moment the lease is acquired until it is released again.
Holding == {"prepared", "started", "startFailed", "registered", "cleanup", "stopped", "stopFailed"}

\* Who holds a lease: the claim that acquired it, then the live row it becomes,
\* then the retirement that has read the row and will release it.  None of the
\* three can be the holder while another one is.
JobHolds ==
  \A t \in Tasks : job[t].phase \in Holding /\ Gpu[t] # None => held[Gpu[t]] = job[t].w
RowHolds == \A w \in live : Gpu[rowTask[w]] # None => held[Gpu[rowTask[w]]] = w
RetireHolds ==
  \A p \in Threads : th[p].pc \in LatePcs \ {"leave"} /\ th[p].lock # None =>
    /\ th[p].w \in Workers /\ held[th[p].lock] = th[p].w /\ job[th[p].t].w # th[p].w
    /\ th[p].pc = "release" => th[p].w \notin live

LeaseInv == crashes = 0 => JobHolds /\ RowHolds /\ RetireHolds

LeaseFacts == RowsInv /\ OneRetirement /\ LeaseInv

\* Crashes are only ever counted up.
LEMMA NoCrashYet ==
  ASSUME TypeInv, [Next]_vars, crashes' = 0
  PROVE  crashes = 0 /\ ~Crash
<1>1. ~Crash
  BY ControlAssumptions DEF Crash, TypeInv, FlotillaTypeOK, ControlTypeOK
<1>2. CASE UNCHANGED vars
  BY <1>1, <1>2 DEF vars, controlVars, bootVars
<1> QED BY <1>1, <1>2, Steps, WorkerFrame, RequestFrame, ThreadFrame, DispatchFrame, OtherFrames
        DEF controlVars, bootVars, Reconcile

\* While nothing has crashed, a lease goes only in the hands of its holder.
LEMMA LeaseMoves ==
  ASSUME RowsInv, [Next]_vars, crashes' = 0, NEW g \in Gpus, held'[g] # held[g]
  PROVE  /\ g # None
         /\ \/ \E t \in Tasks : Resolve(t) /\ g = Gpu[t] /\ held[g] = None /\ held'[g] = FreshWorker
            \/ \E t \in Tasks : (LaunchFailed(t) \/ CleanupRegistry(t)) /\ g = Gpu[t]
            \/ \E p \in Threads : RetireRelease(p) /\ g = th[p].lock
<1>0. held \in [Gpus -> Workers \cup {None}] /\ crashes \in Nat
  BY ControlAssumptions DEF RowsInv, TypeInv, FlotillaTypeOK, RuntimesTypeOK, ControlTypeOK
<1>1. ASSUME NEW l, ReleaseGpu(l) PROVE g = l /\ g # None
  BY <1>0, <1>1 DEF ReleaseGpu
<1>2. ASSUME NEW t \in Tasks, Resolve(t)
      PROVE  g = Gpu[t] /\ g # None /\ held[g] = None /\ held'[g] = FreshWorker
  BY <1>0, <1>2 DEF Resolve, AcquireGpu
<1>3. ASSUME NEW t \in Tasks, LaunchFailed(t) \/ CleanupRegistry(t) PROVE g = Gpu[t] /\ g # None
  BY <1>1, <1>3 DEF LaunchFailed, CleanupRegistry
<1>4. ASSUME NEW p \in Threads, RetireRelease(p) PROVE g = th[p].lock /\ g # None
  BY <1>1, <1>4 DEF RetireRelease
<1>5. ~Crash
  BY <1>0 DEF Crash
<1>6. ~UNCHANGED vars
  BY DEF vars, runtimeVars
<1> QED BY <1>2, <1>3, <1>4, <1>5, <1>6, Steps, WorkerFrame, RequestFrame, ThreadFrame, DispatchFrame, OtherFrames
        DEF runtimeVars

\* No lease a claim, a live row or another retirement holds is touched: the
\* holder of the lease is a worker id, and each of them has an id of its own.
LEMMA HolderKeeps ==
  ASSUME LeaseFacts, [Next]_vars, crashes' = 0, NEW g \in Gpus, NEW w \in Workers, held[g] = w,
         \A t \in Tasks : job[t].w = w => ~LaunchFailed(t) /\ ~CleanupRegistry(t),
         \A p \in Threads : th[p].w = w => ~(RetireRelease(p) /\ th[p].lock = g)
  PROVE  held'[g] = w
<1>0. /\ None \notin Workers /\ None \notin Tasks /\ crashes = 0
      /\ \A p \in Threads : th[p].t \in Tasks \/ th[p].pc = "idle"
  BY NoCrashYet, StoreAssumptions DEF LeaseFacts, RowsInv, TypeInv, ThreadArgs, ArgsFit, IdleThread
<1>1. RowsInv /\ JobHolds /\ RetireHolds
  BY <1>0 DEF LeaseFacts, LeaseInv
<1>2. ASSUME NEW t \in Tasks, LaunchFailed(t) \/ CleanupRegistry(t), g = Gpu[t], g # None PROVE FALSE
  <2>1. job[t].w = w
    BY <1>0, <1>1, <1>2 DEF JobHolds, LaunchFailed, CleanupRegistry, InPhase, Holding
  <2> QED BY <1>2, <2>1
<1>3. ASSUME NEW p \in Threads, RetireRelease(p), g = th[p].lock, g # None PROVE FALSE
  <2>1. th[p].w = w
    BY <1>0, <1>1, <1>3 DEF RetireHolds, RetireRelease, At, LatePcs
  <2> QED BY <1>3, <2>1
<1> QED BY <1>0, <1>1, <1>2, <1>3, LeaseMoves

\* A claim that holds its lease is the one that acquired it, and keeps its id.
LEMMA HoldingMoves ==
  ASSUME TypeInv, [Next]_vars, NEW t \in Tasks, job'[t].phase \in Holding
  PROVE  \/ Resolve(t) /\ job'[t].w = FreshWorker
         \/ /\ job[t].phase \in Holding /\ job'[t].w = job[t].w
            /\ ~LaunchFailed(t) /\ ~CleanupRegistry(t)
<1>0. job \in [Tasks -> [phase : Phases, w : Workers \cup {None}]]
  BY DEF TypeInv, FlotillaTypeOK, ControlTypeOK
<1>1. ASSUME NEW u \in Tasks, DispatchStep(u), ~Resolve(u)
      PROVE  job[t].phase \in Holding /\ job'[t].w = job[t].w
  BY <1>0, <1>1 DEF DispatchStep, ResolveBusy, ResolveUnfit, Launch, LaunchFailed, RegisterHandle,
     Activate, CleanupStop, CleanupRegistry, Unclaim, Advance, EndJob, NoJob, InPhase, Holding
<1>2. ASSUME NEW u \in Tasks, Resolve(u)
      PROVE  IF u = t THEN job'[t].w = FreshWorker ELSE job'[t] = job[t]
  BY <1>0, <1>2 DEF Resolve
<1>3. (~Claim /\ ~Crash) \/ job'[t] = job[t]
  BY <1>0 DEF Claim, Crash, NoJob, Holding
<1>4. ~LaunchFailed(t)
  BY <1>0 DEF LaunchFailed, Advance, Holding
<1>5. ~CleanupRegistry(t)
  BY <1>0 DEF CleanupRegistry, Advance, Holding
<1>6. CASE UNCHANGED vars
  BY <1>4, <1>5, <1>6 DEF vars, controlVars
<1> QED BY <1>1, <1>2, <1>3, <1>4, <1>5, <1>6, Steps, WorkerFrame, RequestFrame, ThreadFrame, OtherFrames
        DEF controlVars

\* An id that is not the one of its task's claim does not become it.
LEMMA JobAvoids ==
  ASSUME RowsInv, [Next]_vars, NEW t \in Tasks, NEW w \in Workers, home[w] = t, job[t].w # w
  PROVE  job'[t].w # w
BY JobOrigin, FreshWorkerType, RowFacts DEF Resolve

\* A claim keeps the lease it acquired until it is activated or cleaned up.
LEMMA JobHoldsStep ==
  ASSUME LeaseFacts, [Next]_vars, crashes' = 0
  PROVE  JobHolds'
<1>0. RowsInv /\ TypeInv /\ JobHolds /\ RetireHolds /\ crashes = 0
  BY NoCrashYet DEF LeaseFacts, LeaseInv, RowsInv
<1> SUFFICES ASSUME NEW t \in Tasks, job'[t].phase \in Holding, Gpu[t] # None PROVE held'[Gpu[t]] = job'[t].w
  BY DEF JobHolds
<1>1. Gpu[t] \in Gpus
  BY RuntimeAssumptions
<1>2. CASE Resolve(t) /\ job'[t].w = FreshWorker
  BY <1>0, <1>1, <1>2, RowFacts DEF Resolve, AcquireGpu, RuntimesTypeOK
<1>3. CASE /\ job[t].phase \in Holding /\ job'[t].w = job[t].w
           /\ ~LaunchFailed(t) /\ ~CleanupRegistry(t)
  <2>1. job[t].w \in Workers /\ home[job[t].w] = t /\ held[Gpu[t]] = job[t].w
    <3>1. job[t].w # None
      BY <1>0, <1>3 DEF TypeInv, JobArgs, Holding
    <3> QED BY <1>0, <1>3, <3>1, RowFacts DEF JobHolds
  <2>2. ASSUME NEW u \in Tasks, job[u].w = job[t].w PROVE u = t
    BY <1>0, <2>1, <2>2, RowFacts
  <2>3. ASSUME NEW p \in Threads, th[p].w = job[t].w, RetireRelease(p), th[p].lock = Gpu[t] PROVE FALSE
    <3>1. home[th[p].w] = th[p].t
      BY <1>0, <2>1, <2>3, RowFacts DEF TypeInv, HomesAgree, ThreadHomes
    <3> QED BY <1>0, <2>1, <2>3, <3>1 DEF RetireHolds, RetireRelease, At, LatePcs
  <2> QED BY <1>1, <1>3, <2>1, <2>2, <2>3, HolderKeeps
<1> QED BY <1>0, <1>2, <1>3, HoldingMoves

\* The lease goes with the activation from the claim to the row.
LEMMA RowHoldsStep ==
  ASSUME LeaseFacts, [Next]_vars, crashes' = 0
  PROVE  RowHolds'
<1>0. RowsInv /\ TypeInv /\ JobHolds /\ RowHolds /\ RetireHolds /\ JobRowless
  BY NoCrashYet DEF LeaseFacts, LeaseInv, RowsInv
<1> SUFFICES ASSUME NEW w \in live', Gpu[rowTask'[w]] # None PROVE held'[Gpu[rowTask'[w]]] = w
  BY DEF RowHolds
<1>1. w \in Workers /\ rowTask'[w] # None
  BY StoreStep, RowsStep, TypeInvStep, <1>0 DEF RowsInv, TypeInv, FlotillaTypeOK, StoreTypeOK, OneLiveRow
<1>2. ASSUME NEW t \in Tasks, Activate(t), ActivateWorker(t, w), w = job[t].w
      PROVE  held'[Gpu[rowTask'[w]]] = w
  <2>1. rowTask'[w] = t
    BY <1>0, <1>1, <1>2, RowFacts DEF ActivateWorker, StoreTypeOK
  <2>2. held' = held /\ job[t].phase \in Holding
    BY <1>2 DEF Activate, InPhase, Holding
  <2> QED BY <1>0, <1>2, <2>1, <2>2 DEF JobHolds
<1>3. CASE w \in live /\ rowTask'[w] = rowTask[w]
  <2>1. held[Gpu[rowTask[w]]] = w /\ Gpu[rowTask[w]] \in Gpus
    BY <1>0, <1>1, <1>3, RowFacts, RuntimeAssumptions DEF RowHolds
  <2>2. \A u \in Tasks : job[u].w # w
    BY <1>0, <1>1, <1>3, RowFacts DEF JobRowless
  <2>3. ASSUME NEW p \in Threads, th[p].w = w, RetireRelease(p), th[p].lock = Gpu[rowTask[w]] PROVE FALSE
    BY <1>0, <1>3, <2>3 DEF RetireHolds, RetireRelease, At, LatePcs
  <2> QED BY <1>1, <1>3, <2>1, <2>2, <2>3, HolderKeeps
<1>4. CASE w \in live /\ rowTask'[w] # rowTask[w]
  <2>1. PICK t \in Tasks : ActivateWorker(t, w)
    BY <1>0, <1>1, <1>4, RowOrigin
  <2> QED BY <1>0, <1>4, <2>1, RowFacts DEF ActivateWorker
<1> QED BY <1>0, <1>2, <1>3, <1>4, LiveOrigin

\* A retirement past the read finds its lease held by the worker it retires.
LEMMA RetireHoldsStep ==
  ASSUME LeaseFacts, [Next]_vars, crashes' = 0
  PROVE  RetireHolds'
<1>0. /\ RowsInv /\ TypeInv /\ JobHolds /\ RowHolds /\ RetireHolds /\ JobRowless /\ EndedSettled /\ OneRetirement
      /\ None \notin Workers
  BY NoCrashYet, StoreAssumptions DEF LeaseFacts, LeaseInv, RowsInv
<1> SUFFICES ASSUME NEW p \in Threads, th'[p].pc \in LatePcs \ {"leave"}, th'[p].lock # None
             PROVE  /\ th'[p].w \in Workers /\ held'[th'[p].lock] = th'[p].w /\ job'[th'[p].t].w # th'[p].w
                    /\ th'[p].pc = "release" => th'[p].w \notin live'
  BY DEF RetireHolds
<1> DEFINE t == th[p].t
           w == th[p].w
<1>1. /\ th[p] \in ThreadRecord
      /\ th[p].pc # "idle" => t \in Tasks
      /\ w # None => w \in Workers /\ home[w] = t
  BY <1>0, RowFacts DEF TypeInv, ThreadArgs, ArgsFit, HomesAgree, ThreadHomes, ThreadRecord
<1>2. CASE th'[p] = th[p]
  <2>1. /\ w \in Workers /\ held[th[p].lock] = w /\ job[t].w # w /\ home[w] = t /\ t \in Tasks
        /\ th[p].lock \in Gpus /\ (th[p].pc = "release" => w \notin live)
    BY <1>0, <1>1, <1>2 DEF RetireHolds, LatePcs, ThreadRecord
  <2>2. \A u \in Tasks : job[u].w # w
    BY <1>0, <2>1, RowFacts
  <2>3. ASSUME NEW q \in Threads, th[q].w = w, RetireRelease(q) PROVE FALSE
    <3>1. th[q].t = t
      BY <1>0, <2>1, <2>3 DEF TypeInv, HomesAgree, ThreadHomes
    <3>2. q = p
      BY <1>0, <1>2, <2>3, <3>1 DEF OneRetirement, RetireRelease, At, LatePcs, InsidePcs
    <3> QED BY <1>0, <1>1, <1>2, <2>3, <3>2, RowFacts
            DEF RetireRelease, At, Goto, Becomes, ControlTypeOK, ThreadRecord
  <2>4. held'[th[p].lock] = w
    BY <2>1, <2>2, <2>3, HolderKeeps
  <2>5. job'[t].w # w
    BY <1>0, <2>1, JobAvoids
  <2>6. w \notin live => w \notin live'
    BY <1>0, <2>2, LiveOrigin
  <2> QED BY <1>2, <2>1, <2>4, <2>5, <2>6
<1>3. CASE ReadsOn(p)
  <2>1. /\ th'[p].t = t /\ th'[p].w = w /\ HasRow(w) /\ th'[p].lock = Gpu[rowTask[w]]
        /\ th'[p].pc \in {"stop", "evaluate", "commit"}
    BY <1>3 DEF ReadsOn, AfterRead, AfterStop
  <2>2. w \in Workers /\ home[w] = t /\ rowTask[w] = t /\ t \in Tasks
    BY <1>0, <1>1, <2>1, RowFacts DEF HasRow
  <2>3. w \in live
    BY <1>0, <1>3, <2>1, <2>2 DEF EndedSettled, ReadsOn, HasRow
  <2>4. held' = held /\ job' = job
    BY <1>3 DEF ReadsOn, RetireRead, runtimeVars, besideActuator
  <2>5. held[Gpu[rowTask[w]]] = w /\ job[t].w # w
    BY <1>0, <2>1, <2>2, <2>3, RowFacts DEF RowHolds, JobRowless
  <2> QED BY <2>1, <2>2, <2>4, <2>5
<1>4. CASE LateStep(p)
  <2>1. th'[p].t = t /\ th'[p].w = w /\ th'[p].lock = th[p].lock
    BY <1>4 DEF LateStep, SameArgs
  <2>2. w \in Workers /\ held[th[p].lock] = w /\ job[t].w # w
    BY <1>0, <1>4, <2>1 DEF LateStep, RetireHolds
  <2>3. job' = job
    BY <1>4 DEF LateStep, RetireStop, RetireEvaluate, RetireCommit, RetireRelease, besideActuator
  <2>4. ~RetireRelease(p)
    BY <1>0, <1>1, RowFacts DEF RetireRelease, Goto, Becomes, ControlTypeOK, ThreadRecord
  <2>5. held' = held
    BY <1>4, <2>4 DEF LateStep, RetireStop, RetireEvaluate, RetireCommit, runtimeVars
  <2>6. th'[p].pc = "release" => w \notin live'
    <3>1. CASE RetireCommit(p)
      <4>1. ASSUME NEW result, Becomes(p, AfterRetire(p, result)) PROVE FALSE
        BY <1>0, <1>4, <4>1, RowFacts DEF LateStep, Becomes, AfterRetire, IdleThread, LatePcs, ControlTypeOK
      <4> QED BY <3>1, <4>1 DEF RetireCommit, EndWorker, FinishWorker
    <3>2. CASE RetireStop(p) \/ RetireEvaluate(p)
      <4>0. th \in [Threads -> ThreadRecord]
        BY <1>0, RowFacts DEF ControlTypeOK
      <4>1. CASE RetireStop(p)
        BY <1>1, <4>0, <4>1 DEF RetireStop, Goto, Becomes, AfterStop, ThreadRecord
      <4>2. CASE RetireEvaluate(p)
        <5>1. PICK verdict : Becomes(p, [th[p] EXCEPT !.pc = "commit", !.term = verdict])
          BY <4>2 DEF RetireEvaluate
        <5> QED BY <1>1, <4>0, <5>1 DEF Becomes, ThreadRecord
      <4> QED BY <3>2, <4>1, <4>2
    <3> QED BY <1>4, <2>4, <3>1, <3>2 DEF LateStep
  <2> QED BY <2>1, <2>2, <2>3, <2>5, <2>6
<1>5. ~Enters(p)
  BY <1>1 DEF Enters, LatePcs, ThreadRecord
<1> QED BY <1>0, <1>2, <1>3, <1>4, <1>5, InsideMoves DEF LatePcs, InsidePcs

\* The three parts hold together.
LEMMA LeaseInvHolds == Spec => []LeaseInv
<1>1. Init => LeaseInv
  BY DEF Init, StoreInit, ControlInit, LeaseInv, JobHolds, RowHolds, RetireHolds, Holding, LatePcs, NoJob, IdleThread
<1>2. RowsInv /\ OneRetirement /\ LeaseInv /\ [Next]_vars => LeaseInv'
  BY JobHoldsStep, RowHoldsStep, RetireHoldsStep DEF LeaseFacts, LeaseInv
<1> QED BY <1>1, <1>2, RowsInvHolds, OneRetirementAtATime, PTL DEF Spec

\* Until the server is restarted a live worker row of a GPU task holds the lease
\* of its GPU: the three releases by uuid alone (a launch that failed, the cleanup
\* of a dispatch, the end of a retirement) never free the lease of another worker.
THEOREM LiveRowHoldsLease == Spec => []LiveWorkerHoldsLease
<1>1. LeaseInv => LiveWorkerHoldsLease
  BY DEF LeaseInv, RowHolds, LiveWorkerHoldsLease
<1> QED BY <1>1, LeaseInvHolds, PTL
==============================================================================
