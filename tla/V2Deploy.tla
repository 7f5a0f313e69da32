------------------------------ MODULE V2Deploy ------------------------------
(***************************************************************************)
(* scripts/autokaggle-v2.py: the script it runs on the GPU host starts the *)
(* workers of the first tasks that registry.json does not have, each in a  *)
(* tmux session and a slot of a GPU, gives them their prompt and records   *)
(* them.  A run may end at any step, and the same or another one be made;  *)
(* two at once are not modelled.                                           *)
(*                                                                         *)
(* No session name is the beginning of another (tmux would take it for it);*)
(* the ids of tasks.yaml have one length.  The problem directories exist.  *)
(***************************************************************************)
EXTENDS Integers, Sequences, SequencesExt

CONSTANTS
  TaskList,     \* tasks.yaml, in its order
  Gpus,         \* sets of GPUs that a run may be given, as sequences
  SlotsPerGpu,
  Modes,        \* "same": all runs are on the same GPUs, and no workspace of the
                \* old layout is made; "varied"
  MaxRuns,      \* bound
  None

VARIABLES
  mode,
  registry,     \* the record of a task: its place; None
  session,      \* the place its tmux session was started with
  legacy,       \* the tasks with a workspace of the old layout
  run, runs,
  prompted      \* history: the tasks whose session has its prompt

vars == <<mode, registry, session, legacy, run, runs, prompted>>

Tasks == ToSet(TaskList)
NoRun == [pc |-> "none", copy |-> [t \in Tasks |-> None], plan |-> <<>>]

Init ==
  /\ mode \in Modes
  /\ registry = [t \in Tasks |-> None]
  /\ session = [t \in Tasks |-> None]
  /\ legacy = {}
  /\ run = NoRun
  /\ runs = 0
  /\ prompted = {}

-----------------------------------------------------------------------------
(* What a run starts                                                       *)

\* The elements of s that are in S, in their order.
Only(s, S) ==
  LET kept[i \in 0..Len(s)] ==
        IF i = 0 THEN <<>>
        ELSE IF s[i] \in S THEN Append(kept[i - 1], s[i]) ELSE kept[i - 1]
  IN  kept[Len(s)]

\* Those without an old workspace and without a record.
Open == {t \in Tasks : t \notin legacy /\ registry[t] = None}

\* Mutant: tasks that were never tried come before those that have a session.
Eligible_freshFirst ==
  Only(TaskList, {t \in Open : session[t] = None})
    \o Only(TaskList, {t \in Open : session[t] # None})

Eligible == Only(TaskList, Open)

Places(gpus) ==
  [i \in 1..(Len(gpus) * SlotsPerGpu) |->
     [gpu |-> gpus[1 + (i - 1) \div SlotsPerGpu], slot |-> (i - 1) % SlotsPerGpu]]

\* choose_assignments: GPU by GPU, the slots that no record has, whether or not
\* its worker still runs.
FreePlaces(gpus) ==
  Only(Places(gpus), {p \in ToSet(Places(gpus)) : \A t \in Tasks : registry[t] # p})

Plan(count, gpus) ==
  LET starts == {Len(Eligible), count, Len(FreePlaces(gpus))}
      n == CHOOSE k \in starts : \A other \in starts : k <= other
  IN  [i \in 1..n |-> [task |-> Eligible[i], place |-> FreePlaces(gpus)[i]]]

-----------------------------------------------------------------------------
(* The steps of a run                                                      *)

At(pc) == run.pc = pc
Goes(pc) == run' = [run EXCEPT !.pc = pc]
Current == Head(run.plan)

Begin ==
  /\ run = NoRun /\ runs < MaxRuns
  /\ \E count \in 1..Len(TaskList), gpus \in Gpus :
       /\ mode = "same" => gpus = CHOOSE g \in Gpus : TRUE
       /\ run' = [pc |-> "session", copy |-> registry, plan |-> Plan(count, gpus)]
  /\ runs' = runs + 1
  /\ UNCHANGED <<mode, registry, session, legacy, prompted>>

\* start_worker: the workspace, then the session if there is none of the name;
\* one that is there keeps the place it was started with.
Session ==
  /\ At("session") /\ run.plan # <<>>
  /\ session' = [session EXCEPT ![Current.task] = IF @ = None THEN Current.place ELSE @]
  /\ Goes("prompt")
  /\ UNCHANGED <<mode, registry, legacy, runs, prompted>>

\* The run's copy of the registry is written whole.
Saves(pc) ==
  LET copy == [run.copy EXCEPT ![Current.task] = Current.place]
  IN  /\ registry' = copy
      /\ run' = [pc |-> pc, copy |-> copy, plan |-> Tail(run.plan)]
      /\ UNCHANGED <<mode, session, legacy, runs, prompted>>

\* Mutant: a worker is recorded before it has its prompt.
Prompt_afterSave == At("prompt") /\ Saves("session")

\* The prompt is pasted: a task of the plan has no record that it was sent.
Prompt ==
  /\ At("prompt") /\ session[Current.task] # None
  /\ prompted' = prompted \cup {Current.task}
  /\ Goes("save")
  /\ UNCHANGED <<mode, registry, session, legacy, runs>>

Save == At("save") /\ Saves("session")

\* start_monitor and the last write.
End ==
  /\ At("session") /\ run.plan = <<>>
  /\ registry' = run.copy
  /\ run' = NoRun
  /\ UNCHANGED <<mode, session, legacy, runs, prompted>>

\* tmux fails, or the connection ends.
Fail ==
  /\ run # NoRun
  /\ run' = NoRun
  /\ UNCHANGED <<mode, registry, session, legacy, runs, prompted>>

WorkerEnds(t) ==
  /\ session[t] # None
  /\ session' = [session EXCEPT ![t] = None]
  /\ prompted' = prompted \ {t}
  /\ UNCHANGED <<mode, registry, legacy, run, runs>>

LegacyMade(t) ==
  /\ mode = "varied" /\ t \notin legacy
  /\ legacy' = legacy \cup {t}
  /\ UNCHANGED <<mode, registry, session, run, runs, prompted>>

Next ==
  \/ Begin \/ Session \/ Prompt \/ Save \/ End \/ Fail
  \/ \E t \in Tasks : WorkerEnds(t) \/ LegacyMade(t)

Spec == Init /\ [][Next]_vars

-----------------------------------------------------------------------------
(* Properties                                                              *)

\* Wherever runs end and however often they are repeated, with any number of
\* tasks each: no two sessions were started for the same slot, and a session runs
\* in the slot its record names.
SlotsKept ==
  mode = "same" =>
    \A t \in Tasks : session[t] # None =>
      /\ registry[t] \in {None, session[t]}
      /\ \A u \in Tasks \ {t} : session[t] # session[u]

\* A recorded worker is never started again, so that it must have its prompt,
\* wherever a run ended.
RecordedIsPrompted ==
  \A t \in Tasks : registry[t] # None /\ session[t] # None => t \in prompted
==============================================================================
