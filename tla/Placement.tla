------------------------------ MODULE Placement ------------------------------
(***************************************************************************)
(* What the patrol of akctl promises of the places it gives to workers:    *)
(* every task is given one place at most once, no place has two workers,   *)
(* and neither the machine nor a GPU is given more workers than its limit. *)
(***************************************************************************)
EXTENDS Integers, FiniteSets

CONSTANTS Tasks, Gpus, MaxActive, MaxPerGpu, None

VARIABLES place, over

placementVars == <<place, over>>

Places == [gpu : Gpus, slot : 0..(MaxPerGpu - 1)]

Placed == {t \in Tasks : place[t] # None}

Init == place = [t \in Tasks |-> None] /\ over = {}

\* A worker is started at a free place; MaxActive = 0 is no limit.
Take(t, p) ==
  /\ t \notin over /\ place[t] = None
  /\ MaxActive > 0 => Cardinality(Placed) < MaxActive
  /\ \A u \in Tasks : place[u] # p
  /\ place' = [place EXCEPT ![t] = p]
  /\ UNCHANGED over

\* A worker has ended, perhaps before its place was noted.
Finish(t) ==
  /\ t \notin over
  /\ place' = [place EXCEPT ![t] = None]
  /\ over' = over \cup {t}

Next == \E t \in Tasks : Finish(t) \/ \E p \in Places : Take(t, p)

Spec == Init /\ [][Next]_placementVars

-----------------------------------------------------------------------------

TypeOK == place \in [Tasks -> Places \cup {None}] /\ over \subseteq Tasks

\* No place has two workers.
PlacesApart ==
  \A t, u \in Placed : place[t] = place[u] => t = u

\* The limit of the machine.
WithinCapacity == MaxActive > 0 => Cardinality(Placed) <= MaxActive

\* The limit of each GPU: its places are numbered below it.
WithinGpu ==
  \A g \in Gpus : Cardinality({t \in Placed : place[t].gpu = g}) <= MaxPerGpu

\* A task is placed once: what is over has no place any more.
OverStaysOver == \A t \in over : place[t] = None
==============================================================================
