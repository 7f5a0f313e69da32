--------------------------- MODULE PlacementProofs ---------------------------
(***************************************************************************)
(* What Placement promises, for any number of tasks, GPUs and slots.  The  *)
(* patrol of akctl implements Placement (PlacementRefined of Akctl), so    *)
(* each of these holds of the places its workers hold.                     *)
(***************************************************************************)
EXTENDS Placement, FiniteSetTheorems, TLAPS

-----------------------------------------------------------------------------
(* The shape of the state                                                  *)

\* What is placed after a step: one task more, or one less.
LEMMA TakePlaced ==
  ASSUME TypeOK, NEW t \in Tasks, NEW p \in Places, None \notin Places, Take(t, p)
  PROVE  Placed' = Placed \cup {t} /\ t \notin Placed
BY DEF TypeOK, Take, Placed

LEMMA FinishPlaced ==
  ASSUME TypeOK, NEW t \in Tasks, Finish(t)
  PROVE  /\ Placed' = Placed \ {t}
         /\ \A u \in Placed' : place'[u] = place[u]
BY DEF TypeOK, Finish, Placed

LEMMA TypeStep ==
  ASSUME TypeOK, [Next]_placementVars
  PROVE  TypeOK'
BY DEF TypeOK, Next, Take, Finish, placementVars

\* Type correctness: every worker has a place that exists, or none.
THEOREM PlacementTypeCorrect == Spec => []TypeOK
<1>1. Init => TypeOK
  BY DEF Init, TypeOK
<1> QED
  BY <1>1, TypeStep, PTL DEF Spec

-----------------------------------------------------------------------------
(* Places                                                                  *)

LEMMA ApartStep ==
  ASSUME None \notin Places, TypeOK, PlacesApart, [Next]_placementVars
  PROVE  PlacesApart'
<1>1. CASE UNCHANGED placementVars
  BY <1>1 DEF PlacesApart, Placed, placementVars
<1>2. ASSUME NEW t \in Tasks, Finish(t)
      PROVE  PlacesApart'
  BY <1>2, FinishPlaced DEF PlacesApart
<1>3. ASSUME NEW t \in Tasks, NEW p \in Places, Take(t, p)
      PROVE  PlacesApart'
  <2>1. Placed' = Placed \cup {t} /\ t \notin Placed
    BY <1>3, TakePlaced
  <2>2. place'[t] = p /\ \A u \in Placed : place'[u] = place[u] /\ place[u] # p
    BY <1>3, <2>1 DEF Take, TypeOK, Placed
  <2> QED
    BY <2>1, <2>2 DEF PlacesApart
<1> QED
  BY <1>1, <1>2, <1>3 DEF Next

\* No place has two workers: no two run in one slot of one GPU.
THEOREM PlacesStayApart ==
  ASSUME None \notin Places
  PROVE  Spec => []PlacesApart
<1>1. Init => TypeOK /\ PlacesApart
  BY DEF Init, TypeOK, PlacesApart, Placed
<1>2. TypeOK /\ PlacesApart /\ [Next]_placementVars => (TypeOK /\ PlacesApart)'
  BY TypeStep, ApartStep
<1> QED
  BY <1>1, <1>2, PTL DEF Spec

-----------------------------------------------------------------------------
(* The limits                                                              *)

LEMMA PlacedFinite ==
  ASSUME IsFiniteSet(Tasks)
  PROVE  IsFiniteSet(Placed) /\ Cardinality(Placed) \in Nat
<1>1. Placed \subseteq Tasks
  BY DEF Placed
<1> QED
  BY <1>1, FS_Subset, FS_CardinalityType

LEMMA CapacityStep ==
  ASSUME IsFiniteSet(Tasks), MaxActive \in Nat, None \notin Places,
         TypeOK, WithinCapacity, [Next]_placementVars
  PROVE  WithinCapacity'
<1>1. CASE UNCHANGED placementVars
  BY <1>1 DEF WithinCapacity, Placed, placementVars
<1>2. ASSUME NEW t \in Tasks, Finish(t)
      PROVE  WithinCapacity'
  <2>1. Placed' \subseteq Placed
    BY <1>2, FinishPlaced
  <2>2. Cardinality(Placed') <= Cardinality(Placed) /\ Cardinality(Placed') \in Nat
    BY <2>1, PlacedFinite, FS_Subset, FS_CardinalityType
  <2> QED
    BY <2>2, PlacedFinite DEF WithinCapacity
<1>3. ASSUME NEW t \in Tasks, NEW p \in Places, Take(t, p)
      PROVE  WithinCapacity'
  <2>1. Placed' = Placed \cup {t} /\ t \notin Placed
    BY <1>3, TakePlaced
  <2>2. Cardinality(Placed') = Cardinality(Placed) + 1
    BY <2>1, PlacedFinite, FS_AddElement
  <2>3. MaxActive > 0 => Cardinality(Placed) < MaxActive
    BY <1>3 DEF Take
  <2> QED
    BY <2>2, <2>3, PlacedFinite DEF WithinCapacity
<1> QED
  BY <1>1, <1>2, <1>3 DEF Next

\* Never more workers at once than the machine takes, whatever order they are
\* started and end in.
THEOREM CapacityKept ==
  ASSUME IsFiniteSet(Tasks), MaxActive \in Nat, None \notin Places
  PROVE  Spec => []WithinCapacity
<1>1. Init => TypeOK /\ WithinCapacity
  <2>1. Init => Placed = {}
    BY DEF Init, Placed
  <2> QED
    BY <2>1, FS_EmptySet DEF Init, TypeOK, WithinCapacity
<1>2. TypeOK /\ WithinCapacity /\ [Next]_placementVars => (TypeOK /\ WithinCapacity)'
  BY TypeStep, CapacityStep
<1> QED
  BY <1>1, <1>2, PTL DEF Spec

\* The limit of a GPU follows from the places: workers on one GPU have different
\* slots, and there are MaxPerGpu of them.
LEMMA ApartWithinGpu ==
  ASSUME MaxPerGpu \in Nat, TypeOK, PlacesApart
  PROVE  WithinGpu
<1> SUFFICES ASSUME NEW g \in Gpus
             PROVE  Cardinality({t \in Placed : place[t].gpu = g}) <= MaxPerGpu
  BY DEF WithinGpu
<1> DEFINE Here == {t \in Placed : place[t].gpu = g}
           slot == [t \in Here |-> place[t].slot]
           Free == 0..(MaxPerGpu - 1)
<1>1. \A t \in Here : place[t] \in Places
  BY DEF TypeOK, Placed
<1>2. slot \in [Here -> Free]
  BY <1>1 DEF Places
<1>3. \A t, u \in Here : slot[t] = slot[u] => t = u
  <2> TAKE t, u \in Here
  <2> HAVE slot[t] = slot[u]
  <2>1. place[t].slot = place[u].slot /\ place[t].gpu = place[u].gpu
    OBVIOUS
  <2>2. place[t] = place[u]
    BY <1>1, <2>1 DEF Places
  <2> QED
    BY <2>2 DEF PlacesApart
<1>4. slot \in Injection(Here, Free)
  BY <1>2, <1>3 DEF Injection, IsInjective
<1>5. IsFiniteSet(Free) /\ Cardinality(Free) = MaxPerGpu
  BY FS_Interval
<1>6. Cardinality(Here) <= Cardinality(Free)
  BY <1>4, <1>5, FS_Injection
<1> QED
  BY <1>5, <1>6

\* No GPU ever has more workers than its limit.
THEOREM GpuLimitKept ==
  ASSUME MaxPerGpu \in Nat, None \notin Places
  PROVE  Spec => []WithinGpu
<1>1. TypeOK /\ PlacesApart => WithinGpu
  BY ApartWithinGpu
<1> QED
  BY <1>1, PlacementTypeCorrect, PlacesStayApart, PTL

-----------------------------------------------------------------------------
(* One run per task                                                        *)

\* A task whose worker has ended is never placed again: patrol does not restart.
THEOREM OverForGood ==
  ASSUME None \notin Places
  PROVE  Spec => []OverStaysOver
<1>1. Init => TypeOK /\ OverStaysOver
  BY DEF Init, TypeOK, OverStaysOver
<1>2. TypeOK /\ OverStaysOver /\ [Next]_placementVars => OverStaysOver'
  BY DEF TypeOK, OverStaysOver, Next, Take, Finish, placementVars
<1> QED
  BY <1>1, <1>2, TypeStep, PTL DEF Spec
==============================================================================
