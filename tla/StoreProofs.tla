----------------------------- MODULE StoreProofs -----------------------------
(***************************************************************************)
(* Proofs about Store for any number of tasks, workers and slots.          *)
(***************************************************************************)
EXTENDS Store, SequenceTheorems, FiniteSetTheorems, TLAPS

\* The task u is somewhere in the list q.
Occurs(q, u) == \E i \in DOMAIN q : q[i] = u

\* A list of tasks in which no task comes twice.
Distinct(q) == q \in Seq(Tasks) /\ IsInjective(q)

-----------------------------------------------------------------------------
(* The list operations the queue is built with.                            *)

\* A contiguous part of a list without duplicates has none.
LEMMA SubSeqDistinct ==
  ASSUME NEW q, Distinct(q), NEW m \in Int, NEW n \in Int, 1 <= m, n <= Len(q)
  PROVE  /\ Distinct(SubSeq(q, m, n))
         /\ \A u : Occurs(SubSeq(q, m, n), u) <=> \E i \in m .. n : q[i] = u
<1> DEFINE r == SubSeq(q, m, n)
<1>1. q \in Seq(Tasks) /\ DOMAIN q = 1 .. Len(q) /\ Len(q) \in Nat
  BY LenProperties DEF Distinct
<1>2. \A i \in m .. n : q[i] \in Tasks
  BY <1>1, ElementOfSeq
<1>3. /\ r \in Seq(Tasks)
      /\ m <= n => Len(r) = n - m + 1
      /\ ~(m <= n) => Len(r) = 0
      /\ \A i \in 1 .. n - m + 1 : r[i] = q[m + i - 1]
  BY <1>2, SubSeqProperties
<1> HIDE DEF r
<1>4. DOMAIN r = 1 .. n - m + 1
  BY <1>3, LenProperties
<1>5. Distinct(r)
  <2> SUFFICES ASSUME NEW i \in DOMAIN r, NEW j \in DOMAIN r, r[i] = r[j]
               PROVE  i = j
    BY <1>3 DEF Distinct, IsInjective
  <2>1. m + i - 1 \in 1 .. Len(q) /\ m + j - 1 \in 1 .. Len(q)
    BY <1>1, <1>4
  <2>2. q[m + i - 1] = q[m + j - 1]
    BY <1>3, <1>4
  <2>3. m + i - 1 = m + j - 1
    BY <1>1, <2>1, <2>2 DEF Distinct, IsInjective
  <2> QED BY <1>4, <2>3
<1>6. ASSUME NEW u PROVE Occurs(r, u) <=> \E i \in m .. n : q[i] = u
  <2>1. ASSUME Occurs(r, u) PROVE \E i \in m .. n : q[i] = u
    <3>1. PICK i \in 1 .. n - m + 1 : r[i] = u
      BY <1>4, <2>1 DEF Occurs
    <3>2. m + i - 1 \in m .. n /\ q[m + i - 1] = u
      BY <1>3, <3>1
    <3> QED BY <3>2
  <2>2. ASSUME NEW i \in m .. n, q[i] = u PROVE Occurs(r, u)
    <3>1. i - m + 1 \in 1 .. n - m + 1 /\ m + (i - m + 1) - 1 = i
      OBVIOUS
    <3>2. r[i - m + 1] = u
      BY <1>3, <2>2, <3>1
    <3> QED BY <1>4, <3>1, <3>2 DEF Occurs
  <2> QED BY <2>1, <2>2
<1> QED BY <1>5, <1>6 DEF r

\* Two lists without duplicates that share no task, one after the other.
LEMMA ConcatDistinct ==
  ASSUME NEW a, NEW b, Distinct(a), Distinct(b), \A u : ~(Occurs(a, u) /\ Occurs(b, u))
  PROVE  /\ Distinct(a \o b)
         /\ \A u : Occurs(a \o b, u) <=> Occurs(a, u) \/ Occurs(b, u)
<1> DEFINE c == a \o b
<1>1. /\ a \in Seq(Tasks) /\ DOMAIN a = 1 .. Len(a) /\ Len(a) \in Nat
      /\ b \in Seq(Tasks) /\ DOMAIN b = 1 .. Len(b) /\ Len(b) \in Nat
  BY LenProperties DEF Distinct
<1>2. /\ c \in Seq(Tasks) /\ Len(c) = Len(a) + Len(b)
      /\ \A i \in 1 .. Len(a) + Len(b) : c[i] = IF i <= Len(a) THEN a[i] ELSE b[i - Len(a)]
  BY <1>1, ConcatProperties
<1> HIDE DEF c
<1>3. DOMAIN c = 1 .. Len(a) + Len(b)
  BY <1>2, LenProperties
<1>4. ASSUME NEW i \in DOMAIN c
      PROVE  \/ i \in DOMAIN a /\ c[i] = a[i]
             \/ i - Len(a) \in DOMAIN b /\ c[i] = b[i - Len(a)]
  BY <1>1, <1>2, <1>3
<1>5. Distinct(c)
  <2> SUFFICES ASSUME NEW i \in DOMAIN c, NEW j \in DOMAIN c, c[i] = c[j]
               PROVE  i = j
    BY <1>2 DEF Distinct, IsInjective
  <2>1. CASE i \in DOMAIN a /\ c[i] = a[i] /\ j \in DOMAIN a /\ c[j] = a[j]
    BY <2>1 DEF Distinct, IsInjective
  <2>2. CASE /\ i - Len(a) \in DOMAIN b /\ c[i] = b[i - Len(a)]
             /\ j - Len(a) \in DOMAIN b /\ c[j] = b[j - Len(a)]
    <3>1. i - Len(a) = j - Len(a)
      BY <2>2 DEF Distinct, IsInjective
    <3> QED BY <1>1, <1>3, <3>1
  <2>3. CASE i \in DOMAIN a /\ c[i] = a[i] /\ j - Len(a) \in DOMAIN b /\ c[j] = b[j - Len(a)]
    BY <2>3 DEF Occurs
  <2>4. CASE j \in DOMAIN a /\ c[j] = a[j] /\ i - Len(a) \in DOMAIN b /\ c[i] = b[i - Len(a)]
    BY <2>4 DEF Occurs
  <2> QED BY <1>4, <2>1, <2>2, <2>3, <2>4
<1>6. ASSUME NEW u PROVE Occurs(c, u) <=> Occurs(a, u) \/ Occurs(b, u)
  <2>1. ASSUME Occurs(c, u) PROVE Occurs(a, u) \/ Occurs(b, u)
    BY <1>4, <2>1 DEF Occurs
  <2>2. ASSUME NEW i \in DOMAIN a, a[i] = u PROVE Occurs(c, u)
    BY <1>1, <1>2, <1>3, <2>2 DEF Occurs
  <2>3. ASSUME NEW i \in DOMAIN b, b[i] = u PROVE Occurs(c, u)
    <3>1. i + Len(a) \in DOMAIN c /\ ~(i + Len(a) <= Len(a)) /\ (i + Len(a)) - Len(a) = i
      BY <1>1, <1>3
    <3>2. c[i + Len(a)] = u
      BY <1>2, <1>3, <2>3, <3>1
    <3> QED BY <3>1, <3>2 DEF Occurs
  <2> QED BY <2>1, <2>2, <2>3 DEF Occurs
<1> QED BY <1>5, <1>6 DEF c

\* Append of a task that is not in the list.
LEMMA AppendDistinct ==
  ASSUME NEW q, Distinct(q), NEW t \in Tasks, ~Occurs(q, t)
  PROVE  /\ Distinct(Append(q, t))
         /\ \A u : Occurs(Append(q, t), u) <=> Occurs(q, u) \/ u = t
<1>1. Distinct(<<t>>) /\ \A u : Occurs(<<t>>, u) <=> u = t
  BY DEF Distinct, Occurs, IsInjective
<1>2. Append(q, t) = q \o <<t>>
  BY AppendIsConcat DEF Distinct
<1> QED BY <1>1, <1>2, ConcatDistinct

\* RemoveFirst takes the one occurrence of t out of a list without duplicates.
LEMMA RemoveFirstDistinct ==
  ASSUME NEW q, Distinct(q), NEW t \in Tasks
  PROVE  /\ Distinct(RemoveFirst(q, t))
         /\ \A u : Occurs(RemoveFirst(q, t), u) <=> Occurs(q, u) /\ u # t
<1>1. q \in Seq(Tasks) /\ DOMAIN q = 1 .. Len(q) /\ Len(q) \in Nat
  BY LenProperties DEF Distinct
<1>2. CASE ~Occurs(q, t)
  <2>1. RemoveFirst(q, t) = q
    BY <1>1, <1>2 DEF RemoveFirst, Occurs
  <2> QED BY <2>1, <1>2 DEF Occurs
<1>3. CASE Occurs(q, t)
  <2> DEFINE I == {i \in 1 .. Len(q) : q[i] = t}
  <2>1. PICK k \in 1 .. Len(q) : q[k] = t
    BY <1>1, <1>3 DEF Occurs
  <2>2. I = {k}
    BY <1>1, <2>1 DEF Distinct, IsInjective
  <2>3. SelectInSeq(q, LAMBDA v : v = t) = k
    <3>1. SelectInSeq(q, LAMBDA v : v = t) = IF I # {} THEN Min(I) ELSE 0
      BY DEF SelectInSeq
    <3>2. Min({k}) = k
      BY <2>1 DEF Min
    <3> QED BY <3>1, <3>2, <2>2
  <2> DEFINE a == SubSeq(q, 1, k - 1)
             b == SubSeq(q, k + 1, Len(q))
  <2>4. RemoveFirst(q, t) = a \o b
    BY <2>1, <2>3 DEF RemoveFirst, RemoveAt
  <2>5. /\ Distinct(a) /\ \A u : Occurs(a, u) <=> \E i \in 1 .. k - 1 : q[i] = u
        /\ Distinct(b) /\ \A u : Occurs(b, u) <=> \E i \in k + 1 .. Len(q) : q[i] = u
    BY <1>1, <2>1, SubSeqDistinct
  <2> HIDE DEF a, b
  <2>6. ASSUME NEW u, Occurs(a, u), Occurs(b, u) PROVE FALSE
    <3>1. PICK i \in 1 .. k - 1 : q[i] = u
      BY <2>5, <2>6
    <3>2. PICK j \in k + 1 .. Len(q) : q[j] = u
      BY <2>5, <2>6
    <3>3. i \in DOMAIN q /\ j \in DOMAIN q /\ i # j
      BY <1>1, <2>1, <3>1, <3>2
    <3> QED BY <3>1, <3>2, <3>3 DEF Distinct, IsInjective
  <2>7. Distinct(a \o b) /\ \A u : Occurs(a \o b, u) <=> Occurs(a, u) \/ Occurs(b, u)
    BY <2>5, <2>6, ConcatDistinct
  <2>8. ASSUME NEW u PROVE Occurs(a, u) \/ Occurs(b, u) <=> Occurs(q, u) /\ u # t
    <3>1. Occurs(a, u) \/ Occurs(b, u) <=> \E i \in (1 .. Len(q)) \ {k} : q[i] = u
      BY <1>1, <2>1, <2>5
    <3> QED BY <1>1, <2>1, <3>1 DEF Occurs, Distinct, IsInjective
  <2> QED BY <2>4, <2>7, <2>8
<1> QED BY <1>2, <1>3

-----------------------------------------------------------------------------
(* The queue under the updates of the task table.                          *)

\* The part of the type invariant that speaks of the queue.
QueueMatches(q, tab) == Distinct(q) /\ \A t \in Tasks : tab[t] = "QUEUED" <=> Occurs(q, t)

LEMMA TypeParts ==
  StoreTypeOK <=> /\ task \in [Tasks -> STATES \cup {Absent}]
                  /\ QueueMatches(queue, task)
                  /\ rowTask \in [Workers -> Tasks \cup {None}]
                  /\ live \subseteq Workers
BY DEF StoreTypeOK, QueueOK, QueueMatches, Distinct, Occurs

LEMMA TypePartsNext ==
  StoreTypeOK' <=> /\ task' \in [Tasks -> STATES \cup {Absent}]
                   /\ QueueMatches(queue', task')
                   /\ rowTask' \in [Workers -> Tasks \cup {None}]
                   /\ live' \subseteq Workers
BY DEF StoreTypeOK, QueueOK, QueueMatches, Distinct, Occurs

\* UPDATE task SET state keeps the table and the queue in step.
LEMMA PutStateTypes ==
  ASSUME StoreTypeOK, NEW t \in Tasks, NEW new \in STATES, PutState(t, new)
  PROVE  /\ task' \in [Tasks -> STATES \cup {Absent}]
         /\ QueueMatches(queue', task')
<1>1. QueueMatches(queue, task) /\ task \in [Tasks -> STATES \cup {Absent}]
  BY TypeParts
<1> DEFINE r == RemoveFirst(queue, t)
<1>2. Distinct(r) /\ \A u : Occurs(r, u) <=> Occurs(queue, u) /\ u # t
  BY <1>1, RemoveFirstDistinct DEF QueueMatches
<1> HIDE DEF r
<1>3. task' = [task EXCEPT ![t] = new]
  BY DEF PutState
<1>4. CASE new = "QUEUED"
  <2>1. queue' = Append(r, t)
    BY <1>4 DEF PutState, r
  <2>2. Distinct(queue') /\ \A u : Occurs(queue', u) <=> Occurs(r, u) \/ u = t
    BY <1>2, <2>1, AppendDistinct
  <2> QED BY <1>1, <1>2, <1>3, <1>4, <2>2 DEF QueueMatches
<1>5. CASE new # "QUEUED"
  <2>1. queue' = r
    BY <1>5 DEF PutState, r
  <2> QED BY <1>1, <1>2, <1>3, <1>5, <2>1 DEF QueueMatches
<1> QED BY <1>4, <1>5

-----------------------------------------------------------------------------
(* What a claim may take.                                                  *)

\* The counts are natural numbers: there are finitely many tasks and workers.
LEMMA FiniteCounts ==
  ASSUME live \subseteq Workers
  PROVE  /\ IsFiniteSet(live) /\ Cardinality(live) \in Nat
         /\ IsFiniteSet(Dispatching) /\ Cardinality(Dispatching) \in Nat
         /\ InUse \in Nat
BY StoreAssumptions, FS_Subset, FS_CardinalityType DEF Dispatching, InUse

\* A claim takes QUEUED tasks only, and no more than there is room for.
LEMMA ClaimedFacts ==
  ASSUME StoreTypeOK, ClaimCount > 0
  PROVE  /\ ClaimCount \in 1 .. Len(queue)
         /\ ClaimCount <= MaxWorkers - InUse
         /\ Claimed \subseteq {t \in Tasks : task[t] = "QUEUED"}
         /\ IsFiniteSet(Claimed) /\ Cardinality(Claimed) <= ClaimCount
<1>1. /\ queue \in Seq(Tasks) /\ DOMAIN queue = 1 .. Len(queue) /\ Len(queue) \in Nat
      /\ QueueMatches(queue, task)
  BY TypeParts, LenProperties DEF QueueMatches, Distinct
<1>2. InUse \in Nat /\ MaxWorkers \in Nat
  BY TypeParts, FiniteCounts, StoreAssumptions
<1>3. ClaimCount \in 1 .. Len(queue) /\ ClaimCount <= MaxWorkers - InUse
  BY <1>1, <1>2 DEF ClaimCount
<1>4. Claimed \subseteq {t \in Tasks : task[t] = "QUEUED"}
  <2> SUFFICES ASSUME NEW i \in 1 .. ClaimCount
               PROVE  queue[i] \in Tasks /\ task[queue[i]] = "QUEUED"
    BY DEF Claimed
  <2>1. i \in 1 .. Len(queue)
    BY <1>1, <1>3
  <2>2. queue[i] \in Tasks
    BY <1>1, <2>1, ElementOfSeq
  <2> QED BY <1>1, <2>1, <2>2 DEF QueueMatches, Occurs
<1>5. IsFiniteSet(Claimed)
  BY <1>4, StoreAssumptions, FS_Subset
<1>6. Cardinality(Claimed) <= ClaimCount
  <2> DEFINE f == [i \in 1 .. ClaimCount |-> queue[i]]
  <2>1. f \in Surjection(1 .. ClaimCount, Claimed)
    BY DEF Surjection, Claimed
  <2>2. ExistsSurjection(1 .. ClaimCount, Claimed)
    BY <2>1 DEF ExistsSurjection
  <2> QED BY <1>3, <2>2, FS_SurjCardinalityBound
<1> QED BY <1>3, <1>4, <1>5, <1>6

-----------------------------------------------------------------------------
(* Type correctness                                                        *)

\* A batch of distinct new ids goes somewhere into the queue.
LEMMA CreateTasksTypes ==
  ASSUME StoreTypeOK, NEW b \in Batches, NEW place \in 0 .. Len(queue), CreateTasks(b, place)
  PROVE  StoreTypeOK'
<1>1. QueueMatches(queue, task) /\ task \in [Tasks -> STATES \cup {Absent}]
  BY TypeParts
<1>2. Distinct(queue) /\ Len(queue) \in Nat /\ DOMAIN queue = 1 .. Len(queue)
  BY <1>1, LenProperties DEF QueueMatches, Distinct
<1>3. Distinct(b)
  <2>1. PICK n \in 1 .. Cardinality(Tasks) : b \in [1 .. n -> Tasks]
    BY DEF Batches
  <2>2. Cardinality(Tasks) \in Nat
    BY StoreAssumptions, FS_CardinalityType
  <2> QED BY <2>1, <2>2, IsASeq DEF Distinct, Batches
<1> DEFINE head == SubSeq(queue, 1, place)
           tail == SubSeq(queue, place + 1, Len(queue))
<1>4. /\ Distinct(head) /\ \A u : Occurs(head, u) <=> \E i \in 1 .. place : queue[i] = u
      /\ Distinct(tail) /\ \A u : Occurs(tail, u) <=> \E i \in place + 1 .. Len(queue) : queue[i] = u
  BY <1>2, SubSeqDistinct
<1> HIDE DEF head, tail
<1>5. \A u : Occurs(b, u) <=> u \in ToSet(b)
  BY DEF Occurs, ToSet
<1>6. \A u : ~(Occurs(b, u) /\ Occurs(queue, u))
  BY <1>1, <1>2, <1>3 DEF CreateTasks, QueueMatches, Occurs, Distinct, Absent
<1>7. ASSUME NEW u PROVE (Occurs(head, u) \/ Occurs(tail, u)) <=> Occurs(queue, u)
  <2>1. (1 .. place) \cup (place + 1 .. Len(queue)) = DOMAIN queue
    BY <1>2
  <2>2. Occurs(queue, u) <=> \E i \in DOMAIN queue : queue[i] = u
    BY DEF Occurs
  <2> QED BY <1>4, <2>1, <2>2
<1>8. ASSUME NEW u, Occurs(head, u), Occurs(tail, u) PROVE FALSE
  <2>1. PICK i \in 1 .. place : queue[i] = u
    BY <1>4, <1>8
  <2>2. PICK j \in place + 1 .. Len(queue) : queue[j] = u
    BY <1>4, <1>8
  <2>3. i \in DOMAIN queue /\ j \in DOMAIN queue /\ i # j
    BY <1>2, <2>1, <2>2
  <2> QED BY <1>2, <2>1, <2>2, <2>3 DEF Distinct, IsInjective
<1>9. Distinct(head \o b) /\ \A u : Occurs(head \o b, u) <=> Occurs(head, u) \/ Occurs(b, u)
  BY <1>3, <1>4, <1>6, <1>7, ConcatDistinct
<1>10. /\ Distinct((head \o b) \o tail)
       /\ \A u : Occurs((head \o b) \o tail, u) <=> Occurs(queue, u) \/ Occurs(b, u)
  BY <1>4, <1>6, <1>7, <1>8, <1>9, ConcatDistinct
<1>11. QueueMatches(queue', task')
  <2>1. queue' = (head \o b) \o tail
    BY DEF CreateTasks, head, tail
  <2> QED BY <1>1, <1>5, <1>10, <2>1 DEF CreateTasks, QueueMatches
<1>12. task' \in [Tasks -> STATES \cup {Absent}]
  BY <1>1 DEF CreateTasks, STATES
<1> QED BY <1>11, <1>12, TypeParts, TypePartsNext DEF CreateTasks

\* A claim takes a prefix of the queue.
LEMMA ClaimTypes ==
  ASSUME StoreTypeOK, ClaimQueuedTasks
  PROVE  StoreTypeOK'
<1>1. QueueMatches(queue, task) /\ task \in [Tasks -> STATES \cup {Absent}]
  BY TypeParts
<1>2. Distinct(queue) /\ Len(queue) \in Nat /\ DOMAIN queue = 1 .. Len(queue)
  BY <1>1, LenProperties DEF QueueMatches, Distinct
<1>3. ClaimCount \in 1 .. Len(queue)
  BY ClaimedFacts DEF ClaimQueuedTasks
<1>4. /\ Distinct(queue')
      /\ \A u : Occurs(queue', u) <=> \E i \in ClaimCount + 1 .. Len(queue) : queue[i] = u
  BY <1>2, <1>3, SubSeqDistinct DEF ClaimQueuedTasks
<1>5. ASSUME NEW u PROVE Occurs(queue', u) <=> Occurs(queue, u) /\ u \notin Claimed
  <2>1. ASSUME Occurs(queue', u) PROVE Occurs(queue, u) /\ u \notin Claimed
    <3>1. PICK i \in ClaimCount + 1 .. Len(queue) : queue[i] = u
      BY <1>4, <2>1
    <3>2. i \in DOMAIN queue /\ \A j \in 1 .. ClaimCount : j \in DOMAIN queue /\ j # i
      BY <1>2, <1>3, <3>1
    <3>3. \A j \in 1 .. ClaimCount : queue[j] # u
      BY <1>2, <3>1, <3>2 DEF Distinct, IsInjective
    <3> QED BY <3>1, <3>2, <3>3 DEF Occurs, Claimed
  <2>2. ASSUME Occurs(queue, u), u \notin Claimed PROVE Occurs(queue', u)
    <3>1. PICK i \in 1 .. Len(queue) : queue[i] = u
      BY <1>2, <2>2 DEF Occurs
    <3>2. i \notin 1 .. ClaimCount
      BY <2>2, <3>1 DEF Claimed
    <3>3. i \in ClaimCount + 1 .. Len(queue)
      BY <1>2, <1>3, <3>2
    <3> QED BY <1>4, <3>1, <3>3
  <2> QED BY <2>1, <2>2
<1>6. QueueMatches(queue', task')
  <2>1. task' = [t \in Tasks |-> IF t \in Claimed THEN "DISPATCHING" ELSE task[t]]
    BY DEF ClaimQueuedTasks
  <2> QED BY <1>1, <1>4, <1>5, <2>1 DEF QueueMatches
<1>7. task' \in [Tasks -> STATES \cup {Absent}]
  BY <1>1 DEF ClaimQueuedTasks, STATES
<1> QED BY <1>6, <1>7, TypeParts, TypePartsNext DEF ClaimQueuedTasks

\* Every call of a Store method leaves the tables well formed.
LEMMA TypeStep ==
  ASSUME StoreTypeOK, [StoreNext]_storeVars
  PROVE  StoreTypeOK'
<1>0. /\ task \in [Tasks -> STATES \cup {Absent}] /\ QueueMatches(queue, task)
      /\ rowTask \in [Workers -> Tasks \cup {None}] /\ live \subseteq Workers
  BY TypeParts
<1>1. ASSUME NEW b \in Batches, NEW place \in 0 .. Len(queue), CreateTasks(b, place)
      PROVE  StoreTypeOK'
  BY <1>1, CreateTasksTypes
<1>2. CASE ClaimQueuedTasks
  BY <1>2, ClaimTypes
<1>3. ASSUME NEW S \in SUBSET Tasks, MarkStaleDispatchingLost(S)
      PROVE  StoreTypeOK'
  <2>1. task' \in [Tasks -> STATES \cup {Absent}]
    BY <1>0, <1>3 DEF MarkStaleDispatchingLost, STATES
  <2>2. \A t \in Tasks : task'[t] = "QUEUED" <=> task[t] = "QUEUED"
    BY <1>0, <1>3 DEF MarkStaleDispatchingLost, Dispatching
  <2> QED BY <1>0, <1>3, <2>1, <2>2, TypePartsNext DEF MarkStaleDispatchingLost, QueueMatches
<1>4. ASSUME NEW t \in Tasks, NEW c \in SetCalls, SetTaskState(t, c[1], c[2])
      PROVE  StoreTypeOK'
  <2>1. c[1] \in STATES /\ PutState(t, c[1])
    BY <1>4 DEF SetTaskState, CanMove
  <2> QED BY <1>0, <1>4, <2>1, PutStateTypes, TypePartsNext DEF SetTaskState
<1>5. ASSUME NEW t \in Tasks, NEW w \in Workers, ActivateWorker(t, w)
      PROVE  StoreTypeOK'
  <2>1. PutState(t, "RUNNING") /\ "RUNNING" \in STATES
    BY <1>5 DEF ActivateWorker, STATES
  <2> QED BY <1>0, <1>5, <2>1, PutStateTypes, TypePartsNext DEF ActivateWorker
<1>6. ASSUME NEW t \in Tasks, NEW w \in Workers \cup {None}, NEW s \in Terminal,
             FinishWorker(t, w, s)
      PROVE  StoreTypeOK'
  <2>1. s \in STATES /\ PutState(t, s)
    BY <1>6 DEF FinishWorker, CanMove
  <2> QED BY <1>0, <1>6, <2>1, PutStateTypes, TypePartsNext DEF FinishWorker
<1>7. ASSUME NEW w \in Workers, EndWorker(w)
      PROVE  StoreTypeOK'
  BY <1>0, <1>7, TypePartsNext DEF EndWorker
<1>8. ASSUME NEW t \in Tasks, DeleteTask(t)
      PROVE  StoreTypeOK'
  <2>1. /\ Distinct(queue')
        /\ \A u : Occurs(queue', u) <=> Occurs(queue, u) /\ u # t
    BY <1>0, <1>8, RemoveFirstDistinct DEF DeleteTask, QueueMatches
  <2>2. QueueMatches(queue', task')
    BY <1>0, <1>8, <2>1 DEF DeleteTask, QueueMatches, Absent
  <2> QED BY <1>0, <1>8, <2>2, TypePartsNext DEF DeleteTask
<1>9. CASE UNCHANGED storeVars
  BY <1>0, <1>9, TypePartsNext DEF storeVars
<1> QED BY <1>1, <1>2, <1>3, <1>4, <1>5, <1>6, <1>7, <1>8, <1>9 DEF StoreNext

\* The tables of Store stay well formed, and the queue is the QUEUED rows.
THEOREM TypeCorrect == StoreSpec => []StoreTypeOK
<1>1. StoreInit => StoreTypeOK
  <2> SUFFICES ASSUME StoreInit PROVE StoreTypeOK
    OBVIOUS
  <2>1. QueueMatches(queue, task)
    BY DEF StoreInit, QueueMatches, Distinct, Occurs, IsInjective, Absent
  <2> QED BY <2>1, TypeParts DEF StoreInit
<1>2. StoreTypeOK /\ [StoreNext]_storeVars => StoreTypeOK'
  BY TypeStep
<1> QED BY <1>1, <1>2, PTL DEF StoreSpec

-----------------------------------------------------------------------------
(* Capacity                                                                *)

\* Nothing is added to either count.
LEMMA FewerInUse ==
  ASSUME StoreTypeOK, StoreTypeOK', WithinCapacity,
         live' \subseteq live, Dispatching' \subseteq Dispatching
  PROVE  WithinCapacity'
<1>1. live \subseteq Workers
  BY TypeParts
<1>2. /\ IsFiniteSet(live) /\ Cardinality(live) \in Nat
      /\ IsFiniteSet(Dispatching) /\ Cardinality(Dispatching) \in Nat
  BY <1>1, FiniteCounts
<1>3. /\ Cardinality(live') \in Nat /\ Cardinality(live') <= Cardinality(live)
      /\ Cardinality(Dispatching') \in Nat /\ Cardinality(Dispatching') <= Cardinality(Dispatching)
  BY <1>2, FS_Subset, FS_CardinalityType
<1> QED BY <1>2, <1>3, StoreAssumptions DEF WithinCapacity, InUse

\* A claim reserves at most what the counts leave free.
LEMMA ClaimCapacity ==
  ASSUME StoreTypeOK, WithinCapacity, ClaimQueuedTasks
  PROVE  WithinCapacity'
<1>1. /\ live \subseteq Workers /\ IsFiniteSet(Dispatching) /\ Cardinality(Dispatching) \in Nat
      /\ Cardinality(live) \in Nat
  BY TypeParts, FiniteCounts
<1>2. /\ ClaimCount \in Int /\ ClaimCount <= MaxWorkers - InUse
      /\ IsFiniteSet(Claimed) /\ Cardinality(Claimed) <= ClaimCount
  <2>1. Len(queue) \in Nat
    BY TypeParts, LenProperties DEF QueueMatches, Distinct
  <2> QED BY <2>1, ClaimedFacts DEF ClaimQueuedTasks
<1>3. Dispatching' \subseteq Dispatching \cup Claimed
  BY DEF Dispatching, ClaimQueuedTasks
<1> DEFINE both == Dispatching \cup Claimed
<1>4. IsFiniteSet(both) /\ Cardinality(both) <= Cardinality(Dispatching) + Cardinality(Claimed)
  <2>1. /\ IsFiniteSet(both)
        /\ Cardinality(both) = Cardinality(Dispatching) + Cardinality(Claimed)
                                 - Cardinality(Dispatching \cap Claimed)
    BY <1>1, <1>2, FS_Union
  <2>2. Cardinality(Dispatching \cap Claimed) \in Nat
    BY <1>1, FS_Intersection, FS_CardinalityType
  <2>3. Cardinality(Claimed) \in Nat
    BY <1>2, FS_CardinalityType
  <2> QED BY <1>1, <2>1, <2>2, <2>3
<1>5. Cardinality(Dispatching') <= Cardinality(both) /\ Cardinality(Dispatching') \in Nat
  BY <1>3, <1>4, FS_Subset, FS_CardinalityType
<1>6. Cardinality(Claimed) \in Nat /\ Cardinality(both) \in Nat
  BY <1>2, <1>4, FS_CardinalityType
<1>7. live' = live
  BY DEF ClaimQueuedTasks
<1> HIDE DEF both
<1> QED BY <1>1, <1>2, <1>4, <1>5, <1>6, <1>7, StoreAssumptions DEF WithinCapacity, InUse

\* An activation trades a reservation for a worker row.
LEMMA ActivateCapacity ==
  ASSUME StoreTypeOK, WithinCapacity, NEW t \in Tasks, NEW w \in Workers, ActivateWorker(t, w)
  PROVE  WithinCapacity'
<1>1. /\ task \in [Tasks -> STATES \cup {Absent}] /\ live \subseteq Workers
      /\ IsFiniteSet(live) /\ Cardinality(live) \in Nat
      /\ IsFiniteSet(Dispatching) /\ Cardinality(Dispatching) \in Nat
  BY TypeParts, FiniteCounts
<1>2. t \in Dispatching /\ Dispatching' = Dispatching \ {t}
  BY <1>1 DEF ActivateWorker, PutState, Dispatching
<1>3. Cardinality(Dispatching') = Cardinality(Dispatching) - 1
  BY <1>1, <1>2, FS_RemoveElement
<1>4. Cardinality(live') \in Nat /\ Cardinality(live') <= Cardinality(live) + 1
  <2>1. live' = live \cup {w}
    BY DEF ActivateWorker
  <2>2. CASE w \in live
    <3>1. live' = live
      BY <2>1, <2>2
    <3> QED BY <1>1, <3>1
  <2>3. CASE w \notin live
    <3>1. Cardinality(live \cup {w}) = Cardinality(live) + 1
      BY <1>1, <2>3, FS_AddElement
    <3> QED BY <1>1, <2>1, <3>1
  <2> QED BY <2>2, <2>3
<1> QED BY <1>1, <1>3, <1>4, StoreAssumptions DEF WithinCapacity, InUse

\* No step takes the tables over the capacity.
LEMMA CapacityStep ==
  ASSUME StoreTypeOK, StoreTypeOK', WithinCapacity, [StoreNext]_storeVars
  PROVE  WithinCapacity'
<1>0. task \in [Tasks -> STATES \cup {Absent}]
  BY TypeParts
<1>1. ASSUME NEW b \in Batches, NEW place \in 0 .. Len(queue), CreateTasks(b, place)
      PROVE  WithinCapacity'
  BY <1>0, <1>1, FewerInUse DEF CreateTasks, Dispatching
<1>2. CASE ClaimQueuedTasks
  BY <1>2, ClaimCapacity
<1>3. ASSUME NEW S \in SUBSET Tasks, MarkStaleDispatchingLost(S)
      PROVE  WithinCapacity'
  BY <1>0, <1>3, FewerInUse DEF MarkStaleDispatchingLost, Dispatching
<1>4. ASSUME NEW t \in Tasks, NEW c \in SetCalls, SetTaskState(t, c[1], c[2])
      PROVE  WithinCapacity'
  <2>1. c[1] # "DISPATCHING"
    BY DEF SetCalls
  <2> QED BY <1>0, <1>4, <2>1, FewerInUse DEF SetTaskState, PutState, Dispatching
<1>5. ASSUME NEW t \in Tasks, NEW w \in Workers, ActivateWorker(t, w)
      PROVE  WithinCapacity'
  BY <1>5, ActivateCapacity
<1>6. ASSUME NEW t \in Tasks, NEW w \in Workers \cup {None}, NEW s \in Terminal,
             FinishWorker(t, w, s)
      PROVE  WithinCapacity'
  BY <1>0, <1>6, FewerInUse DEF FinishWorker, PutState, Dispatching, Terminal
<1>7. ASSUME NEW w \in Workers, EndWorker(w)
      PROVE  WithinCapacity'
  BY <1>7, FewerInUse DEF EndWorker, Dispatching
<1>8. ASSUME NEW t \in Tasks, DeleteTask(t)
      PROVE  WithinCapacity'
  BY <1>0, <1>8, FewerInUse DEF DeleteTask, Dispatching, Absent
<1>9. CASE UNCHANGED storeVars
  BY <1>9, FewerInUse DEF storeVars, Dispatching
<1> QED BY <1>1, <1>2, <1>3, <1>4, <1>5, <1>6, <1>7, <1>8, <1>9 DEF StoreNext

-----------------------------------------------------------------------------
(* One live worker row per task                                            *)

\* The surviving rows keep their task, and the task keeps its worker states.
LEMMA RowsKept ==
  ASSUME OneLiveRow, live' \subseteq live,
         \A w \in live' : rowTask'[w] = rowTask[w] /\ task'[rowTask[w]] \in Active \cup Terminal
  PROVE  OneLiveRow'
<1> SUFFICES ASSUME NEW w \in live'
             PROVE  /\ rowTask'[w] # None
                    /\ task'[rowTask'[w]] \in Active \cup Terminal
                    /\ \A v \in live' : rowTask'[v] = rowTask'[w] <=> v = w
  BY DEF OneLiveRow, LiveRows
<1>1. \A v \in live : rowTask[v] = rowTask[w] <=> v = w
  BY DEF OneLiveRow, LiveRows
<1> QED BY <1>1 DEF OneLiveRow

\* No step gives a task a second live row.
LEMMA RowsStep ==
  ASSUME StoreTypeOK, OneLiveRow, [StoreNext]_storeVars
  PROVE  OneLiveRow'
<1>0. /\ task \in [Tasks -> STATES \cup {Absent}] /\ live \subseteq Workers
      /\ rowTask \in [Workers -> Tasks \cup {None}]
      /\ None \notin Workers /\ None \notin Tasks
  BY TypeParts, StoreAssumptions
<1>00. \A w \in live : /\ rowTask[w] \in Tasks
                       /\ task[rowTask[w]] \in Active \cup Terminal
                       /\ task[rowTask[w]] \notin {"QUEUED", "DISPATCHING", Absent}
  BY <1>0 DEF OneLiveRow, Active, Terminal, Absent
<1>1. ASSUME NEW b \in Batches, NEW place \in 0 .. Len(queue), CreateTasks(b, place)
      PROVE  OneLiveRow'
  <2>1. \A u \in ToSet(b) : task[u] = Absent
    BY <1>1 DEF CreateTasks, ToSet
  <2> QED BY <1>0, <1>00, <1>1, <2>1, RowsKept DEF CreateTasks
<1>2. CASE ClaimQueuedTasks
  <2>1. \A u \in Claimed : task[u] = "QUEUED"
    BY <1>2, ClaimedFacts DEF ClaimQueuedTasks
  <2> QED BY <1>0, <1>00, <1>2, <2>1, RowsKept DEF ClaimQueuedTasks
<1>3. ASSUME NEW S \in SUBSET Tasks, MarkStaleDispatchingLost(S)
      PROVE  OneLiveRow'
  BY <1>0, <1>00, <1>3, RowsKept DEF MarkStaleDispatchingLost, Dispatching
<1>4. ASSUME NEW t \in Tasks, NEW c \in SetCalls, SetTaskState(t, c[1], c[2])
      PROVE  OneLiveRow'
  <2>1. c[1] \in Active \/ task[t] = "DISPATCHING"
    BY <1>4 DEF SetTaskState, SetCalls, Active
  <2> QED BY <1>0, <1>00, <1>4, <2>1, RowsKept DEF SetTaskState, PutState
<1>5. ASSUME NEW t \in Tasks, NEW w \in Workers, ActivateWorker(t, w)
      PROVE  OneLiveRow'
  <2>1. /\ task[t] = "DISPATCHING" /\ rowTask[w] = None /\ w \notin live
        /\ \A v \in live : v # w /\ rowTask'[v] = rowTask[v] /\ rowTask[v] # t
        /\ live' = live \cup {w} /\ rowTask'[w] = t
        /\ task' = [task EXCEPT ![t] = "RUNNING"]
    BY <1>0, <1>00, <1>5 DEF ActivateWorker, PutState
  <2> SUFFICES ASSUME NEW v \in live'
               PROVE  /\ rowTask'[v] # None
                      /\ task'[rowTask'[v]] \in Active \cup Terminal
                      /\ \A x \in live' : rowTask'[x] = rowTask'[v] <=> x = v
    BY DEF OneLiveRow, LiveRows
  <2>2. CASE v = w
    BY <1>0, <2>1, <2>2 DEF Active
  <2>3. CASE v \in live
    <3>1. \A x \in live : rowTask[x] = rowTask[v] <=> x = v
      BY <2>3 DEF OneLiveRow, LiveRows
    <3> QED BY <1>0, <1>00, <2>1, <2>3, <3>1
  <2> QED BY <2>1, <2>2, <2>3
<1>6. ASSUME NEW t \in Tasks, NEW w \in Workers \cup {None}, NEW s \in Terminal,
             FinishWorker(t, w, s)
      PROVE  OneLiveRow'
  BY <1>0, <1>00, <1>6, RowsKept DEF FinishWorker, PutState
<1>7. ASSUME NEW w \in Workers, EndWorker(w)
      PROVE  OneLiveRow'
  BY <1>0, <1>00, <1>7, RowsKept DEF EndWorker
<1>8. ASSUME NEW t \in Tasks, DeleteTask(t)
      PROVE  OneLiveRow'
  BY <1>0, <1>00, <1>8, RowsKept DEF DeleteTask
<1>9. CASE UNCHANGED storeVars
  BY <1>0, <1>00, <1>9, RowsKept DEF storeVars
<1> QED BY <1>1, <1>2, <1>3, <1>4, <1>5, <1>6, <1>7, <1>8, <1>9 DEF StoreNext

-----------------------------------------------------------------------------
(* The theorems about the two tables                                       *)

\* Whatever order the methods of Store are called in, live worker rows and
\* DISPATCHING reservations together stay within max_workers.
THEOREM CapacityRespected == StoreSpec => []WithinCapacity
<1>1. StoreInit => WithinCapacity
  <2> SUFFICES ASSUME StoreInit PROVE WithinCapacity
    OBVIOUS
  <2>1. live = {} /\ Dispatching = {}
    BY DEF StoreInit, Dispatching, Absent
  <2> QED BY <2>1, FS_EmptySet, StoreAssumptions DEF WithinCapacity, InUse
<1>2. StoreTypeOK /\ StoreTypeOK' /\ WithinCapacity /\ [StoreNext]_storeVars => WithinCapacity'
  BY CapacityStep
<1> QED BY <1>1, <1>2, TypeCorrect, PTL DEF StoreSpec

\* No task ever has two live worker rows, and a task that has one is neither
\* waiting nor reserved, so no claim can start a second worker for it.
THEOREM NoSecondWorker == StoreSpec => []OneLiveRow
<1>1. StoreInit => OneLiveRow
  BY DEF StoreInit, OneLiveRow
<1>2. StoreTypeOK /\ OneLiveRow /\ [StoreNext]_storeVars => OneLiveRow'
  BY RowsStep
<1> QED BY <1>1, <1>2, TypeCorrect, PTL DEF StoreSpec

\* Every statement of Store that writes a state column writes one transition()
\* accepts, the raw SQL of the claim, the activation and the stale sweep included.
THEOREM OnlyLegalMoves == StoreSpec => LifecycleLegal
<1> DEFINE Legal == \A t \in Tasks :
                      \/ task[t] = Absent /\ task'[t] \in {Absent, "QUEUED"}
                      \/ task'[t] = Absent
                      \/ CanMove(task[t], task'[t])
<1>1. StoreTypeOK /\ [StoreNext]_storeVars => [Legal]_storeVars
  <2> SUFFICES ASSUME StoreTypeOK, StoreNext PROVE Legal
    OBVIOUS
  <2>0. /\ task \in [Tasks -> STATES \cup {Absent}]
        /\ \A u \in Tasks : task[u] = Absent \/ CanMove(task[u], task[u])
    BY TypeParts DEF CanMove
  <2>1. ASSUME NEW b \in Batches, NEW place \in 0 .. Len(queue), CreateTasks(b, place)
        PROVE  Legal
    <3>1. \A u \in ToSet(b) : task[u] = Absent
      BY <2>1 DEF CreateTasks, ToSet
    <3> QED BY <2>0, <2>1, <3>1 DEF CreateTasks
  <2>2. CASE ClaimQueuedTasks
    <3>1. \A u \in Claimed : task[u] = "QUEUED"
      BY <2>2, ClaimedFacts DEF ClaimQueuedTasks
    <3> QED BY <2>0, <2>2, <3>1 DEF ClaimQueuedTasks, CanMove, STATES, Allowed
  <2>3. ASSUME NEW S \in SUBSET Tasks, MarkStaleDispatchingLost(S)
        PROVE  Legal
    BY <2>0, <2>3 DEF MarkStaleDispatchingLost, Dispatching, CanMove, STATES, Allowed
  <2>4. ASSUME NEW t \in Tasks, NEW c \in SetCalls, SetTaskState(t, c[1], c[2])
        PROVE  Legal
    BY <2>0, <2>4 DEF SetTaskState, PutState
  <2>5. ASSUME NEW t \in Tasks, NEW w \in Workers, ActivateWorker(t, w)
        PROVE  Legal
    BY <2>0, <2>5 DEF ActivateWorker, PutState, CanMove, STATES, Allowed
  <2>6. ASSUME NEW t \in Tasks, NEW w \in Workers \cup {None}, NEW s \in Terminal,
               FinishWorker(t, w, s)
        PROVE  Legal
    BY <2>0, <2>6 DEF FinishWorker, PutState
  <2>7. ASSUME NEW w \in Workers, EndWorker(w)
        PROVE  Legal
    BY <2>0, <2>7 DEF EndWorker
  <2>8. ASSUME NEW t \in Tasks, DeleteTask(t)
        PROVE  Legal
    BY <2>0, <2>8 DEF DeleteTask
  <2> QED BY <2>1, <2>2, <2>3, <2>4, <2>5, <2>6, <2>7, <2>8 DEF StoreNext
<1> QED BY <1>1, TypeCorrect, PTL DEF StoreSpec, LifecycleLegal
==============================================================================
