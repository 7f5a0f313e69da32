------------------------------- MODULE MCAkctl -------------------------------
(***************************************************************************)
(* TLC instances of Akctl: the queue and the bounds a cfg cannot write.    *)
(***************************************************************************)
EXTENDS Akctl

CONSTANTS t1, t2, t3

Row(t, s) == [task |-> t, gpu |-> 0, slot |-> s]

MCCommands ==
  [m \in Modes |-> CASE m = "patrols" -> 5 [] m = "batches" -> 3 [] OTHER -> 2]

\* Three tasks for two places, and a row that is repeated; two tasks, where
\* commands overlap.
MCQueues ==
  [m \in Modes |-> IF m = "overlapping" THEN <<Row(t1, 0), Row(t2, 0)>>
                   ELSE <<Row(t1, 0), Row(t2, 0), Row(t1, 1), Row(t3, 1)>>]
==============================================================================
