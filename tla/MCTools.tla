------------------------------- MODULE MCTools -------------------------------
(***************************************************************************)
(* A small instance of every component beside the server.                  *)
(***************************************************************************)
EXTENDS Tools

CONSTANTS t1, t2, t3, m1, m2, c1, p1, p2

Nudging == [active |-> TRUE, readOnly |-> FALSE, requireIdle |-> TRUE, checkPane |-> TRUE]

MCPolicies == {Nudging, [Nudging EXCEPT !.active = FALSE]}
MCMaxMonitorTime == [single |-> 3, several |-> 1]
MCMaxMonitorCommands == [single |-> 3, several |-> 1]

MCTaskList == <<t1, t2, t3>>
MCGpus == {<<0, 1>>, <<1>>}

MCOwner == [a1 |-> "a", a2 |-> "a", b1 |-> "b"]

Found == [task : {t1}, state : {"pending", "running", "unknown"}, metric : BOOLEAN]
MCRowWorkspaces == {<<>>} \cup {<<w>> : w \in Found} \cup Found \X Found
==============================================================================
