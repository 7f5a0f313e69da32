----------------------------- MODULE MCFlotilla -----------------------------
(***************************************************************************)
(* TLC instances of Flotilla: the functions over tasks a cfg cannot write. *)
(***************************************************************************)
EXTENDS Flotilla

CONSTANTS t1, t2, g1

\* Which GPU each task needs, and on which runtime and host it runs.
OneGpu == [t \in Tasks |-> g1]
AllLocal == [t \in Tasks |-> "local"]
AllShell == [t \in Tasks |-> "shell"]
AllRemote == [t \in Tasks |-> "remote"]
ShellAndLocal == [t \in Tasks |-> IF t = t1 THEN "shell" ELSE "local"]
==============================================================================
