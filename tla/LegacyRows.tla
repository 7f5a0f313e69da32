----------------------------- MODULE LegacyRows -----------------------------
(***************************************************************************)
(* The rows that sync-feishu --include-legacy writes (monitor_state.py):   *)
(* those of the tasks of the experiment, from their workspaces, merged     *)
(* with those of an older control plane, which lists its tasks by name or  *)
(* by number.  A row says from which source its metric is: 0 the           *)
(* workspace, i the i-th entry of the older list.                          *)
(***************************************************************************)
EXTENDS Integers, Sequences, FiniteSets

CONSTANTS
  Tasks,
  Numbered,     \* the tasks whose name has the form FI-<number>
  Workspaces,   \* lists of workspaces that a snapshot may find
  MaxEntries,   \* bound: entries of the older list
  None

VARIABLES
  tasks,        \* the manifest
  workspaces,
  entries,      \* of the older list
  rows          \* the merged rows by their key, None before the merge

vars == <<tasks, workspaces, entries, rows>>

Entries ==
  [task : Tasks, form : {"name", "number"}, binding : {"running", "queued"},
   live : BOOLEAN, metric : BOOLEAN]

Init ==
  /\ tasks \in SUBSET Tasks
  /\ workspaces \in Workspaces
  /\ entries \in UNION {[1..n -> Entries] : n \in 0..MaxEntries}
  /\ rows = None

-----------------------------------------------------------------------------
(* Rows                                                                    *)

Row(status, i, metric) == [status |-> status, metric |-> IF metric THEN i ELSE None]

\* A status file that is no JSON is one of state unknown; the metric may be from
\* the benchmark file.
TaskRow(workspace) == Row(workspace.state, 0, workspace.metric)

\* Of several workspaces of a task, the last that is listed.
Primary ==
  [t \in tasks |->
     LET mine == {i \in DOMAIN workspaces : workspaces[i].task = t}
     IN  IF mine = {} THEN Row("no_workspace", 0, FALSE)
         ELSE TaskRow(workspaces[CHOOSE i \in mine : \A j \in mine : j <= i])]

LegacyStatus(entry) ==
  IF entry.binding = "queued" THEN "legacy_queued"
  ELSE IF entry.live THEN "legacy_running" ELSE "legacy_stale"

LegacyRow(i) == Row(LegacyStatus(entries[i]), i, entries[i].metric)

\* A number stands for a task of the manifest, or for itself.
Key(entry) ==
  IF entry.form = "number" /\ ~(entry.task \in tasks /\ entry.task \in Numbered)
  THEN <<entry.task, "number">> ELSE <<entry.task>>

Replaceable == {"no_workspace", "pending", "queued", "unknown"}

Put(f, key, row) == [k \in DOMAIN f \cup {key} |-> IF k = key THEN row ELSE f[k]]

\* Mutant: an entry is compared with the task's own row, not with the merged one.
Compared_own(merged, key) ==
  IF Len(key) = 1 /\ key[1] \in tasks THEN Primary[key[1]].status ELSE "unknown"

\* The status that decides between the row that is there and the entry's.
Compared(merged, key) == IF key \in DOMAIN merged THEN merged[key].status ELSE "unknown"

\* An entry replaces a row that has not started; otherwise its metric fills a gap.
MergeEntry(i, merged) ==
  LET key == Key(entries[i])
      row == LegacyRow(i)
  IN  IF Compared(merged, key) \in Replaceable THEN Put(merged, key, row)
      ELSE [merged EXCEPT ![key].metric = IF @ = None THEN row.metric ELSE @]

\* The rows of the tasks, then one entry after the other.
Own == [k \in {<<t>> : t \in tasks} |-> Primary[k[1]]]

Merged[n \in 0..Len(entries)] == IF n = 0 THEN Own ELSE MergeEntry(n, Merged[n - 1])

Merge ==
  /\ rows = None
  /\ rows' = Merged[Len(entries)]
  /\ UNCHANGED <<tasks, workspaces, entries>>

Next == Merge

Spec == Init /\ [][Next]_vars

-----------------------------------------------------------------------------
(* Properties                                                              *)

\* The sources of a row: the task's workspace if there is a task, and the entries.
Started(key) == Len(key) = 1 /\ key[1] \in tasks /\ Primary[key[1]].status \notin Replaceable
About(key) == {i \in DOMAIN entries : Key(entries[i]) = key}
Least(S) == CHOOSE i \in S : \A j \in S : i <= j

\* However often a task is listed, under its name and under its number: there is
\* one row, with the status of the workspace if work has started in it, else of
\* the first entry; and the first metric from there on is the row's.
FirstStartedWins ==
  rows # None => \A key \in DOMAIN rows :
    LET head == IF Started(key) \/ About(key) = {} THEN 0 ELSE Least(About(key))
        own == Len(key) = 1 /\ key[1] \in tasks /\ Primary[key[1]].metric # None
        measured == {i \in About(key) : i >= head /\ entries[i].metric}
                      \cup (IF head = 0 /\ own THEN {0} ELSE {})
    IN  /\ rows[key].status = IF head = 0 THEN Primary[key[1]].status
                              ELSE LegacyStatus(entries[head])
        /\ rows[key].metric = IF measured = {} THEN None ELSE Least(measured)
=============================================================================
