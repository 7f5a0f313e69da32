---------------------------- MODULE FeishuMirror ----------------------------
(***************************************************************************)
(* The Feishu table with a row for each task, and its two writers: the     *)
(* sink of the server (flotilla/sinks/feishu.py), called by every thread   *)
(* that publishes a task, and local-monitor.py init-feishu and             *)
(* sync-feishu, commands that list the records and then write them.        *)
(***************************************************************************)
EXTENDS Integers, Sequences, FiniteSets, SequencesExt

CONSTANTS
  Tasks,
  Threads,      \* of the server that publish
  Modes,        \* who writes: "server" or "commands", one at a time
  Interval,     \* _SYNC_INTERVAL
  Timeout,      \* of a call of the sink; shorter than Interval
  ListLimit,    \* records that a list returns, and a batch creates
  MaxTime, MaxRestarts, MaxCommands, MaxRows,  \* bounds
  None

VARIABLES
  mode,
  table,        \* the records in the order of their ids: a task, Blank or Gone
  cache,        \* FeishuSink._rid and its file: task -> record id, or 0
  lastSync,     \* _LAST_SYNC
  call,         \* the threads of the server in render
  time,         \* the clock, and the number of restarts
  command,      \* the command that runs, or ran last; fill: the records it has yet to
                \* write a row to; create: the rows it has yet to create
  commands,
  lost          \* history: the tasks of which the sink missed an answer or a save

vars == <<mode, table, cache, lastSync, call, time, command, commands, lost>>

Blank == "blank"
Gone == "gone"
Records == DOMAIN table
RowsOf(t) == {i \in Records : table[i] = t}

NoCall == [pc |-> "idle", task |-> None, record |-> 0, since |-> 0]
NoCommand == [pc |-> "none", op |-> None, rows |-> <<>>, map |-> [t \in Tasks |-> 0],
              fill |-> <<>>, create |-> <<>>]

Init ==
  /\ mode \in Modes
  /\ table = <<>>
  /\ cache = [memory |-> [t \in Tasks |-> 0], file |-> [t \in Tasks |-> 0]]
  /\ lastSync = [t \in Tasks |-> None]
  /\ call = [p \in Threads |-> NoCall]
  /\ time = [clock |-> 0, restarts |-> 0]
  /\ command = NoCommand
  /\ commands = 0
  /\ lost = {}

\* An upsert: of the record, or of a new one.  A record that is gone is refused.
CanUpsert(record) == IF record = 0 THEN Len(table) < MaxRows ELSE table[record] # Gone
Upserted(record, t) == IF record = 0 THEN Append(table, t) ELSE [table EXCEPT ![record] = t]

-----------------------------------------------------------------------------
(* FeishuSink.render                                                       *)

besideServer == <<mode, command, commands>>

Due(t) == lastSync[t] # None => time.clock - lastSync[t] >= Interval

Calls(p, t) ==
  call' = [call EXCEPT ![p] = [pc |-> "sent", task |-> t, record |-> cache.memory[t],
                               since |-> time.clock]]

\* Mutant: the time is noted when the call has ended.
Render_stampsLate(p, t) ==
  /\ mode = "server" /\ call[p] = NoCall /\ Due(t)
  /\ Calls(p, t)
  /\ UNCHANGED <<besideServer, table, cache, lastSync, time, lost>>

\* The interval of the task is over: the time is noted under the lock, the
\* record id is looked up, and lark-cli is called.
Render(p, t) ==
  /\ mode = "server" /\ call[p] = NoCall /\ Due(t)
  /\ lastSync' = [lastSync EXCEPT ![t] = time.clock]
  /\ Calls(p, t)
  /\ UNCHANGED <<besideServer, table, cache, time, lost>>

\* Feishu applies the call.
Applied(p) ==
  /\ call[p].pc = "sent" /\ CanUpsert(call[p].record)
  /\ table' = Upserted(call[p].record, call[p].task)
  /\ call' = [call EXCEPT ![p].pc = "applied",
                          ![p].record = IF @ = 0 THEN Len(table') ELSE @]
  /\ UNCHANGED <<besideServer, cache, lastSync, time, lost>>

\* The answer has the record id, which is kept and saved.  The file may not be
\* writable.
Answered(p) ==
  LET t == call[p].task
  IN  /\ call[p].pc = "applied"
      /\ call' = [call EXCEPT ![p] = NoCall]
      /\ IF cache.memory[t] = call[p].record THEN UNCHANGED <<cache, lost>>
         ELSE LET memory == [cache.memory EXCEPT ![t] = call[p].record]
              IN  \/ cache' = [memory |-> memory, file |-> memory] /\ UNCHANGED lost
                  \/ cache' = [cache EXCEPT !.memory = memory] /\ lost' = lost \cup {t}
      /\ UNCHANGED <<besideServer, table, lastSync, time>>

\* The call fails, or takes too long: then it may have been applied.
Failed(p) ==
  /\ call[p].pc # "idle"
  /\ call' = [call EXCEPT ![p] = NoCall]
  /\ lost' = IF call[p].pc = "applied" THEN lost \cup {call[p].task} ELSE lost
  /\ UNCHANGED <<besideServer, table, cache, lastSync, time>>

\* A call ends before its time limit passes.
Tick ==
  /\ mode = "server" /\ time.clock < MaxTime
  /\ \A p \in Threads : call[p].pc # "idle" => time.clock < call[p].since + Timeout
  /\ time' = [time EXCEPT !.clock = @ + 1]
  /\ UNCHANGED <<besideServer, table, cache, lastSync, call, lost>>

\* The server ends and starts again: the record ids are read from the file.
Restart ==
  /\ mode = "server" /\ time.restarts < MaxRestarts
  /\ time' = [time EXCEPT !.restarts = @ + 1]
  /\ cache' = [cache EXCEPT !.memory = cache.file]
  /\ lastSync' = [t \in Tasks |-> None]
  /\ call' = [p \in Threads |-> NoCall]
  /\ lost' = lost \cup {call[p].task : p \in {q \in Threads : call[q].pc = "applied"}}
  /\ UNCHANGED <<besideServer, table>>

-----------------------------------------------------------------------------
(* init-feishu --write and sync-feishu --write                             *)

besideCommands == <<mode, cache, lastSync, call, time, lost>>

\* What a list of records returns.
Listed == {i \in Records : table[i] # Gone
                           /\ Cardinality({j \in 1..i : table[j] # Gone}) <= ListLimit}

\* record_id_map_from_payload: the last record of a task.
RecordOf(t) ==
  LET mine == RowsOf(t) \cap Listed
  IN  IF mine = {} THEN 0 ELSE CHOOSE i \in mine : \A j \in mine : j <= i

\* A command takes tasks of its snapshot.
Begins(op, snapshots) ==
  /\ mode = "commands" /\ commands < MaxCommands /\ command.pc \in {"none", "ok", "failed"}
  /\ commands' = commands + 1
  /\ \E some \in snapshots :
       command' = [NoCommand EXCEPT !.pc = "map", !.op = op, !.rows = SetToSeq(some)]
  /\ UNCHANGED <<besideCommands, table>>

InitBegin == Begins("init", SUBSET Tasks \ {{}})

SyncBegin == Begins("sync", SUBSET Tasks \ {{}})

\* A round of local-monitor.py loop.
LoopRound == Begins("sync", {Tasks})

\* The elements of s that are in S, in their order.
Only(s, S) ==
  LET kept[i \in 0..Len(s)] ==
        IF i = 0 THEN <<>>
        ELSE IF s[i] \in S THEN Append(kept[i - 1], s[i]) ELSE kept[i - 1]
  IN  kept[Len(s)]

\* The record ids by task.  sync-feishu writes the rows that have one.
ReadMap ==
  /\ command.pc = "map"
  /\ LET map == [t \in Tasks |-> RecordOf(t)]
         mine == Only(command.rows, {t \in Tasks : map[t] # 0})
     IN  command' =
           IF command.op = "init" THEN [command EXCEPT !.pc = "blanks", !.map = map]
           ELSE [command EXCEPT !.pc = "write", !.map = map,
                   !.fill = [i \in DOMAIN mine |-> [record |-> map[mine[i]], task |-> mine[i]]]]
  /\ UNCHANGED <<besideCommands, table, commands>>

\* Mutant: the records that hold none of the command's tasks are reused.
Reusable_others ==
  {i \in Listed : \A t \in ToSet(command.rows) : command.map[t] # i}

\* blank_record_ids_from_payload: the records with no value at all.
Reusable == {i \in Listed : table[i] = Blank}

\* The blank records, the rows that are missing, and how many of them reuse a record.
Blanks == Only([i \in Records |-> i], Reusable)
MissingRows == Only(command.rows, {t \in Tasks : command.map[t] = 0})
Reused == IF Len(Blanks) < Len(MissingRows) THEN Len(Blanks) ELSE Len(MissingRows)

\* Blank records are reused, one each, and the rows from the first on are created.
Plans(first) ==
  /\ command.pc = "blanks"
  /\ command' = [command EXCEPT !.pc = "write",
       !.fill = [i \in 1..Reused |-> [record |-> Blanks[i], task |-> MissingRows[i]]],
       !.create = SubSeq(MissingRows, first, Len(MissingRows))]
  /\ UNCHANGED <<besideCommands, table, commands>>

\* Mutant: the rows that reuse a blank record are created as well.
ReadBlanks_createsAll == Plans(1)

ReadBlanks == Plans(Reused + 1)

\* A call that writes is applied or not, and may fail either way.
Sends(applied, goesOn, fails) ==
  /\ \/ Len(applied) <= MaxRows /\ table' = applied /\ command' \in {goesOn, fails}
     \/ UNCHANGED table /\ command' = fails
  /\ UNCHANGED <<besideCommands, commands>>

Fills(op, fails) ==
  LET write == Head(command.fill)
  IN  /\ command.pc = "write" /\ command.op = op /\ command.fill # <<>>
      /\ Sends([table EXCEPT ![write.record] = write.task],
               [command EXCEPT !.fill = Tail(@)], fails)

\* A call that fails ends init-feishu.
InitFails == [command EXCEPT !.pc = "failed", !.fill = <<>>, !.create = <<>>]

FillInit == Fills("init", InitFails)

\* The new rows are created in batches, when the blank records are filled.
CreateBatch ==
  LET rows == command.create
      size == IF Len(rows) < ListLimit THEN Len(rows) ELSE ListLimit
  IN  /\ command.pc = "write" /\ command.fill = <<>> /\ rows # <<>>
      /\ Sends(table \o SubSeq(rows, 1, size),
               [command EXCEPT !.create = SubSeq(rows, size + 1, Len(rows))], InitFails)

\* sync-feishu goes on to the next row.
FillSync == Fills("sync", [command EXCEPT !.fill = Tail(@)])

CommandEnd ==
  /\ command.pc = "write" /\ command.fill = <<>> /\ command.create = <<>>
  /\ command' = [command EXCEPT !.pc = "ok"]
  /\ UNCHANGED <<besideCommands, table, commands>>

-----------------------------------------------------------------------------
(* People who use the table                                                *)

besideTable == <<mode, cache, lastSync, call, time, command, commands, lost>>

AddBlank ==
  /\ mode = "commands" /\ Len(table) < MaxRows
  /\ table' = Append(table, Blank)
  /\ UNCHANGED besideTable

DeleteRow ==
  /\ mode = "server"
  /\ \E i \in Records : table[i] # Gone /\ table' = [table EXCEPT ![i] = Gone]
  /\ UNCHANGED besideTable

Next ==
  \/ \E p \in Threads : Applied(p) \/ Answered(p) \/ Failed(p) \/ \E t \in Tasks : Render(p, t)
  \/ Tick \/ Restart
  \/ InitBegin \/ SyncBegin \/ LoopRound \/ ReadMap \/ ReadBlanks
  \/ FillInit \/ CreateBatch \/ FillSync \/ CommandEnd
  \/ AddBlank \/ DeleteRow

Spec == Init /\ [][Next]_vars

-----------------------------------------------------------------------------
(* Properties                                                              *)

Complete == mode = "commands" => Len(table) <= ListLimit

\* Whatever threads publish at once, and however calls and commands fail, are
\* repeated and are interrupted: no task has two rows, unless the sink missed an
\* answer, or a list is too short for the table.
OneRowPerTask == Complete => \A t \in Tasks \ lost : Cardinality(RowsOf(t)) <= 1

\* An init-feishu that reports success leaves every task of its snapshot a row,
\* one, although earlier ones have failed half-way.
InitCompletes ==
  command.pc = "ok" /\ command.op = "init" /\ Complete =>
    \A i \in DOMAIN command.rows : Cardinality(RowsOf(command.rows[i])) = 1

\* A record that holds a task is never overwritten with another.
KeepsRows ==
  \A i \in Records : table[i] \in Tasks => table'[i] \in {table[i], Gone}
==============================================================================
