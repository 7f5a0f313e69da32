----------------------------- MODULE OtelCapture -----------------------------
(***************************************************************************)
(* A telemetry run: scripts/otel_receiver.py stores the requests of the    *)
(* workers in the directory of the run, a thread for each request, and     *)
(* scripts/otel-plugin.py tells the receiver to stop and pulls a copy of   *)
(* the directory.                                                          *)
(***************************************************************************)
EXTENDS Integers, Sequences, SequencesExt

CONSTANTS
  Threads,
  Modes,        \* "once": one receiver for a run; "again": it is started again
  MaxRequests, MaxPulls, MaxStarts,  \* bounds
  None

VARIABLES
  mode,
  receiver,     \* its state, _sequence, and how often it was started
  thread,       \* of the receiver, in write_request
  body,         \* the body files: sequence number -> request, or 0
  index,        \* index.ndjson
  requests,     \* that have come
  local,        \* the local copy of the run
  pulls

vars == <<mode, receiver, thread, body, index, requests, local, pulls>>

Idle == [pc |-> "idle", request |-> 0, sequence |-> 0]

\* whole: the pull that made the copy has answered.  still: nothing was written since
\* it began.
NoCopy == [there |-> FALSE, left |-> {}, body |-> <<>>, index |-> <<>>,
           whole |-> FALSE, still |-> TRUE]

Init ==
  /\ mode \in Modes
  /\ receiver = [state |-> "up", sequence |-> 0, starts |-> 1]
  /\ thread = [t \in Threads |-> Idle]
  /\ body = <<>>
  /\ index = <<>>
  /\ requests = 0
  /\ local = NoCopy
  /\ pulls = 0

-----------------------------------------------------------------------------
(* The receiver                                                            *)

besideThread == <<mode, local, pulls>>
At(t, pc) == thread[t].pc = pc
Goes(t, pc) == thread' = [thread EXCEPT ![t].pc = pc]

\* do_POST
Request(t) ==
  /\ receiver.state = "up" /\ At(t, "idle") /\ requests < MaxRequests
  /\ requests' = requests + 1
  /\ thread' = [thread EXCEPT ![t] = [Idle EXCEPT !.pc = "number", !.request = requests']]
  /\ UNCHANGED <<besideThread, receiver, body, index>>

Numbers(t, sequence) ==
  /\ thread' = [thread EXCEPT ![t].pc = "body", ![t].sequence = sequence]
  /\ receiver' = [receiver EXCEPT !.sequence = sequence]
  /\ UNCHANGED <<besideThread, body, index, requests>>

\* Mutant: the number is that of the files that are there, with no lock.
Number_counted(t) == At(t, "number") /\ Numbers(t, Len(body) + 1)

\* The next number, under the lock.
Number(t) == At(t, "number") /\ Numbers(t, receiver.sequence + 1)

\* The body, its text and its meta file, each named by the number.
WriteBody(t) ==
  LET n == thread[t].sequence
  IN  /\ At(t, "body")
      /\ body' = [i \in 1..(IF n > Len(body) THEN n ELSE Len(body)) |->
                    IF i = n THEN thread[t].request
                    ELSE IF i <= Len(body) THEN body[i] ELSE 0]
      /\ Goes(t, "index")
      /\ UNCHANGED <<besideThread, receiver, index, requests>>

\* The row of the index, under the lock.
AppendRow(t) ==
  /\ At(t, "index")
  /\ index' = Append(index, [sequence |-> thread[t].sequence, request |-> thread[t].request])
  /\ thread' = [thread EXCEPT ![t] = Idle]
  /\ UNCHANGED <<besideThread, receiver, body, requests>>

\* remote-stop sends SIGTERM and answers "stopped".  The handler waits in shutdown()
\* for the loop that it has interrupted, for ever: no request comes any more, but the
\* threads go on writing.
Stop ==
  /\ receiver.state = "up"
  /\ receiver' = [receiver EXCEPT !.state = "stopping"]
  /\ UNCHANGED <<besideThread, thread, body, index, requests>>

\* From outside, or with the host.
Killed ==
  /\ receiver.state # "dead"
  /\ receiver' = [receiver EXCEPT !.state = "dead"]
  /\ thread' = [t \in Threads |-> Idle]
  /\ UNCHANGED <<besideThread, body, index, requests>>

\* The receiver is started again for the same run, if its process is gone.
StartAgain ==
  /\ mode = "again" /\ receiver.state = "dead" /\ receiver.starts < MaxStarts
  /\ receiver' = [state |-> "up", sequence |-> 0, starts |-> receiver.starts + 1]
  /\ local' = [local EXCEPT !.still = FALSE]
  /\ UNCHANGED <<mode, thread, body, index, requests, pulls>>

-----------------------------------------------------------------------------
(* pull                                                                    *)

besidePull == <<mode, receiver, thread, body, index, requests>>

\* A copy that is there is removed if --overwrite says so, with --dry-run too;
\* without it the pull is refused.
Pull ==
  /\ pulls < MaxPulls /\ pulls' = pulls + 1 /\ local.left = {}
  /\ \/ local' = [NoCopy EXCEPT !.there = TRUE, !.left = {"body", "index"},
                                !.still = receiver.state # "up" /\ \A t \in Threads : At(t, "idle")]
     \/ local.there /\ local' = NoCopy
  /\ UNCHANGED besidePull

\* scp -r copies the files in the order of the directory.
Copy(part) ==
  /\ part \in local.left
  /\ local' = [local EXCEPT !.left = @ \ {part}, !.whole = local.left = {part},
                            ![part] = IF part = "body" THEN body ELSE index]
  /\ UNCHANGED <<besidePull, pulls>>

\* scp fails or takes too long.
PullFails ==
  /\ local.left # {}
  /\ local' = [local EXCEPT !.left = {}]
  /\ UNCHANGED <<besidePull, pulls>>

Next ==
  \/ \E t \in Threads : Request(t) \/ Number(t) \/ WriteBody(t) \/ AppendRow(t)
  \/ Stop \/ Killed \/ StartAgain
  \/ Pull \/ Copy("body") \/ Copy("index") \/ PullFails

Spec == Init /\ [][Next]_vars

-----------------------------------------------------------------------------
(* Properties                                                              *)

RowsHaveBodies(rows, files) ==
  \A i \in DOMAIN rows :
    rows[i].sequence \in DOMAIN files /\ files[rows[i].sequence] = rows[i].request

\* summarize counts the rows of the index and reads the bodies.  However requests
\* overlap and wherever the receiver is killed, each row has the body of its own
\* request; so it is in a copy that was pulled whole once no request came or was
\* written any more, whatever pulls failed before.  That remote-stop has answered
\* "stopped" is not enough: the bodies may be copied before the last of them is there,
\* and the index after its row.
IndexedIsStored ==
  mode = "once" =>
    /\ RowsHaveBodies(index, body)
    /\ local.whole /\ local.still => RowsHaveBodies(local.index, local.body)
==============================================================================
