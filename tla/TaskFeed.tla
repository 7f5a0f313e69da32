------------------------------- MODULE TaskFeed -------------------------------
(***************************************************************************)
(* How the dashboard follows the tasks: flotilla/sinks (publish_task, the  *)
(* latest views, the queues of the subscribers), the event stream of       *)
(* routes.py, and the browser (TaskGrid.tsx, taskState.ts), which          *)
(* subscribes first, then fetches the list, and merges both.               *)
(*                                                                         *)
(* A view is the version of the row it was built from.                     *)
(***************************************************************************)
EXTENDS Integers, Sequences, FiniteSets

CONSTANTS
  Tasks,
  Publishers,   \* the threads of the server that publish
  Modes,        \* "ordered": a task is published by one thread at a time;
                \* "racing": by several, and events are lost
  QueueSize,
  MaxVersion, MaxEvents,  \* bounds
  None

VARIABLES
  mode,
  row,          \* the database: 0 before the task, its version, Gone after
  publisher,    \* what a thread is publishing
  latest,       \* _LATEST: a version, or 0
  queue,        \* the queue of the page's stream; None: not subscribed
  page,         \* the page of the dashboard
  events,       \* counts publications and disconnections
  gap           \* history: the page has missed an event

vars == <<mode, row, publisher, latest, queue, page, events, gap>>

Gone == -1
Exists(t) == row[t] > 0
Idle == [pc |-> "idle", task |-> None, view |-> 0]
Nothing == [t \in Tasks |-> 0]

\* shown: the cards; buffered: events before the list; unknown: the last event
\* of a task that is not in the list; asked: the list fetched to confirm it.
NewPage ==
  [stream |-> "connecting", replay |-> <<>>, list |-> None, loaded |-> FALSE,
   shown |-> Nothing, known |-> {}, deleted |-> {}, buffered |-> <<>>,
   unknown |-> Nothing, asked |-> [t \in Tasks |-> "no"]]

Init ==
  /\ mode \in Modes
  /\ row = Nothing
  /\ publisher = [p \in Publishers |-> Idle]
  /\ latest = Nothing
  /\ queue = None
  /\ page = [NewPage EXCEPT !.stream = "closed"]
  /\ events = 0
  /\ gap = FALSE

-----------------------------------------------------------------------------
(* The server                                                              *)

besideServer == <<mode, page>>

\* A thread builds the view of the row it has just written or read.
Publishes(p, t, view) ==
  /\ publisher[p] = Idle /\ events < MaxEvents
  /\ events' = events + 1
  /\ mode = "ordered" => \A q \in Publishers : publisher[q].task # t
  /\ publisher' = [publisher EXCEPT ![p] = [pc |-> "latest", task |-> t, view |-> view]]
  /\ UNCHANGED <<besideServer, latest, queue, gap>>

ChangeTask(p, t) ==
  /\ row[t] \in 0..(MaxVersion - 1)
  /\ Publishes(p, t, row[t] + 1)
  /\ row' = [row EXCEPT ![t] = @ + 1]

\* The observer publishes a task it did not change.
PublishTask(p, t) == Exists(t) /\ Publishes(p, t, row[t]) /\ UNCHANGED row

\* delete_task publishes a tombstone.
EraseTask(p, t) ==
  /\ Exists(t)
  /\ Publishes(p, t, Gone)
  /\ row' = [row EXCEPT ![t] = Gone]

\* WebSink.render, under its lock.
RenderLatest(p) ==
  LET t == publisher[p].task
      view == publisher[p].view
  IN  /\ publisher[p].pc = "latest"
      /\ latest' = [latest EXCEPT ![t] = IF view = Gone THEN 0 ELSE view]
      /\ publisher' = [publisher EXCEPT ![p].pc = "emit"]
      /\ UNCHANGED <<besideServer, row, queue, events, gap>>

\* _emit, after the lock: a full queue loses its oldest event.  A page that has
\* its list and no queue misses this one.
Emit(p) ==
  LET event == [task |-> publisher[p].task, view |-> publisher[p].view]
      full == Len(queue) = QueueSize
  IN  /\ publisher[p].pc = "emit"
      /\ publisher' = [publisher EXCEPT ![p] = Idle]
      /\ IF queue = None
         THEN UNCHANGED queue /\ gap' = (gap \/ page.list # None \/ page.loaded)
         ELSE /\ queue' = Append(IF full THEN Tail(queue) ELSE queue, event)
              /\ gap' = (gap \/ full)
      /\ UNCHANGED <<besideServer, row, latest, events>>

-----------------------------------------------------------------------------
(* The stream and the list                                                 *)

besidePage == <<mode, row, publisher, latest, events>>

\* The page is opened: it subscribes, then asks for the list.
Mount ==
  /\ page.stream = "closed"
  /\ page' = NewPage
  /\ UNCHANGED <<besidePage, queue, gap>>

\* _project_event_stream: the queue first, then the latest views.  The stream
\* and the list are two requests at once, served in any order.
Subscribe ==
  /\ page.stream = "connecting"
  /\ queue' = <<>>
  /\ page' = [page EXCEPT !.stream = "subscribed"]
  /\ UNCHANGED <<besidePage, gap>>

Replay ==
  /\ page.stream = "subscribed"
  /\ \E order \in [1..Cardinality({t \in Tasks : latest[t] # 0}) -> {t \in Tasks : latest[t] # 0}] :
       /\ \A i, j \in DOMAIN order : order[i] = order[j] => i = j
       /\ page' = [page EXCEPT !.stream = "open",
                     !.replay = [i \in DOMAIN order |-> [task |-> order[i], view |-> latest[order[i]]]]]
  /\ UNCHANGED <<besidePage, queue, gap>>

\* The connection breaks; EventSource connects again and the page stays.
Disconnect ==
  /\ mode = "racing" /\ page.stream = "open"
  /\ events < MaxEvents /\ events' = events + 1
  /\ page' = [page EXCEPT !.stream = "connecting", !.replay = <<>>]
  /\ queue' = None
  /\ gap' = (gap \/ queue # <<>>)
  /\ UNCHANGED <<mode, row, publisher, latest>>

\* The server reads the list; the answer arrives later.
ListRead ==
  /\ page.stream # "closed" /\ ~page.loaded /\ page.list = None
  /\ page' = [page EXCEPT !.list = row]
  /\ UNCHANGED <<besidePage, queue, gap>>

\* The buffered events of t, and the last of them.
Buffered(t) == {i \in DOMAIN page.buffered : page.buffered[i].task = t}
LastBuffered(t) == page.buffered[CHOOSE i \in Buffered(t) : \A j \in Buffered(t) : j <= i].view

\* What the page shows of the listed tasks: the buffered events come after the list.
WithBuffered == [t \in Tasks |-> IF Buffered(t) = {} THEN page.list[t] ELSE LastBuffered(t)]

\* The page has the list.
Loads(listed, shown) ==
  /\ page' = [page EXCEPT !.list = None, !.loaded = TRUE, !.buffered = <<>>,
                !.known = listed,
                !.shown = [t \in Tasks |-> IF t \in listed THEN shown[t] ELSE 0]]
  /\ gap' = (gap \/ \E t \in Tasks \ (listed \cup page.deleted) : Buffered(t) # {})
  /\ UNCHANGED <<besidePage, queue>>

Listed == {t \in Tasks : page.list[t] > 0}

\* Mutant: the deletions seen meanwhile are not applied to the list.
ListArrives_all ==
  /\ page.list # None
  /\ Loads(Listed, WithBuffered)

\* Mutant: the list is taken for newer than the buffered events.
ListArrives_newest ==
  /\ page.list # None
  /\ Loads(Listed \ page.deleted, page.list)

\* reconcileTaskSnapshot: the list without the deleted tasks, then the buffered
\* events of the tasks in it.  Those of any other task are lost.
ListArrives ==
  /\ page.list # None
  /\ Loads(Listed \ page.deleted, WithBuffered)

-----------------------------------------------------------------------------
(* Events on the page                                                      *)

\* onLive
OnLive(t, view) ==
  CASE view = Gone ->
         [page EXCEPT !.deleted = @ \cup {t}, !.known = @ \ {t},
                      !.unknown[t] = 0, !.shown[t] = 0]
    [] view # Gone /\ t \in page.deleted -> page
    [] view # Gone /\ t \notin page.deleted /\ ~page.loaded ->
         [page EXCEPT !.buffered = Append(@, [task |-> t, view |-> view])]
    [] view # Gone /\ t \notin page.deleted /\ page.loaded /\ t \notin page.known ->
         [page EXCEPT !.unknown[t] = view,
                      !.asked[t] = IF @ = "no" THEN "sent" ELSE @]
    [] OTHER -> [page EXCEPT !.shown[t] = view]

Receive ==
  /\ page.stream = "open"
  /\ \/ /\ page.replay # <<>>
        /\ LET event == Head(page.replay)
           IN  page' = [OnLive(event.task, event.view) EXCEPT !.replay = Tail(page.replay)]
        /\ UNCHANGED queue
     \/ /\ page.replay = <<>> /\ queue # <<>>
        /\ page' = OnLive(Head(queue).task, Head(queue).view)
        /\ queue' = Tail(queue)
  /\ UNCHANGED <<besidePage, gap>>

\* confirmUnknownTask: the server reads the list.
ConfirmRead(t) ==
  /\ page.asked[t] = "sent"
  /\ page' = [page EXCEPT !.asked[t] = IF Exists(t) THEN "there" ELSE "missing"]
  /\ UNCHANGED <<besidePage, queue, gap>>

\* Mutant: a deletion that was seen while the list was fetched is not looked at.
ConfirmArrives_late(t) ==
  /\ page.asked[t] \in {"there", "missing"}
  /\ page' = IF page.asked[t] = "there"
             THEN [page EXCEPT !.asked[t] = "no", !.known = @ \cup {t},
                               !.shown[t] = 1, !.unknown[t] = 0]
             ELSE [page EXCEPT !.asked[t] = "no"]
  /\ UNCHANGED <<besidePage, queue, gap>>

\* The request may fail: the event then waits for another of its task.
ConfirmArrives(t) ==
  /\ page.asked[t] \in {"there", "missing"}
  /\ \/ /\ page.asked[t] = "there" /\ t \notin page.deleted /\ page.unknown[t] # 0
        /\ page' = [page EXCEPT !.asked[t] = "no", !.known = @ \cup {t},
                                !.shown[t] = page.unknown[t], !.unknown[t] = 0]
        /\ UNCHANGED gap
     \/ /\ page.asked[t] = "missing" \/ t \in page.deleted \/ page.unknown[t] = 0
        /\ page' = [page EXCEPT !.asked[t] = "no"]
        /\ UNCHANGED gap
     \/ /\ mode = "racing"
        /\ page' = [page EXCEPT !.asked[t] = "no"]
        /\ gap' = TRUE
  /\ UNCHANGED <<besidePage, queue>>

Next ==
  \/ \E p \in Publishers :
       \/ RenderLatest(p) \/ Emit(p)
       \/ \E t \in Tasks : ChangeTask(p, t) \/ PublishTask(p, t) \/ EraseTask(p, t)
  \/ Mount \/ Subscribe \/ Replay \/ Disconnect
  \/ ListRead \/ ListArrives \/ Receive
  \/ \E t \in Tasks : ConfirmRead(t) \/ ConfirmArrives(t)

Spec == Init /\ [][Next]_vars

-----------------------------------------------------------------------------
(* Properties                                                              *)

Shown == {t \in Tasks : page.shown[t] # 0}

TombstoneUnderWay(t) ==
  \/ \E p \in Publishers : publisher[p].task = t /\ publisher[p].view = Gone
  \/ queue # None /\ \E i \in DOMAIN queue : queue[i].task = t /\ queue[i].view = Gone

\* However threads race, replays come late and lists are stale: a page that has
\* missed no event shows a task without a row only until its tombstone comes.
NoGhost ==
  ~gap => \A t \in Shown : Exists(t) \/ TombstoneUnderWay(t)

\* What a page has seen deleted never comes back on it, whatever it misses.
DeletedStaysDeleted == Shown \cap page.deleted = {} /\ Shown = page.known

Quiet ==
  /\ \A p \in Publishers : publisher[p] = Idle
  /\ page.stream = "open" /\ page.loaded
  /\ page.replay = <<>> /\ queue = <<>>
  /\ \A t \in Tasks : page.asked[t] = "no"

\* Published by one thread at a time, and with no event missed, the page ends up
\* with the rows as they are.
CaughtUp ==
  mode = "ordered" /\ Quiet /\ ~gap =>
    \A t \in Tasks : page.shown[t] = IF Exists(t) THEN row[t] ELSE 0
==============================================================================
