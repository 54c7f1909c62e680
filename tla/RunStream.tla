----------------------------- MODULE RunStream -----------------------------
(***************************************************************************)
(* A browser page that watches a run: the hook useRunStream with           *)
(* subscribeToRun, over an EventSource, against the server of RunSession.  *)
(*                                                                         *)
(* The EventSource is the browser's: it opens the stream again, naming the *)
(* last identifier it has seen, until it is closed or told 404.            *)
(***************************************************************************)
EXTENDS RunSession

CONSTANTS
  PageLimit,  \* FRONTEND_EVENT_LIMIT: events that a page keeps, fewer or more than the session
  MaxDrops    \* bound: connections and requests that are lost

ASSUME StreamAssumption == PageLimit \in Nat \ {0} /\ MaxDrops \in Nat

VARIABLES
  source,       \* the EventSource: none, connecting, open or closed
  lastEventId,  \* the last identifier it has seen
  refresh,      \* the GET of the snapshot: none, asked, or its answer
  view,         \* what useState holds: session state, events, connection state
  drops,
  heard,        \* history: the start of the Router the last message came from
  skipped       \* history: the last identifier a snapshot has stood for

client == <<source, lastEventId, refresh, view, drops, heard, skipped>>
vars == <<server, client>>

-----------------------------------------------------------------------------
(* refreshSnapshot *)

None == "none"

\* GET /api/runs/:id
AnswerRefresh ==
  /\ refresh = "asked"
  /\ \/ refresh' = (IF session = NoSession THEN "notFound" ELSE session.state)
        /\ UNCHANGED drops
     \/ drops < MaxDrops /\ drops' = drops + 1 /\ refresh' = "lost"
  /\ UNCHANGED <<server, source, lastEventId, view, heard, skipped>>

\* The first snapshot decides whether there is anything to subscribe to.
ReceiveRefresh ==
  /\ refresh \notin {None, "asked"}
  /\ IF refresh \in {"notFound", "lost"}
     THEN /\ view' = [view EXCEPT !.connection = "disconnected"]
          /\ source' = IF source = None THEN "closed" ELSE source
     ELSE /\ view' = [view EXCEPT !.session = refresh]
          /\ source' = IF source = None THEN "connecting" ELSE source
  /\ refresh' = None
  /\ UNCHANGED <<server, lastEventId, drops, heard, skipped>>

-----------------------------------------------------------------------------
(* subscribeToRun *)

\* onOpen
Open ==
  /\ source = "connecting" /\ ~stopping /\ session # NoSession
  /\ StreamEvents(lastEventId)
  /\ source' = "open"
  /\ view' = [view EXCEPT !.connection = "live"]
  /\ UNCHANGED <<lastEventId, refresh, drops, heard, skipped>>

\* onError
Broken == IF view.session \in Terminal THEN "complete" ELSE "reconnecting"

\* A 404 closes the EventSource for good.
OpenRefused ==
  /\ source = "connecting" /\ ~stopping /\ session = NoSession
  /\ source' = "closed"
  /\ view' = [view EXCEPT !.connection = Broken]
  /\ UNCHANGED <<server, lastEventId, refresh, drops, heard, skipped>>

Drop ==
  /\ source = "open" /\ drops < MaxDrops
  /\ drops' = drops + 1
  /\ Disconnected
  /\ source' = "connecting"
  /\ view' = [view EXCEPT !.connection = Broken]
  /\ UNCHANGED <<lastEventId, refresh, heard, skipped>>

Restart ==
  /\ RestartServer
  /\ IF source = "open"
     THEN source' = "connecting" /\ view' = [view EXCEPT !.connection = Broken]
     ELSE UNCHANGED <<source, view>>
  /\ UNCHANGED <<lastEventId, refresh, drops, heard, skipped>>

-----------------------------------------------------------------------------
(* handleEvent *)

Message == Head(channel)

Heard ==
  /\ source = "open" /\ channel # <<>>
  /\ lastEventId' = Message.id
  /\ heard' = restarts
  /\ UNCHANGED <<status, session, stopping, restarts, drops>>

HandleSnapshot ==
  /\ Heard /\ Message.type = "session_snapshot"
  /\ view' = [view EXCEPT !.session = Message.snapshot]
  /\ skipped' = Message.id
  /\ channel' = Tail(channel)
  /\ UNCHANGED <<listening, source, refresh>>

\* The types that have a state of their own, and the stage of an evaluation.
StateShown(current, type) ==
  CASE type = "run_completed"        -> "completed"
    [] type = "run_failed"           -> "failed"
    [] type = "job_queued"           -> "queued"
    [] type = "job_starting"         -> "starting"
    [] type = "job_running"          -> "running"
    [] type = "job_cancel_requested" -> "cancel_requested"
    [] type = "job_cancelled"        -> "cancelled"
    [] type = "job_interrupted"      -> "interrupted"
    [] type \in {"evaluation_starting", "evaluation_completed"} -> "evaluating"
    [] OTHER                         -> current

\* Mutant: the list keeps the oldest of its events.
FirstOf(events) == {e \in events : Cardinality({d \in events : d.id < e.id}) < PageLimit}

\* slice(-eventLimit) of the sorted list.
Latest(events) == {e \in events : Cardinality({d \in events : d.id > e.id}) < PageLimit}

\* Mutant: a terminal event does not reach the session that is shown.
ShownUntilTerminal ==
  IF Message.type \in TerminalEvents
  THEN [view EXCEPT !.events = Latest(@ \union {Message}), !.connection = "complete"]
  ELSE [session    |-> StateShown(view.session, Message.type),
        events     |-> Latest(view.events \union {Message}),
        connection |-> view.connection]

\* An event whose identifier is in the list already changes nothing of the view.
Shown ==
  IF \E e \in view.events : e.id = Message.id
  THEN view
  ELSE [session    |-> StateShown(view.session, Message.type),
        events     |-> Latest(view.events \union {Message}),
        connection |-> IF Message.type \in TerminalEvents THEN "complete" ELSE view.connection]

\* After a terminal event the snapshot is fetched again and the stream closed.
HandleEvent ==
  /\ Heard /\ Message.type # "session_snapshot"
  /\ view' = Shown
  /\ IF Message.type \in TerminalEvents
     THEN /\ refresh' = "asked"
          /\ source' = "closed"
          /\ listening' = FALSE
          /\ channel' = <<>>
     ELSE /\ channel' = Tail(channel)
          /\ UNCHANGED <<refresh, source, listening>>
  /\ UNCHANGED skipped

-----------------------------------------------------------------------------
Init ==
  /\ InitServer
  /\ source = None
  /\ lastEventId = 0
  /\ refresh = "asked"
  /\ view = [session |-> None, events |-> {}, connection |-> "connecting"]
  /\ drops = 0
  /\ heard = 0
  /\ skipped = 0

Next ==
  \/ ServerNext /\ UNCHANGED client
  \/ AnswerRefresh \/ ReceiveRefresh \/ Open \/ OpenRefused \/ Drop \/ Restart
  \/ HandleSnapshot \/ HandleEvent

Spec == Init /\ [][Next]_vars

\* The browser connects again and again, and reads what is sent to it.
Fairness ==
  /\ WF_vars(AnswerRefresh) /\ WF_vars(ReceiveRefresh)
  /\ WF_vars(Open) /\ WF_vars(OpenRefused)
  /\ WF_vars(HandleSnapshot) /\ WF_vars(HandleEvent)

FairSpec == Spec /\ Fairness

-----------------------------------------------------------------------------
(* Properties *)

\* The session is not one that CancelAgain has made.
Original == session # NoSession /\ (status \in Terminal => session.completedAt)

\* What a browser has read, and what is written to it, never leaves a gap and
\* never repeats an event, however the replay, a snapshot in its place, new
\* events and lost connections fall together.
StreamIsContiguous ==
  source = "open" /\ listening /\ heard = restarts /\ Original =>
    /\ \A i \in 1..Len(channel) :
          \/ channel[i].id = (IF i = 1 THEN lastEventId ELSE channel[i - 1].id) + 1
          \/ i = 1 /\ channel[1].type = "session_snapshot"
    /\ (IF channel = <<>> THEN lastEventId ELSE Last(channel).id) = session.nextEventId - 1

\* Every event the server still keeps, and the browser has got past, is in the list
\* it shows, unless a snapshot stood for it or a whole list of later ones has come
\* since: the two limits are set apart from each other.
SeenEventsAreShown ==
  restarts = 0 /\ session # NoSession =>
    \A e \in ToSet(session.events) :
      skipped < e.id /\ e.id <= lastEventId /\ lastEventId - e.id < PageLimit => e \in view.events

\* A Job that is queued or under way has a session, through expiry and restarts.
\* When it has ended its session shows that end; no event, however late, makes
\* it look alive again.
SessionEndsAsJob ==
  /\ status \notin Terminal => session # NoSession
  /\ session # NoSession /\ (status \in Terminal \/ session.state \in Terminal)
       => session.state = status

Quiet == source = "open" /\ channel = <<>> /\ session # NoSession

\* A page that is connected, and has nothing more to read, shows how the run
\* ended: it has not missed the end while it was away.  Once the Router has
\* restarted this is so from the first message of the new session on.
QuietViewIsCurrent ==
  Quiet /\ heard = restarts /\ session.completedAt => view.session = session.state

\* The same without that exception.
QuietViewIsAlwaysCurrent ==
  Quiet /\ session.completedAt => view.session = session.state

\* A page that follows a run gets to show its end, unless the session expires or
\* the Router stops or restarts first.  (After a restart the new session's events
\* have the identifiers of the old one's, and HandleEvent takes them for known.)
EndIsShown ==
  (/\ status \in Terminal /\ Original /\ restarts = 0
   /\ source \in {"connecting", "open"})
    ~> session = NoSession \/ stopping \/ restarts > 0 \/ view.session = status
=============================================================================
