----------------------------- MODULE RunSession -----------------------------
(***************************************************************************)
(* The live session of one Job: run-session.service.js, the calls of the   *)
(* scheduler that feed it, and the SSE handler of run.controller.js that   *)
(* streams it.  RunStream adds the browser at the other end.               *)
(*                                                                         *)
(* The events kept are those that matter to the session or to the browser: *)
(* queue_position stands for every type that leaves the state of a session *)
(* alone, agent_running and, of an evaluation, evaluation_completed for    *)
(* every one that sets it to `running'.                                    *)
(*                                                                         *)
(* JavaScript runs one callback at a time: each action is one turn of the  *)
(* event loop, with all the events reported in it.                         *)
(***************************************************************************)
EXTENDS Integers, SequencesExt

CONSTANTS
  EventLimit,   \* REALTIME_EVENT_LIMIT: events that a session keeps
  NoSession,    \* nothing under the runId
  MaxEvents,    \* bound: identifiers that optional events may take
  MaxRestarts   \* bound: shutdowns and crashes of the Router

Under    == {"running", "evaluating", "cancel_requested"}
Terminal == {"completed", "failed", "cancelled", "interrupted"}
TerminalEvents == {"run_completed", "run_failed", "job_cancelled", "job_interrupted"}

States == {"queued", "starting"} \union Under \union Terminal
EventTypes ==
  {"queue_position", "job_queued", "job_starting", "job_running", "agent_running",
   "evaluation_starting", "evaluation_completed", "job_cancel_requested"} \union TerminalEvents

\* What a session keeps, and what the map sessions holds.
Messages == [id : Nat, type : EventTypes \union {"session_snapshot"}, snapshot : States \union {"none"}]
Sessions == [state : States, completedAt : BOOLEAN, nextEventId : Nat \ {0}, events : Seq(Messages)]

ASSUME SessionAssumption ==
  /\ EventLimit \in Nat \ {0} /\ MaxEvents \in Nat /\ MaxRestarts \in Nat
  /\ NoSession \notin Sessions

VARIABLES
  status,     \* the status of the Job's row
  session,    \* the entry of the map sessions
  listening,  \* the writer of the stream is among the session's listeners
  channel,    \* what has been written to the stream and not been read
  stopping,   \* shutdown() has been called
  restarts    \* how often the Router has been started again

server == <<status, session, listening, channel, stopping, restarts>>

-----------------------------------------------------------------------------
(* RunSessionService *)

\* create(): no events yet, and nothing but a terminal event sets completedAt.
Fresh(state) == [state |-> state, completedAt |-> FALSE, nextEventId |-> 1, events |-> <<>>]

StateAfter(state, type) ==
  CASE type = "queue_position"       -> state
    [] type = "job_queued"           -> "queued"
    [] type = "job_starting"         -> "starting"
    [] type = "job_cancel_requested" -> "cancel_requested"
    [] type = "evaluation_starting"  -> "evaluating"
    [] OTHER                         -> "running"

Event(id, type) == [id |-> id, type |-> type, snapshot |-> "none"]

LastOf(s) == IF Len(s) > EventLimit THEN SubSeq(s, Len(s) - EventLimit + 1, Len(s)) ELSE s

\* The last event that sets the state decides it.
StateAfterAll(state, types) ==
  LET setting == {i \in DOMAIN types : types[i] # "queue_position"}
  IN  IF setting = {} THEN state ELSE StateAfter(state, types[Max(setting)])

\* The events, with the next identifiers.
Events(s, types) == [i \in DOMAIN types |-> Event(s.nextEventId + i - 1, types[i])]

\* append(), once for each type, to a session that has not ended.
AppendAll(s, types) ==
  [s EXCEPT !.state = StateAfterAll(@, types),
            !.nextEventId = @ + Len(types),
            !.events = LastOf(@ \o Events(s, types))]

\* Every append calls the listeners.
Written(s, types) == IF listening THEN channel \o Events(s, types) ELSE channel

\* ensureSession(): what has no session gets one in the state of the Job.
EnsureSession(state) == IF session = NoSession THEN Fresh(state) ELSE session

\* report(), whose errors are swallowed: an ended session takes no event.
Report(state, types) ==
  LET s == EnsureSession(state)
  IN  IF s.state \in Terminal
      THEN session' = s /\ UNCHANGED channel
      ELSE session' = AppendAll(s, types) /\ channel' = Written(s, types)

\* Mutant: complete(), fail(), cancel() and interrupt() leave the state that the
\* event set.
EndSessionInAppend(types, state) ==
  IF session = NoSession \/ session.state \in Terminal
  THEN UNCHANGED <<session, channel>>
  ELSE /\ session' = [AppendAll(session, types) EXCEPT !.completedAt = TRUE]
       /\ channel' = Written(session, types)

\* complete(), fail(), cancel() and interrupt(): the event, then the state; to
\* no session, or one that has ended, they throw and the scheduler goes on.
EndSession(types, state) ==
  IF session = NoSession \/ session.state \in Terminal
  THEN UNCHANGED <<session, channel>>
  ELSE /\ session' = [AppendAll(session, types) EXCEPT !.state = state, !.completedAt = TRUE]
       /\ channel' = Written(session, types)

-----------------------------------------------------------------------------
(* The Job, as JobSchedulerService reports it *)

MoreEvents == session = NoSession \/ session.nextEventId <= MaxEvents

\* emitQueuePositions(), whenever any Job is submitted, claimed, cancelled or over.
EmitQueuePosition ==
  /\ status = "queued" /\ MoreEvents
  /\ Report(status, <<"queue_position">>)
  /\ UNCHANGED <<status, listening, stopping, restarts>>

\* dispatch(), launch() and execute() up to its first await.
Launch ==
  /\ status = "queued" /\ ~stopping
  /\ status' = "running"
  /\ Report("starting", <<"job_starting", "job_running">>)
  /\ UNCHANGED <<listening, stopping, restarts>>

\* onExecutionEvent(): events keep coming after a cancellation until the
\* execution notices, and while a competition has another Agent to run.
ExecutionEvent ==
  /\ status \in {"running", "evaluating", "cancel_requested"} /\ MoreEvents
  /\ \E type \in {"agent_running", "evaluation_starting", "evaluation_completed"} :
        /\ status' = IF type = "evaluation_starting" /\ status = "running"
                     THEN "evaluating" ELSE status
        /\ Report(status, <<type>>)
  /\ UNCHANGED <<listening, stopping, restarts>>

\* execute() to its end; candidate_ready, then job_completed and run_completed.
Complete ==
  /\ status \in {"running", "evaluating"}
  /\ status' = "completed"
  /\ EndSession(<<"agent_running", "queue_position", "run_completed">>, "completed")
  /\ UNCHANGED <<listening, stopping, restarts>>

Fail ==
  /\ status \in {"running", "evaluating"}
  /\ status' = "failed"
  /\ EndSession(<<"queue_position", "run_failed">>, "failed")
  /\ UNCHANGED <<listening, stopping, restarts>>

\* cancel() of a queued Job, and finishCancelled() of one under way.
BeCancelled ==
  /\ status \in {"queued", "cancel_requested"}
  /\ status' = "cancelled"
  /\ EndSession(<<"job_cancelled">>, "cancelled")
  /\ UNCHANGED <<listening, stopping, restarts>>

\* cancel() of a Job under way, also when it is asked again.
RequestCancellation ==
  /\ status \in Under
  /\ status = "cancel_requested" => MoreEvents
  /\ status' = "cancel_requested"
  /\ Report(status', <<"job_cancel_requested">>)
  /\ UNCHANGED <<listening, stopping, restarts>>

\* cancel() of a cancelled Job reports nothing but asks for its session.
CancelAgain ==
  /\ status = "cancelled"
  /\ session' = EnsureSession("cancelled")
  /\ UNCHANGED <<status, listening, channel, stopping, restarts>>

-----------------------------------------------------------------------------
(* Expiry, shutdown and restart *)

Expired == session # NoSession /\ session.completedAt

\* cleanupExpired(), on a timer and before every look-up.  The stream stays open.
CleanupExpired ==
  /\ Expired
  /\ session' = NoSession
  /\ listening' = FALSE
  /\ UNCHANGED <<status, channel, stopping, restarts>>

\* shutdown() cancels what is under way, without an event...
Shutdown ==
  /\ ~stopping /\ restarts < MaxRestarts
  /\ stopping' = TRUE
  /\ status' = IF status \in Under THEN "cancel_requested" ELSE status
  /\ UNCHANGED <<session, listening, channel, restarts>>

\* ...and interrupts what is still under way when its timer fires.
Interrupt ==
  /\ stopping /\ status \in Under
  /\ status' = "interrupted"
  /\ EndSession(<<"job_interrupted">>, "interrupted")
  /\ UNCHANGED <<listening, stopping, restarts>>

\* start(), after a shutdown or a crash.
RestartServer ==
  /\ restarts < MaxRestarts
  /\ restarts' = restarts + 1
  /\ stopping' = FALSE
  /\ status' = IF status \in Under THEN "interrupted" ELSE status
  /\ session' = IF status = "queued"
                THEN AppendAll(Fresh("queued"), <<"job_queued", "queue_position">>)
                ELSE NoSession
  /\ listening' = FALSE
  /\ channel' = <<>>

-----------------------------------------------------------------------------
(* streamEvents *)

\* toSnapshot(): its identifier is that of the last event.
Snapshot == [id |-> session.nextEventId - 1, type |-> "session_snapshot", snapshot |-> session.state]

\* Mutant: the window is taken to reach one event further back than it does.
OutsideWindowByOne(lastEventId) ==
  session.events # <<>> /\ lastEventId < session.events[1].id - 2

\* The event after lastEventId is no longer kept.
OutsideWindow(lastEventId) ==
  session.events # <<>> /\ lastEventId < session.events[1].id - 1

\* Mutant: the replay starts one event late.
EventsAfterNext(lastEventId) ==
  SelectSeq(session.events, LAMBDA event : event.id > lastEventId + 1)

\* The events are kept in the order of their identifiers: those after
\* lastEventId are the end of the list.
EventsAfter(lastEventId) ==
  LET events == session.events
      passed == CHOOSE n \in 0..Len(events) :
                   \A i \in DOMAIN events : events[i].id > lastEventId <=> i > n
  IN  SubSeq(events, passed + 1, Len(events))

\* The listener is added and the replay written in one turn.
StreamEvents(lastEventId) ==
  /\ listening' = TRUE
  /\ channel' = IF OutsideWindow(lastEventId) THEN <<Snapshot>> ELSE EventsAfter(lastEventId)
  /\ UNCHANGED <<status, session, stopping, restarts>>

Disconnected ==
  /\ listening' = FALSE
  /\ channel' = <<>>
  /\ UNCHANGED <<status, session, stopping, restarts>>

\* After submit().
InitServer ==
  /\ status = "queued"
  /\ session = AppendAll(Fresh("queued"),
                         <<"queue_position", "queue_position", "job_queued", "queue_position">>)
  /\ listening = FALSE
  /\ channel = <<>>
  /\ stopping = FALSE
  /\ restarts = 0

ServerNext ==
  \/ EmitQueuePosition \/ Launch \/ ExecutionEvent
  \/ Complete \/ Fail \/ BeCancelled \/ RequestCancellation \/ CancelAgain
  \/ CleanupExpired \/ Shutdown \/ Interrupt
=============================================================================
