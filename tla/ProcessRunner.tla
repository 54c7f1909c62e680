--------------------------- MODULE ProcessRunner ---------------------------
(***************************************************************************)
(* One call of ProcessRunner.runProcess: the process it spawns, the output *)
(* it keeps, its timeout, its abort listener and the promise it settles.   *)
(* Every git command, Agent, evaluation command and Docker command of an   *)
(* execution is such a call.                                               *)
(*                                                                         *)
(* The process, its pipes and the caller's signal are the environment: it  *)
(* may end at any moment, a kill may fail, and the events of the child     *)
(* reach the callbacks in the order Node.js emits them: "error" without a  *)
(* pid, or data and the exit before "close".                               *)
(***************************************************************************)
EXTENDS Naturals

CONSTANTS MaxOutput,     \* maxOutputBytes
          Chunks,        \* the sizes one piece of output can have
          MaxReceived    \* bound: what has come in all when a process still writes

ASSUME OutputAssumption ==
    /\ MaxOutput \in Nat \ {0}
    /\ Chunks \subseteq Nat \ {0}
    /\ MaxReceived \in Nat

VARIABLES signal,      \* the caller's AbortSignal is aborted
          child,       \* the process and its pipes
          exit,        \* how the process ended
          kills,       \* calls of processTreeKiller
          killed,      \* one of them ends the process
          timer,       \* the setTimeout of this call
          listening,   \* abortListener is registered on the signal
          timedOut, aborted,
          received,    \* history: all bytes given to appendOutput, read or the runner's
          captured,    \* capturedBytes
          truncated,   \* outputTruncated
          result       \* what the promise resolved to

vars == <<signal, child, exit, kills, killed, timer, listening, timedOut,
          aborted, received, captured, truncated, result>>
output == <<received, captured, truncated>>
process == <<child, exit>>

Abstract == INSTANCE ProcessResult

Settled == result # Abstract!Pending

Init ==
    /\ signal \in BOOLEAN
    /\ child = "unborn" /\ exit = "none"
    /\ kills = 0 /\ killed = FALSE
    /\ timer = "unset" /\ listening = FALSE
    /\ timedOut = FALSE /\ aborted = FALSE
    /\ received = 0 /\ captured = 0 /\ truncated = FALSE
    /\ result = Abstract!Pending

-----------------------------------------------------------------------------
\* appendOutput: the stream keeps what still fits, and remembers that
\* something did not.
Smaller(a, b) == IF a < b THEN a ELSE b

Kept(n) == Smaller(n, MaxOutput - captured)

\* Mutant: only a piece that is dropped whole counts as truncation.
AppendPart(n) ==
    /\ received' = received + n
    /\ captured' = captured + Kept(n)
    /\ truncated' = (truncated \/ captured = MaxOutput)

Append(n) ==
    /\ received' = received + n
    /\ captured' = captured + Kept(n)
    /\ truncated' = (truncated \/ Kept(n) < n)

\* Mutant: clearTimeout forgotten.
FinishLeavesTimer(how) ==
    IF Settled
    THEN UNCHANGED <<result, timer, listening>>
    ELSE /\ result' = [exit |-> how, timedOut |-> timedOut, aborted |-> aborted]
         /\ timer' = timer
         /\ listening' = FALSE

\* finish: only the first call settles, and it disarms what was armed.
Finish(how) ==
    IF Settled
    THEN UNCHANGED <<result, timer, listening>>
    ELSE /\ result' = [exit |-> how, timedOut |-> timedOut, aborted |-> aborted]
         /\ timer' = IF timer = "set" THEN "cleared" ELSE timer
         /\ listening' = FALSE

-----------------------------------------------------------------------------
\* runProcess. An aborted signal is answered without a process.
NotStarted ==
    /\ child = "unborn" /\ signal /\ ~Settled
    /\ aborted' = TRUE
    /\ result' = [exit |-> "none", timedOut |-> FALSE, aborted |-> TRUE]
    /\ UNCHANGED <<signal, process, kills, killed, timer, listening, timedOut,
                   output>>

\* spawn throws: the message of the error is kept as output.
SpawnThrows ==
    /\ child = "unborn" /\ ~signal /\ ~Settled
    /\ \E n \in Chunks : Append(n)
    /\ Finish("none")
    /\ UNCHANGED <<signal, process, kills, killed, timedOut, aborted>>

\* spawn returns a child, which has a pid or will report why it has none.
Spawned ==
    /\ child = "unborn" /\ ~signal /\ ~Settled
    /\ child' \in {"running", "failed"}
    /\ timer' = "set" /\ listening' = TRUE
    /\ UNCHANGED <<signal, exit, kills, killed, timedOut, aborted, output, result>>

\* The "error" of a child without a pid.
SpawnError ==
    /\ child = "failed"
    /\ child' = "exited"
    /\ \E n \in Chunks : Append(n)
    /\ Finish("none")
    /\ UNCHANGED <<signal, exit, kills, killed, timedOut, aborted>>

\* "data" of stdout or stderr; a descendant may still write after the exit.
Output ==
    /\ child \in {"running", "held"}
    /\ \E n \in Chunks : received + n <= MaxReceived /\ Append(n)
    /\ UNCHANGED <<signal, process, kills, killed, timer, listening, timedOut,
                   aborted, result>>

\* The process ends by itself, or because it was killed. A process it
\* started may live on and hold the pipes.
Exit ==
    /\ child = "running"
    /\ child' \in {"exited", "held"}
    /\ exit' \in IF killed THEN {"none", "success", "failure"}
                           ELSE {"success", "failure"}
    /\ UNCHANGED <<signal, kills, killed, timer, listening, timedOut, aborted,
                   output, result>>

\* The last process that held the pipes ends.
Release ==
    /\ child = "held"
    /\ child' = "exited"
    /\ UNCHANGED <<signal, exit, kills, killed, timer, listening, timedOut,
                   aborted, output, result>>

\* Mutant: a process without an exit code settles nothing.
CloseOfExitCodes ==
    /\ child = "exited"
    /\ child' = "closed"
    /\ IF exit = "none" THEN UNCHANGED <<result, timer, listening>> ELSE Finish(exit)
    /\ UNCHANGED <<signal, exit, kills, killed, timedOut, aborted, output>>

\* "close": the process has ended and nobody holds its pipes open.
Close ==
    /\ child = "exited"
    /\ child' = "closed"
    /\ Finish(exit)
    /\ UNCHANGED <<signal, exit, kills, killed, timedOut, aborted, output>>

-----------------------------------------------------------------------------
\* terminate: only a process that still runs can be killed. The killer may
\* fail, at once or (taskkill) later; the text of an error it throws is
\* output as well.
Terminate ==
    /\ kills' = kills + 1
    /\ \/ /\ child = "running"
          /\ killed' = TRUE
          /\ UNCHANGED output
       \/ /\ UNCHANGED killed
          /\ \/ \E n \in Chunks : Append(n)
             \/ UNCHANGED output

\* Mutant: a call that timed out ignores the abort.
AbortUnlessTimedOut ==
    /\ ~signal
    /\ signal' = TRUE
    /\ IF listening /\ ~Settled /\ ~timedOut
       THEN aborted' = TRUE /\ listening' = FALSE /\ Terminate
       ELSE UNCHANGED <<aborted, listening, kills, killed, output>>
    /\ UNCHANGED <<process, timer, timedOut, result>>

\* abortListener, in the same step as the abort it is told of.
Abort ==
    /\ ~signal
    /\ signal' = TRUE
    /\ IF listening /\ ~Settled /\ ~aborted
       THEN aborted' = TRUE /\ listening' = FALSE /\ Terminate
       ELSE UNCHANGED <<aborted, listening, kills, killed, output>>
    /\ UNCHANGED <<process, timer, timedOut, result>>

\* Mutant: timedOut set by the second kill only.
TimerFiresSilently ==
    /\ timer = "set"
    /\ timer' = "fired"
    /\ timedOut' = (kills > 0)
    /\ Terminate
    /\ UNCHANGED <<signal, process, listening, aborted, result>>

TimerFires ==
    /\ timer = "set"
    /\ timer' = "fired"
    /\ timedOut' = TRUE
    /\ Terminate
    /\ UNCHANGED <<signal, process, listening, aborted, result>>

-----------------------------------------------------------------------------
RunProcess == NotStarted \/ SpawnThrows \/ Spawned

\* The call is made and ends: nothing is left to happen.
Done ==
    /\ child = "closed" \/ (child = "unborn" /\ Settled)
    /\ UNCHANGED vars

Next ==
    \/ RunProcess
    \/ SpawnError
    \/ Output
    \/ Exit
    \/ Release
    \/ Close
    \/ Abort
    \/ TimerFires
    \/ Done

\* runProcess runs to its end once called; the timer of the event loop and
\* the events of a child come; a process that a kill reached ends. Nothing
\* is assumed of a process that no kill reached, nor of its descendants.
Fairness ==
    /\ WF_vars(RunProcess)
    /\ WF_vars(SpawnError)
    /\ WF_vars(TimerFires)
    /\ WF_vars(killed /\ Exit)
    /\ WF_vars(Close)

Spec == Init /\ [][Next]_vars /\ Fairness

-----------------------------------------------------------------------------
\* The two streams of the process and the runner's own messages share one
\* budget: everything is kept until it is full, never more, and the result
\* says that output is missing exactly when more came than the budget holds.
OutputIsAccounted ==
    /\ captured = Smaller(received, MaxOutput)
    /\ truncated <=> received > MaxOutput

\* A process that the runner killed is never reported as one that ended by
\* itself: its result says timedOut or aborted, which the executors take
\* for a failure whatever the exit code is.
KillIsReported ==
    Settled /\ killed => result.timedOut \/ result.aborted

\* processTreeKiller is called only while the call is open. Later the pid
\* may be another process's.
NoKillAfterEnd == [][Settled => kills' = kills]_vars

\* The promise is settled once, and its aborted is the signal's at that
\* moment, by which the executors tell a cancellation from a failure.
ImplementsResult == Abstract!Spec

\* Every call settles, unless after its timeout a process that no kill
\* reached runs for ever, or one that the ended process started holds its
\* pipes for ever: the timeout kills, it does not settle the call.
Stuck ==
    /\ timer = "fired"
    /\ child = "held" \/ (child = "running" /\ ~killed)

Settles == <>Settled \/ <>[]Stuck
=============================================================================
