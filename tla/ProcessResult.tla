--------------------------- MODULE ProcessResult ---------------------------
(***************************************************************************)
(* What a caller of ProcessRunner.runProcess is promised: one result,      *)
(* settled once, that says whether the caller's signal was aborted by the  *)
(* time it was settled.                                                    *)
(***************************************************************************)
VARIABLES signal,   \* the caller's AbortSignal is aborted
          result    \* what the promise resolved to

Exits == {"success", "failure", "none"}

Pending == [exit |-> "pending", timedOut |-> FALSE, aborted |-> FALSE]

Results == [exit : Exits, timedOut : BOOLEAN, aborted : BOOLEAN]

Init == signal \in BOOLEAN /\ result = Pending

Abort == ~signal /\ signal' = TRUE /\ UNCHANGED result

Settle ==
    /\ result = Pending
    /\ result' \in {r \in Results : r.aborted = signal}
    /\ UNCHANGED signal

Next == Abort \/ Settle

Spec == Init /\ [][Next]_<<signal, result>>
=============================================================================
