------------------------- MODULE ProcessRunnerProofs -------------------------
(***************************************************************************)
(* What one call of runProcess promises, for any output budget, any sizes  *)
(* of output and any order of the events of the child, the timer and the   *)
(* signal.                                                                 *)
(***************************************************************************)
EXTENDS ProcessRunner, TLAPS

Children == {"unborn", "running", "failed", "held", "exited", "closed"}

Types ==
  /\ signal \in BOOLEAN /\ killed \in BOOLEAN /\ listening \in BOOLEAN
  /\ timedOut \in BOOLEAN /\ aborted \in BOOLEAN /\ truncated \in BOOLEAN
  /\ child \in Children /\ exit \in Abstract!Exits
  /\ timer \in {"unset", "set", "fired", "cleared"}
  /\ kills \in Nat /\ received \in Nat /\ captured \in 0..MaxOutput

\* While the call is open the flag aborted is the signal, which the listener
\* waits for until then; what could kill is disarmed when the call settles.
Armed ==
  /\ Settled => timer # "set" /\ ~listening
  /\ ~Settled => child # "closed"
  /\ ~Settled /\ child = "unborn" => ~aborted /\ ~timedOut /\ ~killed /\ ~listening /\ timer = "unset"
  /\ ~Settled /\ child # "unborn" => (aborted <=> signal) /\ (listening <=> ~aborted)

\* A kill leaves its reason in a flag, and the result copies the flags.
Reasons ==
  /\ ~Settled /\ killed => timedOut \/ aborted
  /\ KillIsReported

RunnerInv == Types /\ Armed /\ Reasons /\ OutputIsAccounted

-----------------------------------------------------------------------------
LEMMA InitRunner == Init => RunnerInv
<1> SUFFICES ASSUME Init PROVE RunnerInv
  OBVIOUS
<1>1. ~Settled
  BY DEF Init, Settled
<1>2. Types
  <2>1. captured \in 0..MaxOutput /\ kills \in Nat /\ received \in Nat
    BY OutputAssumption DEF Init
  <2>2. child \in Children /\ exit \in Abstract!Exits /\ timer \in {"unset", "set", "fired", "cleared"}
    BY DEF Init, Children, Abstract!Exits
  <2> QED
    BY <2>1, <2>2, Zenon DEF Init, Types
<1>3. Armed
  BY <1>1 DEF Init, Armed
<1>4. Reasons
  BY <1>1 DEF Init, Reasons, KillIsReported
<1>5. OutputIsAccounted
  BY OutputAssumption DEF Init, OutputIsAccounted, Smaller
<1> QED
  BY <1>2, <1>3, <1>4, <1>5 DEF RunnerInv

\* What appendOutput keeps fits in the budget, and fills it if it keeps a part.
LEMMA AppendKeeps ==
  ASSUME Types, OutputIsAccounted, NEW n \in Chunks, Append(n)
  PROVE  /\ received' \in Nat /\ captured' \in 0..MaxOutput /\ truncated' \in BOOLEAN
         /\ OutputIsAccounted'
<1>1. /\ n \in Nat \ {0} /\ MaxOutput \in Nat /\ captured \in 0..MaxOutput /\ received \in Nat
      /\ captured = Smaller(received, MaxOutput) /\ (truncated <=> received > MaxOutput)
  BY OutputAssumption DEF Types, OutputIsAccounted
<1>2. received' = received + n /\ captured' = captured + Kept(n) /\ truncated' = (truncated \/ Kept(n) < n)
  BY DEF Append
<1>3. CASE received + n <= MaxOutput
  <2>1. captured = received /\ Kept(n) = n /\ ~truncated
    BY <1>1, <1>3 DEF Kept, Smaller
  <2>2. captured' = received' /\ received' \in Nat /\ received' <= MaxOutput
    BY <1>1, <1>2, <1>3, <2>1
  <2>3. ~(Kept(n) < n)
    BY <1>1, <2>1
  <2>4. truncated' = FALSE
    BY <1>2, <2>1, <2>3
  <2>5. captured' = Smaller(received', MaxOutput) /\ ~(received' > MaxOutput)
    BY <1>1, <2>2 DEF Smaller
  <2>6. OutputIsAccounted'
    BY <2>4, <2>5 DEF OutputIsAccounted
  <2>7. captured' \in 0..MaxOutput /\ received' \in Nat
    BY <1>1, <2>2
  <2> QED
    BY <2>4, <2>6, <2>7, Zenon
<1>4. CASE received + n > MaxOutput
  <2>1. Kept(n) = MaxOutput - captured
    BY <1>1, <1>4 DEF Kept, Smaller
  <2>2. captured' = MaxOutput /\ received' \in Nat /\ received' > MaxOutput
    BY <1>1, <1>2, <1>4, <2>1
  <2>3. truncated \/ Kept(n) < n
    BY <1>1, <1>4, <2>1 DEF Smaller
  <2>4. truncated' = TRUE
    BY <1>2, <2>3
  <2> QED
    BY <1>1, <2>2, <2>4 DEF OutputIsAccounted, Smaller
<1> QED
  BY <1>1, <1>3, <1>4

LEMMA FinishSettles ==
  ASSUME RunnerInv, NEW how \in Abstract!Exits, Finish(how)
  PROVE  /\ Settled' /\ timer' # "set" /\ ~listening'
         /\ timer' \in {"unset", "set", "fired", "cleared"} /\ listening' \in BOOLEAN
         /\ UNCHANGED killed => KillIsReported'
<1>1. CASE Settled
  BY <1>1 DEF Finish, RunnerInv, Types, Armed, Reasons, KillIsReported, Settled
<1>2. CASE ~Settled
  <2>1. /\ result' = [exit |-> how, timedOut |-> timedOut, aborted |-> aborted]
        /\ timer' = IF timer = "set" THEN "cleared" ELSE timer
        /\ listening' = FALSE
    BY <1>2 DEF Finish
  <2>2. result'.exit # "pending" /\ result'.timedOut = timedOut /\ result'.aborted = aborted
    BY <2>1 DEF Abstract!Exits
  <2>3. Settled'
    BY <2>2 DEF Settled, Abstract!Pending
  <2>4. killed => timedOut \/ aborted
    BY <1>2 DEF RunnerInv, Reasons
  <2>5. UNCHANGED killed => KillIsReported'
    BY <2>2, <2>4 DEF KillIsReported
  <2> QED
    BY <2>1, <2>3, <2>5 DEF RunnerInv, Types
<1> QED
  BY <1>1, <1>2

\* A kill comes while the call is open, and gives its reason.
LEMMA TerminateKeeps ==
  ASSUME Types, OutputIsAccounted, Terminate
  PROVE  /\ kills' \in Nat /\ killed' \in BOOLEAN
         /\ received' \in Nat /\ captured' \in 0..MaxOutput /\ truncated' \in BOOLEAN
         /\ OutputIsAccounted'
<1>1. kills' \in Nat
  BY DEF Terminate, Types
<1>2. killed' \in BOOLEAN
  BY DEF Terminate, Types
<1>3. CASE UNCHANGED output
  BY <1>1, <1>2, <1>3 DEF output, Types, OutputIsAccounted
<1>4. ASSUME NEW n \in Chunks, Append(n)
      PROVE  received' \in Nat /\ captured' \in 0..MaxOutput /\ truncated' \in BOOLEAN /\ OutputIsAccounted'
  BY <1>4, AppendKeeps
<1> QED
  BY <1>1, <1>2, <1>3, <1>4 DEF Terminate

\* The steps in which the call settles.
LEMMA SettlingSteps ==
  ASSUME RunnerInv, NotStarted \/ SpawnThrows \/ SpawnError \/ Close
  PROVE  RunnerInv'
<1> USE DEF process, output
<1>1. Types /\ Armed /\ Reasons /\ OutputIsAccounted
  BY DEF RunnerInv
<1>2. ASSUME NEW how \in Abstract!Exits, Finish(how), UNCHANGED <<killed, signal, exit, kills, timedOut, aborted>>,
             child' \in Children, received' \in Nat, captured' \in 0..MaxOutput, truncated' \in BOOLEAN,
             OutputIsAccounted'
      PROVE  RunnerInv'
  <2>1. /\ Settled' /\ timer' # "set" /\ ~listening' /\ KillIsReported'
        /\ timer' \in {"unset", "set", "fired", "cleared"} /\ listening' \in BOOLEAN
    BY <1>2, FinishSettles
  <2>2. Types'
    BY <1>1, <1>2, <2>1 DEF Types
  <2>3. Armed'
    BY <2>1 DEF Armed
  <2>4. Reasons'
    BY <2>1 DEF Reasons
  <2> QED
    BY <1>2, <2>2, <2>3, <2>4 DEF RunnerInv
<1>3. CASE NotStarted
  <2>1. result' = [exit |-> "none", timedOut |-> FALSE, aborted |-> TRUE]
    BY <1>3 DEF NotStarted
  <2>2. Settled'
    BY <2>1 DEF Settled, Abstract!Pending
  <2>3. child = "unborn" /\ ~Settled /\ UNCHANGED <<timer, listening>>
    BY <1>3 DEF NotStarted
  <2>4. timer' # "set" /\ ~listening'
    BY <1>1, <2>3 DEF Armed
  <2>5. Armed'
    BY <2>2, <2>4 DEF Armed
  <2>6. Reasons'
    BY <2>1, <2>2 DEF Reasons, KillIsReported
  <2>7. Types'
    BY <1>1, <1>3 DEF NotStarted, Types
  <2>8. OutputIsAccounted'
    BY <1>1, <1>3 DEF NotStarted, OutputIsAccounted
  <2> QED
    BY <2>5, <2>6, <2>7, <2>8 DEF RunnerInv
<1>4. CASE SpawnThrows
  <2>1. PICK n \in Chunks : Append(n)
    BY <1>4 DEF SpawnThrows
  <2>2. received' \in Nat /\ captured' \in 0..MaxOutput /\ truncated' \in BOOLEAN /\ OutputIsAccounted'
    BY <1>1, <2>1, AppendKeeps
  <2>3. Finish("none") /\ UNCHANGED <<killed, signal, exit, kills, timedOut, aborted>> /\ child' \in Children
    BY <1>1, <1>4 DEF SpawnThrows, Types
  <2> QED
    BY <1>2, <2>2, <2>3 DEF Abstract!Exits
<1>5. CASE SpawnError
  <2>1. PICK n \in Chunks : Append(n)
    BY <1>5 DEF SpawnError
  <2>2. received' \in Nat /\ captured' \in 0..MaxOutput /\ truncated' \in BOOLEAN /\ OutputIsAccounted'
    BY <1>1, <2>1, AppendKeeps
  <2>3. Finish("none") /\ UNCHANGED <<killed, signal, exit, kills, timedOut, aborted>> /\ child' \in Children
    BY <1>5 DEF SpawnError, Children
  <2> QED
    BY <1>2, <2>2, <2>3 DEF Abstract!Exits
<1>6. CASE Close
  <2>1. UNCHANGED <<received, captured, truncated>>
    BY <1>6 DEF Close
  <2>2. received' \in Nat /\ captured' \in 0..MaxOutput /\ truncated' \in BOOLEAN /\ OutputIsAccounted'
    BY <1>1, <2>1 DEF Types, OutputIsAccounted
  <2>3. Finish(exit) /\ UNCHANGED <<killed, signal, exit, kills, timedOut, aborted>> /\ child' \in Children
    BY <1>6 DEF Close, Children
  <2>4. exit \in Abstract!Exits
    BY <1>1 DEF Types
  <2> QED
    BY <1>2, <2>1, <2>2, <2>3, <2>4
<1> QED
  BY <1>3, <1>4, <1>5, <1>6

\* The steps of the child while the call is open, or after it.
LEMMA ChildSteps ==
  ASSUME RunnerInv, Spawned \/ Output \/ Exit \/ Release
  PROVE  RunnerInv'
<1> USE DEF process, output
<1>1. Types /\ Armed /\ Reasons /\ OutputIsAccounted
  BY DEF RunnerInv
<1>2. UNCHANGED <<signal, kills, killed, timedOut, aborted, result>>
  BY DEF Spawned, Output, Exit, Release
<1>3. (Settled' <=> Settled) /\ (KillIsReported <=> KillIsReported')
  BY <1>2 DEF Settled, KillIsReported
<1>4. Reasons'
  BY <1>1, <1>2, <1>3 DEF Reasons
<1>5. child' \in Children \ {"unborn", "closed"} /\ exit' \in Abstract!Exits
  BY <1>1 DEF Spawned, Output, Exit, Release, Types, Children, Abstract!Exits
<1>6. CASE Spawned
  <2>1. timer' = "set" /\ listening' = TRUE /\ UNCHANGED <<received, captured, truncated>>
        /\ ~signal /\ ~Settled /\ child = "unborn"
    BY <1>6 DEF Spawned
  <2>2. Armed'
    BY <1>1, <1>2, <1>3, <1>5, <2>1 DEF Armed
  <2>3. Types' /\ OutputIsAccounted'
    BY <1>1, <1>2, <1>5, <2>1 DEF Types, OutputIsAccounted
  <2> QED
    BY <1>4, <2>2, <2>3 DEF RunnerInv
<1>7. CASE Output \/ Exit \/ Release
  <2>1. child \in {"running", "held"} /\ UNCHANGED <<timer, listening>>
    BY <1>7 DEF Output, Exit, Release
  <2>2. Armed'
    BY <1>1, <1>2, <1>3, <1>5, <2>1 DEF Armed
  <2>3. received' \in Nat /\ captured' \in 0..MaxOutput /\ truncated' \in BOOLEAN /\ OutputIsAccounted'
    <3>1. CASE Output
      <4>1. PICK n \in Chunks : Append(n)
        BY <3>1 DEF Output
      <4> QED
        BY <1>1, <4>1, AppendKeeps
    <3>2. CASE Exit \/ Release
      BY <1>1, <3>2 DEF Exit, Release, Types, OutputIsAccounted
    <3> QED
      BY <3>1, <3>2, <1>7
  <2>4. Types'
    BY <1>1, <1>2, <1>5, <2>1, <2>3 DEF Types
  <2> QED
    BY <1>4, <2>2, <2>3, <2>4 DEF RunnerInv
<1> QED
  BY <1>6, <1>7

\* The signal and the timer.
LEMMA KillingSteps ==
  ASSUME RunnerInv, Abort \/ TimerFires
  PROVE  RunnerInv'
<1> USE DEF process, output
<1>1. Types /\ Armed /\ Reasons /\ OutputIsAccounted
  BY DEF RunnerInv
<1>2. UNCHANGED <<result, child, exit>>
  BY DEF Abort, TimerFires
<1>3. Settled' <=> Settled
  BY <1>2 DEF Settled
<1>4. CASE Abort /\ listening /\ ~Settled /\ ~aborted
  <2>1. /\ signal' = TRUE /\ aborted' = TRUE /\ listening' = FALSE /\ Terminate
        /\ UNCHANGED <<timer, timedOut>>
    BY <1>4 DEF Abort
  <2>2. /\ kills' \in Nat /\ killed' \in BOOLEAN
        /\ received' \in Nat /\ captured' \in 0..MaxOutput /\ truncated' \in BOOLEAN
        /\ OutputIsAccounted'
    BY <1>1, <1>2, <2>1, TerminateKeeps
  <2>3. Types'
    BY <1>1, <1>2, <2>1, <2>2 DEF Types
  <2>4. child # "unborn" /\ child # "closed"
    BY <1>1, <1>4 DEF Armed
  <2>5. Armed'
    BY <1>2, <1>3, <1>4, <2>1, <2>4 DEF Armed
  <2>6. Reasons'
    BY <1>3, <1>4, <2>1 DEF Reasons, KillIsReported
  <2> QED
    BY <2>2, <2>3, <2>5, <2>6 DEF RunnerInv
<1>5. CASE Abort /\ ~(listening /\ ~Settled /\ ~aborted)
  <2>1. /\ ~signal /\ signal' = TRUE
        /\ UNCHANGED <<timer, timedOut, aborted, listening, kills, killed, received, captured, truncated>>
    BY <1>5 DEF Abort
  <2>2. Types' /\ OutputIsAccounted'
    BY <1>1, <1>2, <2>1 DEF Types, OutputIsAccounted
  <2>3. Settled \/ child = "unborn"
    BY <1>1, <1>5, <2>1 DEF Armed
  <2>4. Armed'
    BY <1>1, <1>2, <1>3, <2>1, <2>3 DEF Armed
  <2>5. Reasons'
    BY <1>1, <1>2, <1>3, <2>1 DEF Reasons, KillIsReported
  <2> QED
    BY <2>2, <2>4, <2>5 DEF RunnerInv
<1>6. CASE TimerFires
  <2>1. /\ timer = "set" /\ timer' = "fired" /\ timedOut' = TRUE /\ Terminate
        /\ UNCHANGED <<signal, listening, aborted>>
    BY <1>6 DEF TimerFires
  <2>2. /\ kills' \in Nat /\ killed' \in BOOLEAN
        /\ received' \in Nat /\ captured' \in 0..MaxOutput /\ truncated' \in BOOLEAN
        /\ OutputIsAccounted'
    BY <1>1, <1>2, <2>1, TerminateKeeps
  <2>3. Types'
    BY <1>1, <1>2, <2>1, <2>2 DEF Types
  <2>4. ~Settled /\ child # "unborn"
    BY <1>1, <2>1 DEF Armed
  <2>5. Armed'
    BY <1>1, <1>2, <1>3, <2>1, <2>4 DEF Armed
  <2>6. Reasons'
    BY <1>3, <2>1, <2>4 DEF Reasons, KillIsReported
  <2> QED
    BY <2>2, <2>3, <2>5, <2>6 DEF RunnerInv
<1> QED
  BY <1>4, <1>5, <1>6

LEMMA NextRunner == RunnerInv /\ [Next]_vars => RunnerInv'
<1> SUFFICES ASSUME RunnerInv, [Next]_vars PROVE RunnerInv'
  OBVIOUS
<1>1. CASE UNCHANGED vars
  BY <1>1 DEF vars, RunnerInv, Types, Armed, Reasons, KillIsReported, OutputIsAccounted, Settled
<1> QED
  BY <1>1, SettlingSteps, ChildSteps, KillingSteps DEF Next, RunProcess, Done

LEMMA RunnerHolds == Spec => []RunnerInv
BY InitRunner, NextRunner, PTL DEF Spec

-----------------------------------------------------------------------------
\* Whatever the two streams and the runner itself write, in pieces of any size:
\* what is kept is all of it or the whole budget, never more, and output is said
\* to be missing exactly when more came than the budget holds.
THEOREM OutputAccounted == Spec => []OutputIsAccounted
BY RunnerHolds, PTL DEF RunnerInv

\* A process that the runner killed never passes for one that ended by itself,
\* in whatever order the timer, the signal and its end arrive.
THEOREM KillsReported == Spec => []KillIsReported
BY RunnerHolds, PTL DEF RunnerInv, Reasons

\* No kill once the call has settled, when the pid may be another process's.
THEOREM NoLateKill == Spec => NoKillAfterEnd
<1>1. RunnerInv /\ [Next]_vars => [Settled => kills' = kills]_vars
  <2> SUFFICES ASSUME RunnerInv, Next, Settled PROVE kills' = kills
    OBVIOUS
  <2>1. timer # "set" /\ ~listening
    BY DEF RunnerInv, Armed
  <2> QED
    BY <2>1 DEF Next, RunProcess, NotStarted, SpawnThrows, Spawned, SpawnError, Output, Exit, Release,
       Close, Abort, TimerFires, Done, vars
<1> QED
  BY <1>1, RunnerHolds, PTL DEF Spec, NoKillAfterEnd

\* The promise settles once, and says of the signal what was so at that moment:
\* every step is an abort, the settling, or nothing that a caller sees.
THEOREM RunnerImplementsResult == Spec => ImplementsResult
<1>1. Init => Abstract!Init
  BY DEF Init, Abstract!Init
<1>2. ASSUME RunnerInv, NEW how \in Abstract!Exits, Finish(how), UNCHANGED signal,
             ~Settled => (aborted <=> signal)
      PROVE  Abstract!Settle \/ UNCHANGED <<signal, result>>
  <2>1. CASE Settled
    BY <1>2, <2>1 DEF Finish
  <2>2. CASE ~Settled
    <3>1. result' = [exit |-> how, timedOut |-> timedOut, aborted |-> aborted]
      BY <1>2, <2>2 DEF Finish
    <3>2. timedOut \in BOOLEAN /\ aborted \in BOOLEAN /\ aborted = signal
      BY <1>2, <2>2 DEF RunnerInv, Types
    <3>3. result' \in Abstract!Results /\ result'.aborted = signal
      BY <1>2, <3>1, <3>2 DEF Abstract!Results
    <3> QED
      BY <1>2, <2>2, <3>3 DEF Settled, Abstract!Settle
  <2> QED
    BY <2>1, <2>2
<1>3. RunnerInv /\ [Next]_vars => [Abstract!Next]_<<signal, result>>
  <2> SUFFICES ASSUME RunnerInv, [Next]_vars
               PROVE  Abstract!Next \/ UNCHANGED <<signal, result>>
    OBVIOUS
  <2>1. Armed /\ Types
    BY DEF RunnerInv
  <2>2. CASE NotStarted
    <3>1. result = Abstract!Pending /\ signal = TRUE /\ UNCHANGED signal
          /\ result' = [exit |-> "none", timedOut |-> FALSE, aborted |-> TRUE]
      BY <2>1, <2>2 DEF NotStarted, Settled, Types
    <3>2. result' \in Abstract!Results /\ result'.aborted = signal
      BY <3>1 DEF Abstract!Results, Abstract!Exits
    <3> QED
      BY <3>1, <3>2 DEF Abstract!Next, Abstract!Settle
  <2>3. CASE SpawnThrows
    <3>1. ~signal /\ ~Settled /\ child = "unborn" /\ Finish("none") /\ UNCHANGED signal
      BY <2>3 DEF SpawnThrows
    <3>2. aborted <=> signal
      BY <2>1, <3>1 DEF Armed
    <3> QED
      BY <3>1, <3>2, <1>2 DEF Abstract!Exits, Abstract!Next
  <2>4. CASE SpawnError \/ Close
    <3>1. child # "unborn" /\ UNCHANGED signal /\ \E how \in Abstract!Exits : Finish(how)
      BY <2>1, <2>4 DEF SpawnError, Close, Types, Abstract!Exits
    <3>2. ~Settled => (aborted <=> signal)
      BY <2>1, <3>1 DEF Armed
    <3> QED
      BY <3>1, <3>2, <1>2 DEF Abstract!Next
  <2>5. CASE Abort
    BY <2>5 DEF Abort, Abstract!Abort, Abstract!Next
  <2>6. CASE Spawned \/ Output \/ Exit \/ Release \/ TimerFires \/ Done \/ UNCHANGED vars
    BY <2>6 DEF Spawned, Output, Exit, Release, TimerFires, Done, vars
  <2> QED
    BY <2>2, <2>3, <2>4, <2>5, <2>6 DEF Next, RunProcess
<1> QED
  BY <1>1, <1>3, RunnerHolds, PTL DEF Spec, ImplementsResult, Abstract!Spec
=============================================================================
