---------------------------- MODULE JobLifecycle ----------------------------
(***************************************************************************)
(* What the Job queue promises, with no scheduler, process or database in  *)
(* it: a Job is accepted, waits, occupies one of MaxActive slots, and ends *)
(* in exactly one of four ways that nothing revises.  JobScheduler is      *)
(* shown to implement this module.                                         *)
(***************************************************************************)
EXTENDS Integers, FiniteSets

CONSTANTS
  JobIds,     \* the identifiers Jobs may be given
  MaxActive   \* slots: no more Jobs than this are ever under way

VARIABLE phase   \* where each Job is in its life

Finished == {"completed", "failed", "cancelled", "interrupted"}
UnderWay == {j \in JobIds : phase[j] \in {"active", "cancelling"}}

Init == phase = [j \in JobIds |-> "absent"]

MoveJob(j, from, to) ==
  /\ phase[j] = from
  /\ phase' = [phase EXCEPT ![j] = to]

\* A set of Jobs that are under way moves together: one step of the system
\* may ask all of them to stop, or find all of them abandoned.
MoveJobs(S, to) ==
  phase' = [j \in JobIds |-> IF j \in S THEN to ELSE phase[j]]

Accept(j)   == MoveJob(j, "absent", "queued")
Withdraw(j) == MoveJob(j, "queued", "cancelled")
Begin(j)    == /\ Cardinality(UnderWay) < MaxActive
               /\ MoveJob(j, "queued", "active")
Conclude(j) == \E outcome \in {"completed", "failed"} : MoveJob(j, "active", outcome)
Stop(j)     == MoveJob(j, "cancelling", "cancelled")

AskToStop(S) == /\ \A j \in S : phase[j] = "active"
                /\ MoveJobs(S, "cancelling")
Abandon(S)   == /\ S \subseteq UnderWay
                /\ MoveJobs(S, "interrupted")

Next ==
  \/ \E j \in JobIds : \/ Accept(j) \/ Withdraw(j) \/ Begin(j)
                       \/ Conclude(j) \/ Stop(j)
  \/ \E S \in SUBSET JobIds : AskToStop(S) \/ Abandon(S)

Spec == Init /\ [][Next]_phase
=============================================================================
