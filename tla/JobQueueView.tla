---------------------------- MODULE JobQueueView ----------------------------
(***************************************************************************)
(* The two ways the Router tells a caller where a Job stands in the queue: *)
(* the index in listQueuedOrdered (the queue_position events) and the      *)
(* COUNT query of getQueuePosition (the Job API).  Each states the order   *)
(* in SQL of its own.                                                      *)
(***************************************************************************)
EXTENDS JobScheduler, Sequences, Functions

CONSTANT ListLimit   \* MAX_JOB_LIST_LIMIT

ASSUME ListAssumption == ListLimit \in Nat

Sorted(s) == \A i, j \in DOMAIN s : i < j => Precedes(s[i], s[j])

ListQueuedOrdered ==
  LET all == CHOOSE s \in [1..Cardinality(Queued) -> Queued] : Sorted(s)
  IN  SubSeq(all, 1, IF Len(all) < ListLimit THEN Len(all) ELSE ListLimit)

\* The position in the queue_position events and the position in the answers of
\* the Job API are the same number, for every Job that gets such events, and
\* the Jobs that get none stand behind all that do.  The Job claimed next is
\* the one these numbers put first.
PositionsAgree ==
  /\ \A j \in JobIds : IsNextQueued(j) => QueuePosition(j) = 1
  /\ \A i \in DOMAIN ListQueuedOrdered : QueuePosition(ListQueuedOrdered[i]) = i
  /\ \A j \in Queued \ Range(ListQueuedOrdered) : QueuePosition(j) > ListLimit
=============================================================================
