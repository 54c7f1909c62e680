----------------------------- MODULE MCApproval -----------------------------
(* Constant values for the runs of Approval. *)
EXTENDS Approval

\* A competition of two, and tasks with one candidate each.
OneTask == [k \in Candidates |-> CHOOSE t \in Tasks : TRUE]
OneEach == CHOOSE f \in [Candidates -> Tasks] : \A t \in Tasks : \E k \in Candidates : f[k] = t
OneRepo == [k \in Candidates |-> CHOOSE r \in Repos : TRUE]
AnyRank == CHOOSE f \in [Candidates -> 1..2] : \A j, k \in Candidates : j # k => f[j] # f[k]
=============================================================================
