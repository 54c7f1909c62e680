--------------------------- MODULE MCCandidatePage ---------------------------
(* Constant values for the runs of CandidatePage. *)
EXTENDS CandidatePage, TLC

\* Every task has a candidate of its own.
OneOfEach == [t \in Tasks |-> t]

AnyOrder == Permutations(Tasks)
==============================================================================
