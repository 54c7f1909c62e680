------------------------------ MODULE Decision ------------------------------
(***************************************************************************)
(* What approval promises about each task: one decision, which only a      *)
(* merge made before it can make an approval; a merge of what was          *)
(* evaluated, into the target branch, unless somebody meddled with it; and *)
(* nothing thrown away before the decision.                                *)
(***************************************************************************)
CONSTANT Tasks

VARIABLES
  decision,  \* pending, approved or rejected
  merge,     \* the merge made of the task: none, reviewed or other
  kept,      \* worktrees and branches of the task's candidates are all there
  meddled    \* tasks in whose approval a person acted unseen

decisionVars == <<decision, merge, kept, meddled>>

InitDecision ==
  /\ decision = [t \in Tasks |-> "pending"]
  /\ merge    = [t \in Tasks |-> "none"]
  /\ kept     = [t \in Tasks |-> TRUE]
  /\ meddled  = {}

Meddle(T) ==
  /\ \A t \in T : decision[t] = "pending" /\ merge[t] = "none"
  /\ meddled' = meddled \union T
  /\ UNCHANGED <<decision, merge, kept>>

Merge(t) ==
  /\ decision[t] = "pending" /\ merge[t] = "none"
  /\ \E m \in {"reviewed"} \union (IF t \in meddled THEN {"other"} ELSE {}) :
       merge' = [merge EXCEPT ![t] = m]
  /\ UNCHANGED <<decision, kept, meddled>>

Approve(t) ==
  /\ decision[t] = "pending" /\ merge[t] # "none"
  /\ decision' = [decision EXCEPT ![t] = "approved"]
  /\ UNCHANGED <<merge, kept, meddled>>

Reject(t) ==
  /\ decision[t] = "pending"
  /\ decision' = [decision EXCEPT ![t] = "rejected"]
  /\ UNCHANGED <<merge, kept, meddled>>

Discard(t) ==
  /\ decision[t] # "pending" /\ kept[t]
  /\ kept' = [kept EXCEPT ![t] = FALSE]
  /\ UNCHANGED <<decision, merge, meddled>>

NextDecision ==
  \/ \E t \in Tasks : Merge(t) \/ Approve(t) \/ Reject(t) \/ Discard(t)
  \/ \E T \in SUBSET Tasks : Meddle(T)

DecisionSpec == InitDecision /\ [][NextDecision]_decisionVars
=============================================================================
