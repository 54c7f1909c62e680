--------------------------- MODULE DecisionProofs ---------------------------
(***************************************************************************)
(* What the clean-up after a decision leaves, and that approval implements *)
(* Decision, for any number of tasks, candidates and requests.             *)
(***************************************************************************)
EXTENDS ApprovalProofs

CleaningUp == {"cleanup", "deleteBranch", "prune"}

Gone(k) == worktree[k] = "gone" /\ ~branch[k]

\* What holds of cleanupTask() and of its answer.
CleanupInv(c) ==
  /\ pc[c] \in CleaningUp =>
       /\ c \notin answered /\ runs[c] \subseteq CandidatesOf(task[c])
       /\ toClean[c] \subseteq CandidatesOf(task[c])
       /\ pc[c] = "prune" => toClean[c] = {}
  /\ pc[c] = "deleteBranch" =>
       cleaning[c] \in CandidatesOf(task[c]) /\ worktree[cleaning[c]] = "gone"
  /\ c \in answered => pc[c] = "done" /\ runs[c] \subseteq CandidatesOf(task[c])
  /\ c \in answered \/ pc[c] \in CleaningUp =>
       /\ decision[task[c]] # "pending"
       /\ \A k \in runs[c] :
            \/ k \in warnings[c] \/ Gone(k)
            \/ c \notin answered /\ k \in toClean[c]
            \/ pc[c] = "deleteBranch" /\ k = cleaning[c]

\* A task is cleaned up once.
CleanedOnce ==
  \A c, d \in Calls :
    /\ c \in answered \/ pc[c] \in CleaningUp
    /\ d \in answered \/ pc[d] \in CleaningUp
    /\ task[c] = task[d]
    => c = d

CleanInv == (\A c \in Calls : CleanupInv(c)) /\ CleanedOnce

cleanVars == <<runs, toClean, warnings, cleaning, answered>>

-----------------------------------------------------------------------------
(* The clean-up *)

LEMMA InitClean == Init => CleanInv
BY DEF Init, CleanInv, CleanupInv, CleanedOnce, CleaningUp

\* A request cleans up only what is its own, and a task is decided once, so that
\* no other request cleans up after the same task.
LEMMA CleanFrame ==
  ASSUME LockTypes, CleanInv, NEW c \in Calls, Step(c),
         \A d \in Calls \ {c} :
           /\ runs'[d] = runs[d] /\ toClean'[d] = toClean[d]
           /\ warnings'[d] = warnings[d] /\ cleaning'[d] = cleaning[d]
           /\ d \in answered' <=> d \in answered,
         \A t \in Tasks : decision[t] # "pending" => decision'[t] = decision[t],
         \A k \in Candidates : TaskOf[k] # task[c] \/ pc[c] \notin CleaningUp =>
           /\ worktree[k] = "gone" => worktree'[k] = "gone"
           /\ Gone(k) => Gone(k)',
         CleanupInv(c)',
         c \in answered' \/ pc'[c] \in CleaningUp =>
           pc[c] \in CleaningUp \/ decision[task[c]] = "pending"
  PROVE  CleanInv'
<1>1. task[c] \in Tasks /\ task' = task /\ \A d \in Calls \ {c} : pc'[d] = pc[d]
  BY Moves DEF LockTypes, Finish, Goto
<1>2. ASSUME NEW d \in Calls, d # c, d \in answered \/ pc[d] \in CleaningUp
      PROVE  /\ task[d] = task[c] => pc[c] \notin CleaningUp
             /\ \A k \in CandidatesOf(task[d]) :
                  /\ worktree[k] = "gone" => worktree'[k] = "gone"
                  /\ Gone(k) => Gone(k)'
  BY <1>2 DEF CleanInv, CleanedOnce, CandidatesOf
<1>3. ASSUME NEW d \in Calls PROVE CleanupInv(d)'
  <2>1. CASE d = c
    BY <2>1 DEF CleanupInv
  <2>2. CASE d # c
    <3>1. CleanupInv(d) /\ task[d] \in Tasks
      BY DEF CleanInv, LockTypes
    <3>2. /\ pc'[d] = pc[d] /\ task'[d] = task[d] /\ runs'[d] = runs[d] /\ toClean'[d] = toClean[d]
          /\ warnings'[d] = warnings[d] /\ cleaning'[d] = cleaning[d]
          /\ d \in answered' <=> d \in answered
      BY <2>2, <1>1
    <3>3. CASE d \in answered \/ pc[d] \in CleaningUp
      <4>1. runs[d] \subseteq CandidatesOf(task[d]) /\ decision'[task[d]] # "pending"
        BY <3>1, <3>3 DEF CleanupInv
      <4>2. \A k \in CandidatesOf(task[d]) :
              /\ worktree[k] = "gone" => worktree'[k] = "gone"
              /\ Gone(k) => Gone(k)'
        BY <2>2, <3>3, <1>2
      <4>3. \A k \in runs[d] :
              \/ k \in warnings[d] \/ Gone(k)'
              \/ d \notin answered /\ k \in toClean[d]
              \/ pc[d] = "deleteBranch" /\ k = cleaning[d]
        BY <3>1, <3>3, <4>1, <4>2 DEF CleanupInv
      <4>4. pc[d] = "deleteBranch" => worktree'[cleaning[d]] = "gone"
        BY <3>1, <4>2 DEF CleanupInv
      <4> QED
        BY <3>1, <3>2, <4>1, <4>3, <4>4 DEF CleanupInv
    <3>4. CASE ~(d \in answered \/ pc[d] \in CleaningUp)
      BY <3>2, <3>4 DEF CleanupInv, CleaningUp
    <3> QED
      BY <3>3, <3>4
  <2> QED
    BY <2>1, <2>2
<1>4. ASSUME NEW d \in Calls, d # c, d \in answered' \/ pc'[d] \in CleaningUp,
             c \in answered' \/ pc'[c] \in CleaningUp, task[c] = task[d]
      PROVE  FALSE
  <2>1. d \in answered \/ pc[d] \in CleaningUp
    BY <1>1, <1>4
  <2>2. decision[task[d]] # "pending"
    BY <2>1 DEF CleanInv, CleanupInv
  <2> QED
    BY <1>2, <1>4, <2>1, <2>2
<1>5. CleanedOnce'
  <2> SUFFICES ASSUME NEW d \in Calls, NEW e \in Calls,
                      d \in answered' \/ pc'[d] \in CleaningUp,
                      e \in answered' \/ pc'[e] \in CleaningUp, task[d] = task[e]
               PROVE  d = e
    BY <1>1 DEF CleanedOnce
  <2>1. CASE d # c /\ e # c
    BY <2>1, <1>1 DEF CleanInv, CleanedOnce
  <2> QED
    BY <2>1, <1>4
<1> QED
  BY <1>3, <1>5 DEF CleanInv

\* The steps before the clean-up.
LEMMA OtherStepsClean ==
  ASSUME LockTypes, DataInv, CleanInv, NEW c \in Calls, Step(c),
         pc[c] \notin CleaningUp
  PROVE  CleanInv'
<1> USE DEF At, cleanup, gitState, candidate, target, database
<1>1. UNCHANGED <<worktree, branch, answered, task>> /\ task[c] \in Tasks
  BY Moves DEF LockTypes, Step, Review, ValidateTarget, ValidateHead, Stage, HasStagedChanges,
         CaptureStaged, CompareStaged, Unstage, GetStagedDiff, Commit, VerifyCommit, MergeSucceeds, MergeFails, Abort, CommandFails, RecordApproval, Reject, CleanWorktree,
         CleanWorktreeFails, CleanBranch, Prune, CleaningUp, StageAll, UnstageAll, CommitIndex,
         MergeNoFastForward, MergeStops, AbortMerge
<1>2. \/ /\ UNCHANGED <<decision, cleanVars>> /\ pc'[c] \notin CleaningUp
      \/ /\ RecordApproval(c) \/ Reject(c)
         /\ decision[task[c]] = "pending" /\ BeginCleanup(c)
         /\ Decide(task[c], "approved", "merged") \/ Decide(task[c], "rejected", "rejected")
  BY DEF LockTypes, Step, Review, ValidateTarget, ValidateHead, Stage, HasStagedChanges,
         CaptureStaged, CompareStaged, Unstage, GetStagedDiff, Commit, VerifyCommit, MergeSucceeds, MergeFails, Abort, CommandFails, RecordApproval, Reject, CleanWorktree,
         CleanWorktreeFails, CleanBranch, Prune, CleaningUp, cleanVars, Finish, Goto
<1>3. c \notin answered
  <2>1. pc[c] # "done"
    BY Moves DEF Turn, Inside
  <2> QED
    BY <2>1 DEF CleanInv, CleanupInv
<1>4. \A k \in Candidates : Gone(k) => Gone(k)'
  BY <1>1 DEF Gone
<1>5. CASE UNCHANGED <<decision, cleanVars>> /\ pc'[c] \notin CleaningUp
  <2>1. CleanupInv(c)'
    BY <1>1, <1>3, <1>5 DEF CleanupInv, cleanVars, CleaningUp
  <2> QED
    BY <2>1, <1>1, <1>3, <1>4, <1>5, CleanFrame DEF cleanVars
<1>6. CASE /\ RecordApproval(c) \/ Reject(c)
           /\ decision[task[c]] = "pending" /\ BeginCleanup(c)
           /\ Decide(task[c], "approved", "merged") \/ Decide(task[c], "rejected", "rejected")
  <2> DEFINE found == recorded \intersect CandidatesOf(task[c])
  <2>1. /\ runs' = [runs EXCEPT ![c] = found] /\ toClean' = [toClean EXCEPT ![c] = found]
        /\ UNCHANGED <<cleaning, warnings>>
        /\ pc'[c] = NextCleanup(found)
    BY <1>6 DEF BeginCleanup, Goto, LockTypes
  <2>2. /\ \A t \in Tasks : decision[t] # "pending" => decision'[t] = decision[t]
        /\ decision'[task[c]] # "pending"
    BY <1>6, <1>1 DEF Decide, DataInv, DataTypes
  <2>3. runs'[c] = found /\ toClean'[c] = found /\ found \subseteq CandidatesOf(task[c])
    BY <2>1 DEF DataInv, DataTypes
  <2>4. \A d \in Calls \ {c} : runs'[d] = runs[d] /\ toClean'[d] = toClean[d]
    BY <2>1 DEF DataInv, DataTypes
  <2>5. pc'[c] \in {"cleanup", "prune"} /\ (pc'[c] = "prune" => found = {})
    BY <2>1 DEF NextCleanup
  <2>6. CleanupInv(c)'
    BY <2>2, <2>3, <2>5, <1>1, <1>3 DEF CleanupInv, CleaningUp, CandidatesOf
  <2> QED
    BY <2>1, <2>2, <2>4, <2>6, <1>1, <1>3, <1>4, <1>6, CleanFrame
<1> QED
  BY <1>2, <1>5, <1>6

LEMMA CleaningSteps ==
  ASSUME LockTypes, DataInv, CleanInv, NEW c \in Calls, Step(c),
         CleanWorktree(c) \/ CleanWorktreeFails(c) \/ CleanBranch(c) \/ Prune(c)
  PROVE  CleanInv'
<1> USE DEF At, cleanup, gitState, candidate, target, database
<1>1. /\ task' = task /\ task[c] \in Tasks /\ UNCHANGED <<decision, runs>>
      /\ pc[c] \in CleaningUp /\ CleanupInv(c)
  BY Moves DEF LockTypes, CleanWorktree, CleanWorktreeFails, CleanBranch, Prune, CleaningUp, CleanInv
<1>2. /\ worktree \in [Candidates -> {"present", "stale", "gone"}] /\ branch \in [Candidates -> BOOLEAN]
      /\ toClean \in [Calls -> SUBSET Candidates]
      /\ warnings \in [Calls -> SUBSET (Candidates \union {NoCandidate})]
      /\ cleaning \in [Calls -> Candidates \union {NoCandidate}]
      /\ runs \in [Calls -> SUBSET Candidates]
  BY DEF DataInv, DataTypes
<1>3. /\ c \notin answered /\ decision[task[c]] # "pending"
      /\ runs[c] \subseteq CandidatesOf(task[c]) /\ toClean[c] \subseteq CandidatesOf(task[c])
      /\ CandidatesOf(task[c]) \subseteq Candidates
  BY <1>1 DEF CleanupInv, CandidatesOf
<1>4. ASSUME \A d \in Calls \ {c} :
               /\ toClean'[d] = toClean[d] /\ warnings'[d] = warnings[d] /\ cleaning'[d] = cleaning[d]
               /\ d \in answered' <=> d \in answered,
             \A k \in Candidates \ CandidatesOf(task[c]) :
               /\ worktree[k] = "gone" => worktree'[k] = "gone"
               /\ Gone(k) => Gone(k)',
             CleanupInv(c)'
      PROVE  CleanInv'
  BY <1>1, <1>4, CleanFrame DEF CandidatesOf
<1>5. CASE CleanWorktree(c)
  <2>1. PICK k \in toClean[c] :
          /\ worktree' = [worktree EXCEPT ![k] = "gone"] /\ UNCHANGED branch
          /\ toClean' = [toClean EXCEPT ![c] = @ \ {k}] /\ cleaning' = [cleaning EXCEPT ![c] = k]
    BY <1>5 DEF CleanWorktree, RemoveWorktree
  <2>2. UNCHANGED <<warnings, answered>> /\ pc[c] = "cleanup" /\ pc'[c] = "deleteBranch"
    BY <1>5 DEF CleanWorktree, Goto, LockTypes
  <2>3. /\ toClean'[c] = toClean[c] \ {k} /\ cleaning'[c] = k /\ worktree'[k] = "gone"
        /\ \A j \in Candidates : worktree[j] = "gone" => worktree'[j] = "gone"
    BY <2>1, <1>2, <1>3
  <2>4. \A j \in Candidates : Gone(j) => Gone(j)'
    BY <2>1, <2>3 DEF Gone
  <2>5. CleanupInv(c)'
    BY <2>1, <2>2, <2>3, <2>4, <1>1, <1>3 DEF CleanupInv, CleaningUp, CandidatesOf
  <2> QED
    BY <2>1, <2>2, <2>3, <2>4, <2>5, <1>2, <1>4
<1>6. CASE CleanWorktreeFails(c)
  <2>1. PICK k \in toClean[c] :
          /\ RemoveWorktreeHalfway(k) \/ UNCHANGED gitState
          /\ warnings' = [warnings EXCEPT ![c] = @ \union {k}]
          /\ toClean' = [toClean EXCEPT ![c] = @ \ {k}]
          /\ Goto(c, NextCleanup(toClean[c] \ {k}))
    BY <1>6 DEF CleanWorktreeFails, Warn
  <2>2. /\ UNCHANGED <<cleaning, answered, branch>> /\ pc[c] = "cleanup"
        /\ pc'[c] = NextCleanup(toClean[c] \ {k})
    BY <1>6, <2>1 DEF CleanWorktreeFails, RemoveWorktreeHalfway, Goto, LockTypes
  <2>3. /\ toClean'[c] = toClean[c] \ {k} /\ warnings'[c] = warnings[c] \union {k}
        /\ pc'[c] \in {"cleanup", "prune"} /\ (pc'[c] = "prune" => toClean'[c] = {})
    BY <2>1, <2>2, <1>2 DEF NextCleanup
  <2>4. \A j \in Candidates \ {k} : worktree'[j] = worktree[j]
    BY <2>1, <1>2 DEF RemoveWorktreeHalfway
  <2>5. \A j \in Candidates \ {k} : Gone(j) => Gone(j)'
    BY <2>2, <2>4 DEF Gone
  <2>6. CleanupInv(c)'
    BY <2>2, <2>3, <2>5, <1>1, <1>3 DEF CleanupInv, CleaningUp, CandidatesOf
  <2> QED
    BY <2>1, <2>2, <2>4, <2>5, <2>6, <1>2, <1>3, <1>4
<1>7. CASE CleanBranch(c)
  <2>1. PICK k \in CandidatesOf(task[c]) :
          k = cleaning[c] /\ worktree[k] = "gone" /\ pc[c] = "deleteBranch"
    BY <1>1, <1>7 DEF CleanBranch, CleanupInv, CleaningUp
  <2>2. /\ UNCHANGED <<toClean, answered, worktree>> /\ cleaning' = [cleaning EXCEPT ![c] = NoCandidate]
        /\ pc'[c] = NextCleanup(toClean[c])
    BY <1>7 DEF CleanBranch, DeleteBranch, Goto, LockTypes
  <2>3. \/ branch' = [branch EXCEPT ![k] = FALSE] /\ UNCHANGED warnings
        \/ UNCHANGED branch /\ warnings' = [warnings EXCEPT ![c] = @ \union {k}]
    BY <2>1, <1>7 DEF CleanBranch, DeleteBranch, Warn
  <2>4. pc'[c] \in {"cleanup", "prune"} /\ (pc'[c] = "prune" => toClean'[c] = {})
    BY <2>2 DEF NextCleanup
  <2>5. \A j \in Candidates : ~branch[j] => ~branch'[j]
    BY <2>3, <1>2
  <2>6. \A j \in Candidates : Gone(j) => Gone(j)'
    BY <2>2, <2>5 DEF Gone
  <2>7. k \in warnings'[c] \/ Gone(k)'
    <3>1. CASE branch' = [branch EXCEPT ![k] = FALSE]
      BY <3>1, <2>1, <2>2, <1>2, <1>3 DEF Gone
    <3>2. CASE warnings' = [warnings EXCEPT ![c] = @ \union {k}]
      BY <3>2, <1>2
    <3> QED
      BY <2>3, <3>1, <3>2
  <2>8. warnings[c] \subseteq warnings'[c] /\ \A d \in Calls \ {c} : warnings'[d] = warnings[d]
    BY <2>3, <1>2
  <2>9. CleanupInv(c)'
    BY <2>1, <2>2, <2>4, <2>6, <2>7, <2>8, <1>1, <1>3 DEF CleanupInv, CleaningUp, CandidatesOf
  <2> QED
    BY <2>2, <2>6, <2>8, <2>9, <1>2, <1>4
<1>8. CASE Prune(c)
  <2>1. /\ UNCHANGED <<toClean, warnings, cleaning, branch>> /\ answered' = answered \union {c}
        /\ pc[c] = "prune" /\ pc'[c] = "done"
    BY <1>8 DEF Prune, PruneWorktrees, Finish, LockTypes
  <2>2. \A j \in Candidates : worktree[j] = "gone" => worktree'[j] = "gone"
    BY <1>8 DEF Prune, PruneWorktrees
  <2>3. \A j \in Candidates : Gone(j) => Gone(j)'
    BY <2>1, <2>2 DEF Gone
  <2>4. CleanupInv(c)'
    BY <2>1, <2>3, <1>1, <1>3 DEF CleanupInv, CleaningUp, CandidatesOf
  <2> QED
    BY <2>1, <2>2, <2>3, <2>4, <1>4
<1> QED
  BY <1>5, <1>6, <1>7, <1>8

LEMMA NextClean == LockTypes /\ DataInv /\ CleanInv /\ [Next]_vars => CleanInv'
<1> SUFFICES ASSUME LockTypes, DataInv, CleanInv, [Next]_vars PROVE CleanInv'
  OBVIOUS
<1> USE DEF gitState, candidate, target, database, cleanup, requests
<1>1. CASE UNCHANGED <<decision, worktree, branch, cleanVars, pc, task>>
  BY <1>1 DEF CleanInv, CleanupInv, CleanedOnce, Gone, CandidatesOf, cleanVars
<1>2. ASSUME NEW c \in Calls, Step(c) PROVE CleanInv'
  <2>1. CASE pc[c] \in CleaningUp
    <3>1. CleanWorktree(c) \/ CleanWorktreeFails(c) \/ CleanBranch(c) \/ Prune(c)
      BY <1>2, <2>1 DEF Step, Review, ValidateTarget, ValidateHead, Stage, HasStagedChanges,
         CaptureStaged, CompareStaged, Unstage, GetStagedDiff, Commit, VerifyCommit, MergeSucceeds, MergeFails, Abort, CommandFails, RecordApproval, Reject,
         CleaningUp, At, Enter, Fallible
    <3> QED
      BY <1>2, <3>1, CleaningSteps
  <2> QED
    BY <1>2, <2>1, OtherStepsClean
<1>3. ASSUME NEW c \in Calls, NEW t \in Tasks, NEW k \in {"approve", "reject"}, Request(c, t, k)
      PROVE  CleanInv'
  <2>1. UNCHANGED <<decision, worktree, branch, cleanVars>>
    BY <1>3 DEF Request, cleanVars
  <2>2. /\ pc[c] = "idle" /\ pc'[c] \notin CleaningUp /\ c \notin answered
        /\ \A d \in Calls \ {c} : pc'[d] = pc[d] /\ task'[d] = task[d]
    BY <1>3 DEF Request, LockTypes, CleaningUp, CleanInv, CleanupInv
  <2>3. ASSUME NEW d \in Calls PROVE CleanupInv(d)'
    <3>1. CASE d = c
      BY <3>1, <2>1, <2>2 DEF CleanupInv, CleaningUp, cleanVars
    <3>2. CASE d # c
      BY <3>2, <2>1, <2>2 DEF CleanInv, CleanupInv, Gone, CandidatesOf, cleanVars
    <3> QED
      BY <3>1, <3>2
  <2>4. CleanedOnce'
    BY <2>1, <2>2 DEF CleanInv, CleanedOnce, cleanVars
  <2> QED
    BY <2>3, <2>4 DEF CleanInv
<1>4. CASE Crash
  <2>1. UNCHANGED <<decision, worktree, branch, runs, warnings, answered, task>>
    BY <1>4 DEF Crash
  <2>2. \A c \in Calls : pc'[c] \notin CleaningUp /\ (pc[c] = "done" => pc'[c] = "done")
    BY <1>4 DEF Crash, CleaningUp
  <2>3. ASSUME NEW d \in Calls PROVE CleanupInv(d)'
    <3>1. d \in answered =>
            /\ pc[d] = "done" /\ runs[d] \subseteq CandidatesOf(task[d]) /\ decision[task[d]] # "pending"
            /\ \A k \in runs[d] : k \in warnings[d] \/ Gone(k)
      BY DEF CleanInv, CleanupInv
    <3>2. \A k \in Candidates : Gone(k)' <=> Gone(k)
      BY <2>1 DEF Gone
    <3> QED
      BY <2>1, <2>2, <3>1, <3>2 DEF CleanupInv, CandidatesOf, CleaningUp
  <2>4. CleanedOnce'
    BY <2>1, <2>2 DEF CleanInv, CleanedOnce
  <2> QED
    BY <2>3, <2>4 DEF CleanInv
<1> QED
  BY <1>1, <1>2, <1>3, <1>4
     DEF Next, RecordResult, EditCandidate, TouchTarget, Checkout, UserActs, vars, cleanVars

\* The answer of a clean-up hides nothing: every candidate it was to remove is
\* gone or named in a warning, whatever failed and whatever the others do since.
THEOREM CleanupIsReported == Spec => []CleanedOrReported
<1>1. DataInv /\ CleanInv => CleanedOrReported
  <2> SUFFICES ASSUME CleanInv, NEW c \in Calls, c \in answered, NEW k \in runs[c]
               PROVE  k \in warnings[c] \/ Gone(k)
    BY DEF CleanedOrReported, Gone, DataInv, DataTypes
  <2> QED
    BY DEF CleanInv, CleanupInv
<1> QED
  BY <1>1, DataHolds, InitClean, NextClean, PTL DEF Spec

-----------------------------------------------------------------------------
(* The refinement *)

Kept(k) == worktree[k] = "present" /\ branch[k]

dvars == <<decision, merge, kept, meddled>>

\* What merge is made of.
merging == <<winner, merged, into>>

LEMMA InitImplements == Init => D!InitDecision
<1> SUFFICES ASSUME Init PROVE D!InitDecision
  OBVIOUS
<1>1. merge = [t \in Tasks |-> "none"]
  BY ApprovalAssumption DEF Init, merge
<1>2. \A k \in Candidates : worktree[k] = "present" /\ branch[k]
  BY DEF Init, InitGit
<1>3. kept = [t \in Tasks |-> TRUE]
  BY <1>2 DEF kept, CandidatesOf
<1> QED
  BY <1>1, <1>3 DEF Init, D!InitDecision

\* What another candidate keeps or loses is another task's.
LEMMA SameKept ==
  ASSUME \A k \in Candidates : Kept(k)' <=> Kept(k)
  PROVE  kept' = kept
<1>1. ASSUME NEW t \in Tasks
      PROVE  (\A k \in CandidatesOf(t) : Kept(k))' <=> (\A k \in CandidatesOf(t) : Kept(k))
  BY DEF CandidatesOf
<1> QED
  BY <1>1 DEF kept, Kept

LEMMA SameKeptIfUnchanged == UNCHANGED <<worktree, branch>> => kept' = kept
BY SameKept DEF Kept

LEMMA SameMerge == UNCHANGED merging => merge' = merge
BY DEF merge, merging

\* The clean-up discards what a decision allows it to.
LEMMA DiscardStep ==
  ASSUME NEW t \in Tasks, NEW k \in CandidatesOf(t), ~Kept(k)', decision[t] # "pending",
         \A j \in Candidates \ {k} : Kept(j)' <=> Kept(j),
         UNCHANGED <<decision, merging, meddled>>
  PROVE  D!Discard(t) \/ UNCHANGED dvars
<1>1. \A u \in Tasks \ {t} : (\A j \in CandidatesOf(u) : Kept(j))' <=> (\A j \in CandidatesOf(u) : Kept(j))
  BY DEF CandidatesOf
<1>2. ~(\A j \in CandidatesOf(t) : Kept(j))'
  BY DEF CandidatesOf
<1>3. kept = [u \in Tasks |-> \A j \in CandidatesOf(u) : Kept(j)]
  BY DEF kept, Kept
<1>4. kept' = [u \in Tasks |-> (\A j \in CandidatesOf(u) : Kept(j))']
  BY DEF kept, Kept
<1>5. kept' = [kept EXCEPT ![t] = FALSE]
  BY <1>1, <1>2, <1>3, <1>4
<1>6. CASE kept[t]
  BY <1>5, <1>6, SameMerge DEF D!Discard
<1>7. CASE ~kept[t]
  <2>1. kept' = kept
    BY <1>1, <1>2, <1>3, <1>4, <1>7
  <2> QED
    BY <2>1, SameMerge DEF dvars
<1> QED
  BY <1>6, <1>7

LEMMA CleaningImplements ==
  ASSUME LockTypes, DataInv, CleanInv, NEW c \in Calls, Step(c),
         CleanWorktree(c) \/ CleanWorktreeFails(c) \/ CleanBranch(c) \/ Prune(c)
  PROVE  D!NextDecision \/ UNCHANGED dvars
<1> USE DEF At, gitState, candidate, target, database
<1>1. UNCHANGED <<decision, merging, meddled>>
  BY StepsLeave DEF CleanWorktree, CleanWorktreeFails, CleanBranch, Prune, RemoveWorktree,
         RemoveWorktreeHalfway, DeleteBranch, PruneWorktrees, merging
<1>2. /\ worktree \in [Candidates -> {"present", "stale", "gone"}] /\ branch \in [Candidates -> BOOLEAN]
      /\ task[c] \in Tasks /\ CleanupInv(c)
  BY DEF DataInv, DataTypes, LockTypes, CleanInv
<1>3. /\ decision[task[c]] # "pending" /\ toClean[c] \subseteq CandidatesOf(task[c])
      /\ CandidatesOf(task[c]) \subseteq Candidates
  BY <1>2 DEF CleanupInv, CleaningUp, CandidatesOf, CleanWorktree, CleanWorktreeFails, CleanBranch, Prune
<1>4. ASSUME NEW k \in CandidatesOf(task[c]), ~Kept(k)', \A j \in Candidates \ {k} : Kept(j)' <=> Kept(j)
      PROVE  D!NextDecision \/ UNCHANGED dvars
  BY <1>1, <1>2, <1>3, <1>4, DiscardStep DEF D!NextDecision
<1>5. CASE UNCHANGED <<worktree, branch>>
  BY <1>1, <1>5, SameMerge, SameKeptIfUnchanged DEF dvars
<1>6. ASSUME NEW k \in CandidatesOf(task[c]), NEW w \in {"stale", "gone"},
             worktree' = [worktree EXCEPT ![k] = w], UNCHANGED branch
      PROVE  D!NextDecision \/ UNCHANGED dvars
  <2>1. worktree'[k] = w /\ \A j \in Candidates \ {k} : worktree'[j] = worktree[j]
    BY <1>2, <1>3, <1>6
  <2>2. ~Kept(k)' /\ \A j \in Candidates \ {k} : Kept(j)' <=> Kept(j)
    BY <1>6, <2>1 DEF Kept
  <2> QED
    BY <1>4, <2>2
<1>7. ASSUME NEW k \in CandidatesOf(task[c]), branch' = [branch EXCEPT ![k] = FALSE], UNCHANGED worktree
      PROVE  D!NextDecision \/ UNCHANGED dvars
  <2>1. ~branch'[k] /\ \A j \in Candidates \ {k} : branch'[j] <=> branch[j]
    BY <1>2, <1>3, <1>7
  <2>2. ~Kept(k)' /\ \A j \in Candidates \ {k} : Kept(j)' <=> Kept(j)
    BY <1>7, <2>1 DEF Kept
  <2> QED
    BY <1>4, <2>2
<1>8. CASE CleanWorktree(c)
  BY <1>3, <1>6, <1>8 DEF CleanWorktree, RemoveWorktree
<1>9. CASE CleanWorktreeFails(c)
  BY <1>3, <1>5, <1>6, <1>9 DEF CleanWorktreeFails, RemoveWorktreeHalfway
<1>10. CASE CleanBranch(c)
  <2>1. cleaning[c] \in CandidatesOf(task[c])
    BY <1>2, <1>10 DEF CleanBranch, CleanupInv
  <2> QED
    BY <2>1, <1>5, <1>7, <1>10 DEF CleanBranch, DeleteBranch
<1>11. CASE Prune(c)
  <2>1. CASE UNCHANGED <<worktree, branch>>
    BY <2>1, <1>5
  <2>2. ASSUME NEW r, PruneWorktrees(r) PROVE D!NextDecision \/ UNCHANGED dvars
    <3>1. \A j \in Candidates : worktree'[j] = "present" <=> worktree[j] = "present"
      BY <2>2, <1>2 DEF PruneWorktrees
    <3>2. \A j \in Candidates : Kept(j)' <=> Kept(j)
      BY <2>2, <3>1 DEF PruneWorktrees, Kept
    <3> QED
      BY <3>2, <1>1, SameMerge, SameKept DEF dvars
  <2> QED
    BY <2>1, <2>2, <1>11 DEF Prune
<1> QED
  BY <1>8, <1>9, <1>10, <1>11

LEMMA DecisionImplements ==
  ASSUME LockTypes, DataInv, NEW c \in Calls, Step(c), RecordApproval(c) \/ Reject(c)
  PROVE  D!NextDecision \/ UNCHANGED dvars
<1> USE DEF At, gitState, candidate, target, merging
<1>1. UNCHANGED <<merging, worktree, branch, meddled>> /\ task[c] \in Tasks
  BY StepsLeave DEF RecordApproval, Reject, Decide, database, LockTypes
<1>2. UNCHANGED <<merge, kept, meddled>>
  BY <1>1, SameMerge, SameKeptIfUnchanged
<1>3. CASE RecordApproval(c)
  <2>1. pc[c] = "record" /\ CallInv(c)
    BY <1>3 DEF RecordApproval, DataInv
  <2>2. winner[task[c]] \in Candidates /\ merged[winner[task[c]]] # "none"
    BY <2>1 DEF CallInv, MergedAsReviewed, Reviewed
  <2>3. merge[task[c]] # "none"
    BY <2>2, <1>1 DEF merge
  <2> QED
    BY <2>3, <1>1, <1>2, <1>3 DEF RecordApproval, Decide, database, D!NextDecision, D!Approve, dvars
<1>4. CASE Reject(c)
  BY <1>1, <1>2, <1>4 DEF Reject, Decide, database, D!NextDecision, D!Reject, dvars
<1> QED
  BY <1>3, <1>4

LEMMA MergeImplements ==
  ASSUME LockTypes, DataInv, NEW c \in Calls, Step(c), MergeSucceeds(c)
  PROVE  D!Merge(task[c])
<1> DEFINE k == Reviewed(c)
           m == IF committed[k] = "evaluated" /\ checkedOut[RepoOf[k]] = "target" THEN "reviewed" ELSE "other"
<1>1. pc[c] = "merge" /\ CallInv(c) /\ task[c] \in Tasks
  BY DEF MergeSucceeds, At, DataInv, LockTypes
<1>2. /\ k \in Candidates /\ decision[task[c]] = "pending" /\ committed[k] # "none"
      /\ merged[k] = "none" /\ winner[task[c]] = k
  BY <1>1 DEF CallInv, Committed, Reviewed
<1>3. m = "other" => task[c] \in meddled
  BY <1>1 DEF CallInv, SeenInv, Committed
<1>4. /\ UNCHANGED <<decision, winner, worktree, branch, meddled>>
      /\ merged' = [merged EXCEPT ![k] = committed[k]]
      /\ into' = [into EXCEPT ![k] = checkedOut[RepoOf[k]]]
  BY <1>2, StepsLeave DEF MergeSucceeds, MergeNoFastForward, database, candidate
<1>5. /\ merged' [k] = committed[k] /\ into'[k] = checkedOut[RepoOf[k]]
      /\ \A j \in Candidates \ {k} : merged'[j] = merged[j] /\ into'[j] = into[j]
  BY <1>2, <1>4 DEF DataInv, DataTypes
<1>6. merge[task[c]] = "none" /\ merge'[task[c]] = m
  BY <1>1, <1>2, <1>4, <1>5 DEF merge
<1>7. ASSUME NEW t \in Tasks, t # task[c]
      PROVE  winner[t] \in Candidates =>
               merged'[winner[t]] = merged[winner[t]] /\ into'[winner[t]] = into[winner[t]]
  <2>1. TaskInv(t) /\ TaskInv(task[c])
    BY <1>1 DEF DataInv
  <2>2. winner[t] \in Candidates => winner[t] # k
    BY <2>1, <1>2, <1>7, ApprovalAssumption DEF TaskInv
  <2> QED
    BY <2>2, <1>5
<1>8. ASSUME NEW t \in Tasks, t # task[c] PROVE merge'[t] = merge[t]
  BY <1>4, <1>7, <1>8 DEF merge
<1> HIDE DEF k, m
<1>9. merge' = [merge EXCEPT ![task[c]] = m]
  <2>1. merge = [t \in Tasks |-> merge[t]] /\ merge' = [t \in Tasks |-> merge'[t]]
    BY DEF merge
  <2> QED
    BY <2>1, <1>1, <1>6, <1>8
<1>10. kept' = kept
  BY <1>4, SameKeptIfUnchanged
<1>11. m \in {"reviewed"} \union (IF task[c] \in meddled THEN {"other"} ELSE {})
  BY <1>3 DEF m
<1> QED
  BY <1>2, <1>4, <1>6, <1>9, <1>10, <1>11 DEF D!Merge

\* Nobody meddles with what is merged or decided.
LEMMA PeopleImplement ==
  ASSUME LockTypes, DataInv,
         \/ \E k \in Candidates : EditCandidate(k)
         \/ \E r \in Repos : TouchTarget(r) \/ Checkout(r)
  PROVE  D!NextDecision \/ UNCHANGED dvars
<1>1. UNCHANGED <<decision, merging, worktree, branch>>
  BY DEF EditCandidate, TouchTarget, Checkout, UserActs, database, merging
<1>2. UNCHANGED <<decision, merge, kept>>
  BY <1>1, SameMerge, SameKeptIfUnchanged
<1>3. ASSUME NEW T \in SUBSET Calls, meddled' = meddled \union {task[c] : c \in T},
             \A c \in T : pc[c] \in {"compare", "revalidateHead", "merge"}
      PROVE  D!NextDecision
  <2>1. ASSUME NEW c \in T PROVE decision[task[c]] = "pending" /\ merge[task[c]] = "none"
    <3>1. CallInv(c) /\ task[c] \in Tasks /\ pc[c] \in {"compare", "revalidateHead", "merge"}
      BY <1>3 DEF DataInv, LockTypes
    <3>2. /\ Reviewed(c) \in Candidates /\ decision[task[c]] = "pending"
          /\ committed[Reviewed(c)] = "none" \/ merged[Reviewed(c)] = "none"
      BY <3>1 DEF CallInv, Reviewing, Committed
    <3>3. merged[winner[task[c]]] = "none"
      BY <3>2 DEF DataInv, CandidateInv, Reviewed
    <3> QED
      BY <3>1, <3>2, <3>3 DEF merge
  <2>2. {task[c] : c \in T} \in SUBSET Tasks
    BY DEF LockTypes
  <2>3. D!Meddle({task[c] : c \in T})
    BY <2>1, <1>2, <1>3 DEF D!Meddle
  <2> QED
    BY <2>2, <2>3 DEF D!NextDecision
<1>4. ASSUME NEW k \in Candidates, EditCandidate(k) PROVE D!NextDecision
  <2> DEFINE S == {d \in Calls : pc[d] \in {"compare"} /\ Reviewed(d) = k}
  <2>1. meddled' = meddled \union {task[c] : c \in S}
    BY <1>4 DEF EditCandidate, Meddled
  <2>2. S \in SUBSET Calls /\ \A c \in S : pc[c] \in {"compare", "revalidateHead", "merge"}
    OBVIOUS
  <2> HIDE DEF S
  <2> QED
    BY <2>1, <2>2, <1>3
<1>5. ASSUME NEW r \in Repos, Checkout(r) PROVE D!NextDecision
  <2> DEFINE S == {d \in Calls : pc[d] \in {"revalidateHead", "merge"} /\ RepoOf[Reviewed(d)] = r}
  <2>1. meddled' = meddled \union {task[c] : c \in S}
    BY <1>5 DEF Checkout, Meddled
  <2>2. S \in SUBSET Calls /\ \A c \in S : pc[c] \in {"compare", "revalidateHead", "merge"}
    OBVIOUS
  <2> HIDE DEF S
  <2> QED
    BY <2>1, <2>2, <1>3
<1>6. ASSUME NEW r \in Repos, TouchTarget(r) PROVE UNCHANGED dvars
  BY <1>2, <1>6 DEF TouchTarget, dvars
<1> QED
  BY <1>4, <1>5, <1>6

\* The winner of an execution that ends late is not merged.
LEMMA RecordResultImplements ==
  ASSUME DataInv, NEW t \in Tasks, RecordResult(t)
  PROVE  UNCHANGED dvars
<1>1. winner[t] = NoCandidate /\ NoCandidate \notin Candidates
  BY ApprovalAssumption DEF RecordResult, DataInv, TaskInv
<1>2. PICK w \in CandidatesOf(t) \union {NoCandidate} : winner' = [winner EXCEPT ![t] = w]
  BY DEF RecordResult
<1>3. UNCHANGED <<decision, merged, into, worktree, branch, meddled>>
  BY DEF RecordResult, gitState, candidate, target, auxiliary
<1>4. \A u \in Tasks \ {t} : winner'[u] = winner[u]
  BY <1>2 DEF DataInv, DataTypes
<1>5. winner'[t] \in Candidates => merged[winner'[t]] = "none"
  <2>1. winner'[t] = w
    BY <1>2 DEF DataInv, DataTypes
  <2>2. w \in Candidates => merged[w] = "none"
    BY <1>1, <1>2, ApprovalAssumption DEF DataInv, CandidateInv, CandidatesOf
  <2> QED
    BY <2>1, <2>2
<1>6. merge' = merge
  BY <1>1, <1>3, <1>4, <1>5 DEF merge
<1> QED
  BY <1>3, <1>6, SameKeptIfUnchanged DEF dvars

LEMMA NextImplements ==
  LockTypes /\ DataInv /\ CleanInv /\ [Next]_vars => [D!NextDecision]_dvars
<1> SUFFICES ASSUME LockTypes, DataInv, CleanInv, [Next]_vars
             PROVE  D!NextDecision \/ UNCHANGED dvars
  OBVIOUS
<1> USE DEF gitState, candidate, target, database, auxiliary
<1>1. CASE UNCHANGED <<decision, winner, merged, into, worktree, branch, meddled>>
  BY <1>1, SameMerge, SameKeptIfUnchanged DEF dvars, merging
<1>2. ASSUME NEW c \in Calls, Step(c) PROVE D!NextDecision \/ UNCHANGED dvars
  <2>1. CASE MergeSucceeds(c)
    BY <1>2, <2>1, MergeImplements DEF D!NextDecision, LockTypes
  <2>2. CASE \/ Review(c) \/ ValidateTarget(c) \/ ValidateHead(c) \/ Stage(c) \/ HasStagedChanges(c)
             \/ CaptureStaged(c) \/ CompareStaged(c) \/ Unstage(c) \/ GetStagedDiff(c)
             \/ Commit(c) \/ VerifyCommit(c) \/ MergeFails(c) \/ Abort(c) \/ CommandFails(c)
    BY <1>1, <2>2 DEF Review, ValidateTarget, ValidateHead, Stage, HasStagedChanges, CaptureStaged,
       CompareStaged, Unstage, GetStagedDiff, Commit, VerifyCommit, MergeFails, Abort, CommandFails,
       StageAll, UnstageAll, CommitIndex, MergeStops, AbortMerge
  <2> QED
    BY <1>2, <2>1, <2>2, CleaningImplements, DecisionImplements DEF Step
<1> QED
  BY <1>1, <1>2, RecordResultImplements, PeopleImplement DEF Next, Request, Crash, vars

\* Whatever the interleaving, the failures and the crashes: one decision per
\* task, only what was evaluated merged, into the target branch and before the
\* decision, unless a person acts where no check can see it; only a merge an
\* approval; and nothing removed before the decision.
THEOREM ApprovalImplementsDecision == Spec => ImplementsDecision
<1>1. Spec => [](LockTypes /\ DataInv /\ CleanInv)
  BY DataHolds, InitClean, NextClean, PTL DEF Spec
<1> QED
  BY <1>1, InitImplements, NextImplements, PTL
     DEF Spec, ImplementsDecision, D!DecisionSpec, D!decisionVars, dvars
=============================================================================
