------------------------------ MODULE Approval ------------------------------
(***************************************************************************)
(* Human approval: approve and reject (approval.service.js) with the       *)
(* review they rest on (candidate-review.service.js), the decision columns *)
(* they write (history.service.js), the clean-up that follows              *)
(* (worktree-cleanup.service.js) and the execution that creates what they  *)
(* decide about (agent-executor.service.js, competition.service.js).       *)
(*                                                                         *)
(* Every git command is a child process that others run beside: each is a  *)
(* step of its own, with its effect from Git, and it may fail or time out. *)
(* SQLite calls take effect in the turn that makes them.  validateTarget() *)
(* is two steps, at its reads of the branch and of HEAD: what changes      *)
(* between its first read and that of the branch is as if it changed after *)
(* them, but HEAD is another branch's after a checkout.                    *)
(***************************************************************************)
EXTENDS Git, FiniteSets

CONSTANTS
  Tasks,           \* executed tasks
  TaskOf,          \* the task a candidate was made for
  Eligible,        \* candidates with a status and a verdict that can be approved
  Rank,            \* the order in which the review prefers them
  NoCandidate,     \* the review finds no eligible candidate
  Calls,           \* approve and reject requests
  NoCall,          \* no entry in taskLocks
  MaxUserActions,  \* bound: what people do in the repositories meanwhile
  MaxCrashes       \* bound: crashes of the Router

CandidatesOf(t) == {k \in Candidates : TaskOf[k] = t}

ASSUME ApprovalAssumption ==
  /\ Tasks # {}
  /\ TaskOf \in [Candidates -> Tasks] /\ RepoOf \in [Candidates -> Repos]
  /\ \A t \in Tasks : CandidatesOf(t) # {}
  /\ \A j, k \in Candidates : TaskOf[j] = TaskOf[k] => RepoOf[j] = RepoOf[k]
  /\ Eligible \subseteq Candidates /\ Rank \in [Candidates -> Nat]
  /\ NoCandidate \notin Candidates /\ NoCall \notin Calls
  /\ MaxUserActions \in Nat /\ MaxCrashes \in Nat

VARIABLES
  \* the tasks and agent_runs tables
  decision,   \* column decision
  outcome,    \* column status of the task: merged, rejected, or open for another
  recorded,   \* candidates whose agent run and fingerprint are stored
  winner,     \* the candidate that the review derives from them
  execution,  \* running, or over
  \* the requests
  pc, task, previous,
  stagedDiff, \* approve(): what was staged
  runs,       \* cleanupTask(): the rows it read,
  toClean,    \*   those still to be cleaned,
  cleaning,   \*   the one whose branch comes next,
  warnings,   \*   and those that something failed for
  answered,   \* requests whose answer says that the clean-up was made
  tail,       \* the map taskLocks: the last call queued on each task
  \* history
  meddled,    \* tasks in whose approval a person acted where no check can see it
  \* bounds
  actions, crashes

database == <<decision, outcome, recorded, winner, execution>>
requests == <<task, previous>>
cleanup  == <<runs, toClean, cleaning, warnings>>
auxiliary == <<meddled, actions, crashes>>
vars == <<database, gitState, requests, stagedDiff, cleanup, pc, answered, tail, auxiliary>>

-----------------------------------------------------------------------------
(* withTaskLock: a chain of promises per task *)

\* pc is the operation that waits for the lock, and then the await it stands at.
Request(c, t, k) ==
  /\ pc[c] = "idle"
  /\ task'     = [task EXCEPT ![c] = t]
  /\ previous' = [previous EXCEPT ![c] = tail[t]]
  /\ tail'     = [tail EXCEPT ![t] = c]
  /\ pc'       = [pc EXCEPT ![c] = k]
  /\ UNCHANGED <<database, gitState, stagedDiff, cleanup, answered, auxiliary>>

Released(c) == previous[c] \in {NoCall} \union {d \in Calls : pc[d] = "done"}

At(c, label) == pc[c] = label

Goto(c, label) == pc' = [pc EXCEPT ![c] = label] /\ UNCHANGED tail

\* Mutant: the finally block removes the entry of whoever queued last.
FinishAndForget(c) ==
  /\ pc'   = [pc EXCEPT ![c] = "done"]
  /\ tail' = [tail EXCEPT ![task[c]] = NoCall]

\* The finally block: release, and forget the lock if nobody queued after.
Finish(c) ==
  /\ pc'   = [pc EXCEPT ![c] = "done"]
  /\ tail' = IF tail[task[c]] = c THEN [tail EXCEPT ![task[c]] = NoCall] ELSE tail

\* The body of a request starts when the request before it has left.
Enter(c, label) ==
  /\ At(c, label) /\ Released(c)
  /\ previous' = [previous EXCEPT ![c] = NoCall]
  /\ UNCHANGED task

Reviewed(c) == winner[task[c]]

-----------------------------------------------------------------------------
(* approve() *)

\* inspect(): an eligible run, its registered worktree still at the base
\* commit, and a fresh fingerprint (files, index and HEAD) equal to the stored.
Approvable(t) ==
  LET k == winner[t] IN
  /\ k # NoCandidate /\ decision[t] = "pending"
  /\ worktree[k] = "present" /\ branch[k] /\ committed[k] = "none"
  /\ files[k] = "evaluated" /\ index[k] = "empty"

\* A review may also refuse for what is not modelled: another fingerprint, a
\* sensitive file, a location that does not match.
Review(c) ==
  /\ Enter(c, "approve")
  /\ \/ Approvable(task[c]) /\ Goto(c, "validate")
     \/ Finish(c)
  /\ UNCHANGED <<database, gitState, stagedDiff, cleanup, answered, auxiliary>>

TargetIsReady(r) ==
  GetOperationState(r) = "none" /\ IsClean(r) /\ GetCurrentBranch(r) = "target"

\* Before the candidate is staged, and again after it is committed.
ValidateTarget(c) ==
  /\ LET ready == TargetIsReady(RepoOf[Reviewed(c)])
     IN  \/ At(c, "validate") /\ ready /\ Goto(c, "validateHead")
         \/ At(c, "revalidate") /\ ready /\ Goto(c, "revalidateHead")
         \/ (At(c, "validate") \/ At(c, "revalidate")) /\ ~ready /\ Finish(c)
  /\ UNCHANGED <<database, gitState, requests, stagedDiff, cleanup, answered, auxiliary>>

ValidateHead(c) ==
  /\ \/ At(c, "validateHead") /\ HeadMayBe(RepoOf[Reviewed(c)], Base) /\ Goto(c, "stage")
     \/ At(c, "revalidateHead") /\ HeadMayBe(RepoOf[Reviewed(c)], Base) /\ Goto(c, "merge")
     \/ (At(c, "validateHead") \/ At(c, "revalidateHead")) /\ Finish(c)
  /\ UNCHANGED <<database, gitState, requests, stagedDiff, cleanup, answered, auxiliary>>

Stage(c) ==
  /\ At(c, "stage")
  /\ StageAll(Reviewed(c))
  /\ Goto(c, "hasStaged")
  /\ UNCHANGED <<database, requests, stagedDiff, cleanup, answered, auxiliary>>

\* An edit may have undone every change.
HasStagedChanges(c) ==
  /\ At(c, "hasStaged")
  /\ \/ Goto(c, "capture")
     \/ index[Reviewed(c)] = "edited" /\ Goto(c, "unstage")
  /\ UNCHANGED <<database, gitState, requests, stagedDiff, cleanup, answered, auxiliary>>

\* Mutant: the fingerprint of what is staged is not compared with the reviewed one.
CaptureUnseen(c) ==
  /\ At(c, "capture")
  /\ Goto(c, "compare")
  /\ UNCHANGED <<database, gitState, requests, stagedDiff, cleanup, answered, auxiliary>>

\* fingerprints.capture hashes the files, not the index.
CaptureStaged(c) ==
  /\ At(c, "capture")
  /\ Goto(c, IF files[Reviewed(c)] = "evaluated" THEN "compare" ELSE "unstage")
  /\ UNCHANGED <<database, gitState, requests, stagedDiff, cleanup, answered, auxiliary>>

CompareStaged(c) ==
  /\ At(c, "compare")
  /\ Goto(c, IF HasUnstagedOrUntrackedChanges(Reviewed(c)) THEN "unstage" ELSE "diff")
  /\ UNCHANGED <<database, gitState, requests, stagedDiff, cleanup, answered, auxiliary>>

\* What was staged is put back, and the request refused.
Unstage(c) ==
  /\ At(c, "unstage")
  /\ UnstageAll(Reviewed(c))
  /\ Finish(c)
  /\ UNCHANGED <<database, requests, stagedDiff, cleanup, answered, auxiliary>>

GetStagedDiff(c) ==
  /\ At(c, "diff")
  /\ stagedDiff' = [stagedDiff EXCEPT ![c] = index[Reviewed(c)]]
  /\ Goto(c, "commit")
  /\ UNCHANGED <<database, gitState, requests, cleanup, answered, auxiliary>>

\* Without an identity git refuses, and the index is emptied.
Commit(c) ==
  /\ At(c, "commit")
  /\ \/ CommitIndex(Reviewed(c)) /\ Goto(c, "verify")
     \/ UNCHANGED gitState /\ Goto(c, "unstage")
  /\ UNCHANGED <<database, requests, stagedDiff, cleanup, answered, auxiliary>>

\* The committed patch against the staged one; then setCandidateCommit.
VerifyCommit(c) ==
  /\ At(c, "verify")
  /\ IF committed[Reviewed(c)] = stagedDiff[c] /\ decision[task[c]] = "pending"
     THEN Goto(c, "revalidate")
     ELSE Finish(c)
  /\ stagedDiff' = [stagedDiff EXCEPT ![c] = "empty"]
  /\ UNCHANGED <<database, gitState, requests, cleanup, answered, auxiliary>>

\* The merge is made; that its HEAD cannot be read makes it a failure.
MergeSucceeds(c) ==
  /\ At(c, "merge")
  /\ MergeNoFastForward(Reviewed(c))
  /\ Goto(c, "record") \/ Goto(c, "abort")
  /\ UNCHANGED <<database, requests, stagedDiff, cleanup, answered, auxiliary>>

\* Mutant: the error of the merge is not looked at.
MergeFailsUnnoticed(c) ==
  /\ At(c, "merge")
  /\ MergeStops(Reviewed(c))
  /\ Goto(c, "record")
  /\ UNCHANGED <<database, requests, stagedDiff, cleanup, answered, auxiliary>>

MergeFails(c) ==
  /\ At(c, "merge")
  /\ MergeStops(Reviewed(c))
  /\ Goto(c, "abort")
  /\ UNCHANGED <<database, requests, stagedDiff, cleanup, answered, auxiliary>>

\* Whatever comes of it, the answer is that the merge failed.
Abort(c) ==
  /\ At(c, "abort")
  /\ AbortMerge(RepoOf[Reviewed(c)]) \/ UNCHANGED gitState
  /\ Finish(c)
  /\ UNCHANGED <<database, requests, stagedDiff, cleanup, answered, auxiliary>>

\* A git command of approve(), or setCandidateCommit, throws before it has done
\* anything: the lock is released and everything stays as it is.
Fallible == {"validate", "validateHead", "stage", "hasStaged", "capture", "compare", "unstage",
             "diff", "commit", "verify", "revalidate", "revalidateHead"}

\* Mutant: an exception leaves the lock taken.
CommandFailsHolding(c) ==
  /\ pc[c] \in Fallible
  /\ Goto(c, "failed")
  /\ UNCHANGED <<database, gitState, requests, stagedDiff, cleanup, answered, auxiliary>>

CommandFails(c) ==
  /\ pc[c] \in Fallible
  /\ Finish(c)
  /\ UNCHANGED <<database, gitState, requests, stagedDiff, cleanup, answered, auxiliary>>

-----------------------------------------------------------------------------
(* cleanupTask(), after a decision: the recorded candidates one after the  *)
(* other, in any order; what fails is reported and not tried again         *)

NextCleanup(rest) == IF rest = {} THEN "prune" ELSE "cleanup"

BeginCleanup(c) ==
  LET found == recorded \intersect CandidatesOf(task[c]) IN
  /\ runs'    = [runs EXCEPT ![c] = found]
  /\ toClean' = [toClean EXCEPT ![c] = found]
  /\ Goto(c, NextCleanup(found))
  /\ UNCHANGED <<cleaning, warnings>>

Warn(c, k) == warnings' = [warnings EXCEPT ![c] = @ \union {k}]

CleanWorktree(c) ==
  /\ At(c, "cleanup")
  /\ \E k \in toClean[c] :
       /\ Registered(k) /\ RemoveWorktree(k)
       /\ toClean'  = [toClean EXCEPT ![c] = @ \ {k}]
       /\ cleaning' = [cleaning EXCEPT ![c] = k]
  /\ Goto(c, "deleteBranch")
  /\ UNCHANGED <<database, requests, stagedDiff, runs, warnings, answered, auxiliary>>

\* Mutant: the exception of one candidate ends the loop.
CleanWorktreeFailsForAll(c) ==
  /\ At(c, "cleanup")
  /\ \E k \in toClean[c] :
       /\ RemoveWorktreeHalfway(k) \/ UNCHANGED gitState
       /\ Warn(c, k)
       /\ toClean' = [toClean EXCEPT ![c] = {}]
       /\ Goto(c, "prune")
  /\ UNCHANGED <<database, requests, stagedDiff, runs, cleaning, answered, auxiliary>>

CleanWorktreeFails(c) ==
  /\ At(c, "cleanup")
  /\ \E k \in toClean[c] :
       /\ RemoveWorktreeHalfway(k) \/ UNCHANGED gitState
       /\ Warn(c, k)
       /\ toClean' = [toClean EXCEPT ![c] = @ \ {k}]
       /\ Goto(c, NextCleanup(toClean[c] \ {k}))
  /\ UNCHANGED <<database, requests, stagedDiff, runs, cleaning, answered, auxiliary>>

\* A winner's branch is deleted only if it is merged, any other by force.
CleanBranch(c) ==
  /\ At(c, "deleteBranch")
  /\ LET k == cleaning[c]
         force == decision[task[c]] = "rejected" \/ k # Reviewed(c)
     IN  \/ MayDelete(k, force) /\ DeleteBranch(k) /\ UNCHANGED warnings
         \/ Warn(c, k) /\ UNCHANGED gitState
  /\ cleaning' = [cleaning EXCEPT ![c] = NoCandidate]
  /\ Goto(c, NextCleanup(toClean[c]))
  /\ UNCHANGED <<database, requests, stagedDiff, runs, toClean, answered, auxiliary>>

Prune(c) ==
  /\ At(c, "prune")
  /\ (\E k \in CandidatesOf(task[c]) : PruneWorktrees(RepoOf[k])) \/ UNCHANGED gitState
  /\ Finish(c)
  /\ answered' = answered \union {c}
  /\ UNCHANGED <<database, requests, stagedDiff, cleanup, auxiliary>>

-----------------------------------------------------------------------------
(* The two decisions *)

Decide(t, d, status) ==
  /\ decision' = [decision EXCEPT ![t] = d]
  /\ outcome'  = [outcome EXCEPT ![t] = status]
  /\ UNCHANGED <<recorded, winner, execution>>

\* When the database refuses, the answer is `merged' with a warning.
RecordApproval(c) ==
  /\ At(c, "record")
  /\ \/ /\ decision[task[c]] = "pending"
        /\ Decide(task[c], "approved", "merged") /\ BeginCleanup(c)
     \/ Finish(c) /\ UNCHANGED <<database, cleanup>>
  /\ UNCHANGED <<gitState, requests, stagedDiff, answered, auxiliary>>

\* Nothing is removed unless the decision is stored.
Reject(c) ==
  /\ Enter(c, "reject")
  /\ \/ /\ decision[task[c]] = "pending"
        /\ Decide(task[c], "rejected", "rejected") /\ BeginCleanup(c)
     \/ Finish(c) /\ UNCHANGED <<database, cleanup>>
  /\ UNCHANGED <<gitState, stagedDiff, answered, auxiliary>>

-----------------------------------------------------------------------------
(* the execution that produces the candidates, people and crashes *)

\* selectCandidateRun(): the first of the eligible in the order of the review.
Selected(k, stored) ==
  LET eligible == stored \intersect Eligible IN
  \/ k = NoCandidate /\ eligible = {}
  \/ k \in eligible /\ \A j \in eligible : Rank[k] <= Rank[j]

\* persistSingleResult and persistCompetitionResults store the runs and then the
\* status of the task, whatever has been decided meanwhile; each write may fail
\* without the others.
RecordResult(t) ==
  /\ execution[t] = "running"
  /\ execution' = [execution EXCEPT ![t] = "over"]
  /\ \E stored \in SUBSET CandidatesOf(t), k \in CandidatesOf(t) \union {NoCandidate} :
       /\ Selected(k, stored)
       /\ recorded' = recorded \union stored
       /\ winner' = [winner EXCEPT ![t] = k]
  /\ outcome'  \in {outcome, [outcome EXCEPT ![t] = "open"]}
  /\ UNCHANGED <<decision, gitState, requests, stagedDiff, cleanup, pc, answered, tail, auxiliary>>

UserActs ==
  /\ actions < MaxUserActions
  /\ actions' = actions + 1
  /\ UNCHANGED <<database, index, committed, worktree, branch, merged, into, onto, requests,
                 stagedDiff, cleanup, pc, answered, tail, crashes>>

\* These calls have checked what is changed, and will not again.
Meddled(calls) == meddled' = meddled \union {task[c] : c \in calls}

\* An edit of the one candidate that is looked at, or one that undoes it. Nobody
\* stages it: the index stays in the hands of approve().
EditCandidate(k) ==
  /\ UserActs /\ worktree[k] = "present" /\ k = winner[TaskOf[k]]
  /\ files' = [files EXCEPT ![k] = IF @ = "edited" THEN "evaluated" ELSE "edited"]
  /\ Meddled({c \in Calls : pc[c] = "compare" /\ Reviewed(c) = k})
  /\ UNCHANGED <<head, clean, checkedOut, operation>>

\* A commit on the target branch, an edit or its end, a merge.
TouchTarget(r) ==
  /\ UserActs
  /\ \/ head' = [head EXCEPT ![r] = @ + 1] /\ UNCHANGED <<clean, operation>>
     \/ clean' = [clean EXCEPT ![r] = ~@] /\ UNCHANGED <<head, operation>>
     \/ /\ operation[r] = "none" /\ operation' = [operation EXCEPT ![r] = "foreign"]
        /\ UNCHANGED <<head, clean>>
  /\ UNCHANGED <<files, checkedOut, meddled>>

\* Git changes the branch only when no merge is open.
Checkout(r) ==
  /\ UserActs /\ operation[r] = "none"
  /\ checkedOut' = [checkedOut EXCEPT ![r] = IF @ = "target" THEN "other" ELSE "target"]
  /\ Meddled({c \in Calls : pc[c] \in {"revalidateHead", "merge"} /\ RepoOf[Reviewed(c)] = r})
  /\ UNCHANGED <<files, head, clean, operation>>

\* The Router dies: its requests, locks and executions are gone.
Crash ==
  /\ crashes < MaxCrashes
  /\ crashes' = crashes + 1
  /\ pc' = [c \in Calls |-> IF pc[c] = "idle" THEN "idle" ELSE "done"]
  /\ tail' = [t \in Tasks |-> NoCall]
  /\ previous' = [c \in Calls |-> NoCall]
  /\ stagedDiff' = [c \in Calls |-> "empty"]
  /\ toClean' = [c \in Calls |-> {}]
  /\ cleaning' = [c \in Calls |-> NoCandidate]
  /\ execution' = [t \in Tasks |-> "over"]
  /\ UNCHANGED <<decision, outcome, recorded, winner, gitState, task, runs, warnings, answered, meddled,
                 actions>>

-----------------------------------------------------------------------------
\* Nothing reads the fields of a request that has not been made.
AnyTask == CHOOSE t \in Tasks : TRUE

Init ==
  /\ InitGit
  /\ decision  = [t \in Tasks |-> "pending"]
  /\ outcome   = [t \in Tasks |-> "open"]
  /\ recorded  = {}
  /\ winner    = [t \in Tasks |-> NoCandidate]
  /\ execution = [t \in Tasks |-> "running"]
  /\ pc        = [c \in Calls |-> "idle"]
  /\ task      = [c \in Calls |-> AnyTask]
  /\ previous  = [c \in Calls |-> NoCall]
  /\ stagedDiff = [c \in Calls |-> "empty"]
  /\ runs      = [c \in Calls |-> {}]
  /\ toClean   = [c \in Calls |-> {}]
  /\ cleaning  = [c \in Calls |-> NoCandidate]
  /\ warnings  = [c \in Calls |-> {}]
  /\ answered  = {}
  /\ tail      = [t \in Tasks |-> NoCall]
  /\ meddled   = {}
  /\ actions = 0 /\ crashes = 0

Step(c) ==
  \/ Review(c) \/ ValidateTarget(c) \/ ValidateHead(c) \/ Stage(c)
  \/ HasStagedChanges(c) \/ CaptureStaged(c) \/ CompareStaged(c) \/ Unstage(c)
  \/ GetStagedDiff(c) \/ Commit(c) \/ VerifyCommit(c)
  \/ MergeSucceeds(c) \/ MergeFails(c) \/ Abort(c) \/ RecordApproval(c)
  \/ CommandFails(c) \/ Reject(c)
  \/ CleanWorktree(c) \/ CleanWorktreeFails(c) \/ CleanBranch(c) \/ Prune(c)

Next ==
  \/ \E c \in Calls, t \in Tasks, k \in {"approve", "reject"} : Request(c, t, k)
  \/ \E c \in Calls : Step(c)
  \/ \E t \in Tasks : RecordResult(t)
  \/ \E k \in Candidates : EditCandidate(k)
  \/ \E r \in Repos : TouchTarget(r) \/ Checkout(r)
  \/ Crash

Spec == Init /\ [][Next]_vars

\* Every git command ends: GitService gives each a time-out.
FairSpec == Spec /\ \A c \in Calls : WF_vars(Step(c))

-----------------------------------------------------------------------------
(* Properties *)

Inside(c) == pc[c] \notin {"idle", "approve", "reject", "done"}

\* The lock works: two requests about one task never run their bodies at the
\* same time, whatever third request queues while one of them leaves.
OneRequestPerTask ==
  \A c, d \in Calls : c # d /\ task[c] = task[d] /\ Inside(c) => ~Inside(d)

\* The merge made of a task: of what was evaluated, into the target branch, or another.
merge ==
  [t \in Tasks |->
     IF winner[t] \notin Candidates \/ merged[winner[t]] = "none" THEN "none"
     ELSE IF merged[winner[t]] = "evaluated" /\ into[winner[t]] = "target" THEN "reviewed"
     ELSE "other"]

\* A task is recorded as approved only if what was evaluated is in the target branch,
\* unless a person edited the candidate between its last two checks or checked out
\* another branch between the last check of the target and the merge; and then its
\* execution, however late it ends, does not show it as anything else.
ApprovedIsMerged ==
  \A t \in Tasks : decision[t] = "approved" =>
    /\ merge[t] = "reviewed" \/ (merge[t] = "other" /\ t \in meddled)
    /\ outcome[t] = "merged"

\* Every candidate that a decision was to clean up is either gone, worktree and
\* branch, or named in the warnings of the answer: one that fails costs the
\* others nothing, and nothing is left behind in silence.
CleanedOrReported ==
  \A c \in answered :
    \A k \in runs[c] : k \in warnings[c] \/ (worktree[k] = "gone" /\ ~branch[k])

kept == [t \in Tasks |-> \A k \in CandidatesOf(t) : worktree[k] = "present" /\ branch[k]]

D == INSTANCE Decision

\* Each task is decided once; only what was evaluated and reviewed is merged, and
\* into the target branch, whatever files of the candidate and branches change
\* while it is being approved, except at the two points where no check can see it;
\* only before the decision; only a merge makes an approval; and no candidate is
\* touched before the decision is stored.
ImplementsDecision == D!DecisionSpec

\* Again and again no request is under way, so every one that is made is answered:
\* the chain of promises has no cycle and no dead link.
RequestsEnd == []<>(\A c \in Calls : pc[c] \in {"idle", "done"})

\* The merge happens on the target branch, at the base the candidate was evaluated on.
MergedOntoBase == \A k \in Candidates : merged[k] # "none" => into[k] = "target" /\ onto[k] = Base
=============================================================================
