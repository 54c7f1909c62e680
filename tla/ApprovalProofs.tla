--------------------------- MODULE ApprovalProofs ---------------------------
(***************************************************************************)
(* Approval, for any number of tasks, candidates and requests: first the   *)
(* lock of withTaskLock, its types and mutual exclusion; then, on that, what*)
(* approval merges and records.                                            *)
(***************************************************************************)
EXTENDS Approval, TLAPS

Labels ==
  {"validate", "validateHead", "stage", "hasStaged", "capture", "compare", "unstage", "diff",
   "commit", "verify", "revalidate", "revalidateHead", "merge", "record", "abort", "cleanup",
   "deleteBranch", "prune"}

LockTypes ==
  /\ pc       \in [Calls -> Labels \union {"idle", "approve", "reject", "done"}]
  /\ task     \in [Calls -> Tasks]
  /\ previous \in [Calls -> Calls \union {NoCall}]
  /\ tail     \in [Tasks -> Calls \union {NoCall}]

Active(c) == pc[c] \notin {"idle", "done"}

\* The call whose turn it is: it runs its body, or could.
Turn(c) == Inside(c) \/ (pc[c] \in {"approve", "reject"} /\ Released(c))

\* Mutual exclusion alone is not inductive: what is released next depends on the
\* whole chain of promises.  r numbers the calls of each task in the order in
\* which they queued: the first has the turn, every other one waits for the one
\* before it, and the map holds the last.
Ranked(r) ==
  /\ \A c, d \in Calls : Active(c) /\ Active(d) /\ task[c] = task[d] /\ c # d =>
       r[c] # r[d] /\ (Turn(c) => r[c] < r[d])
  /\ \A c \in Calls : Active(c) /\ ~Turn(c) =>
       /\ previous[c] \in Calls /\ Active(previous[c]) /\ task[previous[c]] = task[c]
       /\ r[previous[c]] < r[c]
       /\ \A d \in Calls : Active(d) /\ task[d] = task[c] =>
            r[d] <= r[previous[c]] \/ r[c] <= r[d]
  /\ \A t \in Tasks :
       IF tail[t] = NoCall THEN \A c \in Calls : Active(c) => task[c] # t
       ELSE /\ Active(tail[t]) /\ task[tail[t]] = t
            /\ \A c \in Calls : Active(c) /\ task[c] = t => r[c] <= r[tail[t]]

LockInv == \E r \in [Calls -> Nat] : Ranked(r)

lock == <<pc, task, previous, tail>>

-----------------------------------------------------------------------------
(* What a step does to the lock *)

\* Only the call whose turn it is moves, and it goes on or leaves.
LEMMA Moves ==
  ASSUME NEW c \in Calls, Step(c)
  PROVE  /\ Turn(c) /\ UNCHANGED task
         /\ previous' = previous \/ previous' = [previous EXCEPT ![c] = NoCall]
         /\ Finish(c) \/ \E l \in Labels : Goto(c, l)
<1> USE DEF At, Labels, requests
<1>1. CASE Review(c)
  BY <1>1 DEF Review, Enter, Turn, Inside
<1>2. CASE ValidateTarget(c)
  BY <1>2 DEF ValidateTarget, Turn, Inside
<1>3. CASE ValidateHead(c)
  BY <1>3 DEF ValidateHead, Turn, Inside
<1>4. CASE Stage(c)
  BY <1>4 DEF Stage, Turn, Inside
<1>5. CASE HasStagedChanges(c)
  BY <1>5 DEF HasStagedChanges, Turn, Inside
<1>6. CASE CaptureStaged(c)
  BY <1>6 DEF CaptureStaged, Turn, Inside
<1>7. CASE CompareStaged(c)
  BY <1>7 DEF CompareStaged, Turn, Inside
<1>8. CASE Unstage(c)
  BY <1>8 DEF Unstage, Turn, Inside
<1>9. CASE GetStagedDiff(c)
  BY <1>9 DEF GetStagedDiff, Turn, Inside
<1>10. CASE Commit(c)
  BY <1>10 DEF Commit, Turn, Inside
<1>11. CASE VerifyCommit(c)
  BY <1>11 DEF VerifyCommit, Turn, Inside
<1>12. CASE MergeSucceeds(c)
  BY <1>12 DEF MergeSucceeds, Turn, Inside
<1>13. CASE MergeFails(c)
  BY <1>13 DEF MergeFails, Turn, Inside
<1>14. CASE Abort(c)
  BY <1>14 DEF Abort, Turn, Inside
<1>15. CASE RecordApproval(c)
  BY <1>15 DEF RecordApproval, BeginCleanup, NextCleanup, Turn, Inside
<1>16. CASE CommandFails(c)
  BY <1>16 DEF CommandFails, Fallible, Turn, Inside
<1>17. CASE Reject(c)
  BY <1>17 DEF Reject, Enter, BeginCleanup, NextCleanup, Turn, Inside
<1>18. CASE CleanWorktree(c)
  BY <1>18 DEF CleanWorktree, Turn, Inside
<1>19. CASE CleanWorktreeFails(c)
  BY <1>19 DEF CleanWorktreeFails, NextCleanup, Turn, Inside
<1>20. CASE CleanBranch(c)
  BY <1>20 DEF CleanBranch, NextCleanup, Turn, Inside
<1>21. CASE Prune(c)
  BY <1>21 DEF Prune, Turn, Inside
<1> QED
  BY <1>1, <1>2, <1>3, <1>4, <1>5, <1>6, <1>7, <1>8, <1>9, <1>10, <1>11, <1>12, <1>13,
     <1>14, <1>15, <1>16, <1>17, <1>18, <1>19, <1>20, <1>21 DEF Step

\* What only people change.
LEMMA StepsLeave ==
  ASSUME NEW c \in Calls, Step(c)
  PROVE  UNCHANGED <<files, checkedOut, meddled>>
<1> USE DEF auxiliary, gitState, candidate, target
<1>1. CASE \/ Review(c) \/ ValidateTarget(c) \/ ValidateHead(c) \/ HasStagedChanges(c) \/ CaptureStaged(c)
            \/ CompareStaged(c) \/ GetStagedDiff(c) \/ VerifyCommit(c)
            \/ RecordApproval(c) \/ CommandFails(c) \/ Reject(c)
  BY <1>1 DEF Review, ValidateTarget, ValidateHead, HasStagedChanges, CaptureStaged, CompareStaged, GetStagedDiff,
     VerifyCommit, RecordApproval, CommandFails, Reject
<1>2. CASE Stage(c)
  BY <1>2 DEF Stage, StageAll
<1>3. CASE Unstage(c)
  BY <1>3 DEF Unstage, UnstageAll
<1>4. CASE Commit(c)
  BY <1>4 DEF Commit, CommitIndex
<1>5. CASE MergeSucceeds(c)
  BY <1>5 DEF MergeSucceeds, MergeNoFastForward
<1>6. CASE MergeFails(c)
  BY <1>6 DEF MergeFails, MergeStops
<1>7. CASE Abort(c)
  BY <1>7 DEF Abort, AbortMerge
<1>8. CASE CleanWorktree(c)
  BY <1>8 DEF CleanWorktree, RemoveWorktree
<1>9. CASE CleanWorktreeFails(c)
  BY <1>9 DEF CleanWorktreeFails, RemoveWorktreeHalfway
<1>10. CASE CleanBranch(c)
  BY <1>10 DEF CleanBranch, DeleteBranch
<1>11. CASE Prune(c)
  BY <1>11 DEF Prune, PruneWorktrees
<1> QED
  BY <1>1, <1>2, <1>3, <1>4, <1>5, <1>6, <1>7, <1>8, <1>9, <1>10, <1>11 DEF Step

-----------------------------------------------------------------------------
(* Types *)

LEMMA AnyTaskIsTask == AnyTask \in Tasks
BY ApprovalAssumption DEF AnyTask

LEMMA InitLockTypes == Init => LockTypes
BY AnyTaskIsTask DEF Init, LockTypes

LEMMA StepLockTypes == ASSUME LockTypes, NEW c \in Calls, Step(c) PROVE LockTypes'
<1>1. pc' \in [Calls -> Labels \union {"idle", "approve", "reject", "done"}]
  BY Moves DEF LockTypes, Finish, Goto
<1>2. tail' \in [Tasks -> Calls \union {NoCall}]
  BY Moves DEF LockTypes, Finish, Goto
<1>3. previous' \in [Calls -> Calls \union {NoCall}]
  BY Moves DEF LockTypes
<1> QED
  BY <1>1, <1>2, <1>3, Moves DEF LockTypes

LEMMA CrashLockTypes == LockTypes /\ Crash => LockTypes'
BY DEF LockTypes, Crash

LEMMA NextLockTypes == LockTypes /\ [Next]_vars => LockTypes'
<1> SUFFICES ASSUME LockTypes, [Next]_vars PROVE LockTypes'
  OBVIOUS
<1>1. ASSUME NEW c \in Calls, NEW t \in Tasks, NEW k \in {"approve", "reject"}, Request(c, t, k)
      PROVE LockTypes'
  BY <1>1 DEF Request, LockTypes
<1>2. CASE UNCHANGED lock
  BY <1>2 DEF LockTypes, lock
<1> QED
  BY <1>1, <1>2, StepLockTypes, CrashLockTypes
     DEF Next, RecordResult, EditCandidate, TouchTarget, Checkout, UserActs, vars, requests, lock

THEOREM LockTypesCorrect == Spec => []LockTypes
BY InitLockTypes, NextLockTypes, PTL DEF Spec

-----------------------------------------------------------------------------
(* The chain of promises *)

LEMMA InitLock == Init => LockInv
<1> SUFFICES ASSUME Init PROVE LockInv
  OBVIOUS
<1>1. \A c \in Calls : ~Active(c)
  BY DEF Init, Active
<1>2. \A t \in Tasks : tail[t] = NoCall
  BY DEF Init
<1>3. Ranked([c \in Calls |-> 0])
  BY <1>1, <1>2 DEF Ranked
<1> QED
  BY <1>3 DEF LockInv

\* A call that queues is ranked after the last of its task.
LEMMA RequestLock ==
  ASSUME LockTypes, LockInv, NEW c \in Calls, NEW t \in Tasks, NEW k \in {"approve", "reject"},
         Request(c, t, k)
  PROVE  LockInv'
<1>1. PICK r \in [Calls -> Nat] : Ranked(r)
  BY DEF LockInv
<1> DEFINE n == IF tail[t] = NoCall THEN 0 ELSE r[tail[t]] + 1
           q == [r EXCEPT ![c] = n]
<1>2. n \in Nat /\ q \in [Calls -> Nat]
  BY <1>1 DEF LockTypes
<1>3. /\ pc[c] = "idle" /\ pc' = [pc EXCEPT ![c] = k]
      /\ task' = [task EXCEPT ![c] = t] /\ previous' = [previous EXCEPT ![c] = tail[t]]
      /\ tail' = [tail EXCEPT ![t] = c]
  BY DEF Request
<1>4. \A d \in Calls : Active(d)' <=> Active(d) \/ d = c
  BY <1>3 DEF Active, LockTypes
<1>5. \A d \in Calls : d # c => (Turn(d)' <=> Turn(d)) /\ task'[d] = task[d] /\ q[d] = r[d]
  <2> SUFFICES ASSUME NEW d \in Calls, d # c
               PROVE (Turn(d)' <=> Turn(d)) /\ task'[d] = task[d] /\ q[d] = r[d]
    OBVIOUS
  <2>1. pc'[d] = pc[d] /\ previous'[d] = previous[d] /\ task'[d] = task[d] /\ q[d] = r[d]
    BY <1>1, <1>3 DEF LockTypes
  <2>2. {e \in Calls : pc'[e] = "done"} = {e \in Calls : pc[e] = "done"}
    BY <1>3 DEF LockTypes
  <2> QED
    BY <2>1, <2>2 DEF Turn, Inside, Released
<1>6. q[c] = n /\ task'[c] = t /\ previous'[c] = tail[t] /\ ~Active(c)
  BY <1>1, <1>3 DEF LockTypes, Active
<1>7. \A d \in Calls : Active(d) /\ task[d] = t =>
        tail[t] \in Calls /\ Active(tail[t]) /\ task[tail[t]] = t /\ r[d] <= r[tail[t]] /\ r[d] < n
  BY <1>1 DEF Ranked, LockTypes
<1>8. Turn(c)' <=> tail[t] = NoCall
  <2>1. tail[t] # NoCall => tail[t] \in Calls /\ Active(tail[t])
    BY <1>1 DEF Ranked, LockTypes
  <2>2. ~Inside(c)' /\ pc'[c] \in {"approve", "reject"}
    BY <1>3 DEF Inside, LockTypes
  <2>3. Released(c)' <=> tail[t] = NoCall
    BY <1>3, <1>6, <2>1, ApprovalAssumption DEF Released, Active, LockTypes
  <2> QED
    BY <2>2, <2>3 DEF Turn
<1> HIDE DEF n, q
<1>9. \A d, e \in Calls : Active(d)' /\ Active(e)' /\ task'[d] = task'[e] /\ d # e =>
        q[d] # q[e] /\ (Turn(d)' => q[d] < q[e])
  <2> SUFFICES ASSUME NEW d \in Calls, NEW e \in Calls, Active(d)', Active(e)',
                      task'[d] = task'[e], d # e
               PROVE  q[d] # q[e] /\ (Turn(d)' => q[d] < q[e])
    OBVIOUS
  <2>1. CASE d # c /\ e # c
    BY <2>1, <1>1, <1>4, <1>5 DEF Ranked
  <2>2. CASE d = c
    BY <2>2, <1>1, <1>2, <1>4, <1>5, <1>6, <1>7, <1>8, ApprovalAssumption
  <2>3. CASE e = c
    BY <2>3, <1>1, <1>2, <1>4, <1>5, <1>6, <1>7
  <2> QED
    BY <2>1, <2>2, <2>3
<1>10. \A d \in Calls : Active(d)' /\ ~Turn(d)' =>
         /\ previous'[d] \in Calls /\ Active(previous[d])' /\ task'[previous'[d]] = task'[d]
         /\ q[previous'[d]] < q[d]
         /\ \A e \in Calls : Active(e)' /\ task'[e] = task'[d] =>
              q[e] <= q[previous'[d]] \/ q[d] <= q[e]
  <2> SUFFICES ASSUME NEW d \in Calls, Active(d)', ~Turn(d)'
      PROVE  /\ previous'[d] \in Calls /\ Active(previous[d])' /\ task'[previous'[d]] = task'[d]
             /\ q[previous'[d]] < q[d]
             /\ \A e \in Calls : Active(e)' /\ task'[e] = task'[d] =>
                  q[e] <= q[previous'[d]] \/ q[d] <= q[e]
    OBVIOUS
  <2>1. CASE d # c
    <3>1. previous'[d] = previous[d] /\ Active(d) /\ ~Turn(d)
      BY <2>1, <1>3, <1>4, <1>5 DEF LockTypes
    <3>2. previous[d] \in Calls /\ Active(previous[d]) /\ previous[d] # c
      BY <3>1, <1>1, <1>6 DEF Ranked
    <3>3. task[previous[d]] = task[d] /\ r[previous[d]] < r[d]
      BY <3>1, <1>1 DEF Ranked
    <3>4. ASSUME NEW e \in Calls, Active(e)', task'[e] = task'[d]
          PROVE  q[e] <= q[previous[d]] \/ q[d] <= q[e]
      <4>1. CASE e # c
        BY <4>1, <3>1, <3>2, <3>4, <2>1, <1>1, <1>4, <1>5 DEF Ranked
      <4>2. CASE e = c
        <5>1. task[d] = t
          BY <4>2, <3>4, <2>1, <1>5, <1>6
        <5> QED
          BY <5>1, <4>2, <3>1, <2>1, <1>1, <1>2, <1>5, <1>6, <1>7
      <4> QED
        BY <4>1, <4>2
    <3> QED
      BY <2>1, <3>1, <3>2, <3>3, <3>4, <1>4, <1>5 DEF Active
  <2>2. CASE d = c
    <3>1. tail[t] \in Calls /\ Active(tail[t]) /\ task[tail[t]] = t /\ tail[t] # c
      BY <2>2, <1>1, <1>6, <1>8 DEF Ranked, LockTypes
    <3>2. q[tail[t]] = r[tail[t]] /\ q[tail[t]] < q[c]
      BY <3>1, <1>1, <1>2, <1>5, <1>6, <1>7
    <3>3. ASSUME NEW e \in Calls, Active(e)', task'[e] = t
          PROVE  q[e] <= q[tail[t]] \/ q[c] <= q[e]
      <4>1. CASE e = c
        BY <4>1, <1>2
      <4>2. CASE e # c
        BY <4>2, <3>2, <3>3, <1>4, <1>5, <1>7
      <4> QED
        BY <4>1, <4>2
    <3> QED
      BY <2>2, <3>1, <3>2, <3>3, <1>4, <1>5, <1>6 DEF Active
  <2> QED
    BY <2>1, <2>2
<1>11. \A u \in Tasks :
         IF tail'[u] = NoCall THEN \A d \in Calls : Active(d)' => task'[d] # u
         ELSE /\ Active(tail[u])' /\ task'[tail'[u]] = u
              /\ \A d \in Calls : Active(d)' /\ task'[d] = u => q[d] <= q[tail'[u]]
  <2> SUFFICES ASSUME NEW u \in Tasks
      PROVE  IF tail'[u] = NoCall THEN \A d \in Calls : Active(d)' => task'[d] # u
             ELSE /\ Active(tail[u])' /\ task'[tail'[u]] = u
                  /\ \A d \in Calls : Active(d)' /\ task'[d] = u => q[d] <= q[tail'[u]]
    OBVIOUS
  <2>1. CASE u = t
    <3>1. tail'[u] = c /\ c # NoCall
      BY <2>1, <1>3, ApprovalAssumption DEF LockTypes
    <3>2. \A d \in Calls : Active(d)' /\ task'[d] = t => q[d] <= q[c]
      BY <1>1, <1>2, <1>4, <1>5, <1>6, <1>7
    <3> QED
      BY <2>1, <3>1, <3>2, <1>4, <1>6 DEF Active
  <2>2. CASE u # t
    <3>1. tail'[u] = tail[u]
      BY <2>2, <1>3 DEF LockTypes
    <3>2. \A d \in Calls : Active(d)' /\ task'[d] = u => d # c /\ Active(d) /\ task[d] = u
      BY <2>2, <1>4, <1>5, <1>6
    <3>3. tail[u] # NoCall => tail[u] \in Calls /\ tail[u] # c
      BY <1>1, <1>6 DEF Ranked, LockTypes
    <3> QED
      BY <3>1, <3>2, <3>3, <1>1, <1>4, <1>5 DEF Ranked, Active
  <2> QED
    BY <2>1, <2>2
<1>12. PICK w \in [Calls -> Nat] : w = q
  BY <1>2
<1>13. Ranked(w)'
  BY <1>9, <1>10, <1>11, <1>12 DEF Ranked
<1> QED
  BY <1>13 DEF LockInv

\* A call that goes on keeps its place.
LEMMA GoLock ==
  ASSUME LockTypes, LockInv, NEW c \in Calls, NEW l \in Labels, Turn(c), Goto(c, l), UNCHANGED task,
         previous' = previous \/ previous' = [previous EXCEPT ![c] = NoCall]
  PROVE  LockInv'
<1>1. PICK r \in [Calls -> Nat] : Ranked(r)
  BY DEF LockInv
<1>2. pc' = [pc EXCEPT ![c] = l] /\ UNCHANGED <<task, tail>>
  BY DEF Goto
<1>3. Active(c) /\ Active(c)' /\ Turn(c)' /\ pc[c] # "done" /\ pc'[c] # "done"
  BY <1>2 DEF Turn, Inside, Active, Labels, LockTypes
<1>4. {d \in Calls : pc'[d] = "done"} = {d \in Calls : pc[d] = "done"}
  BY <1>2, <1>3 DEF LockTypes
<1>5. \A d \in Calls : d # c => pc'[d] = pc[d] /\ previous'[d] = previous[d]
  BY <1>2 DEF LockTypes
<1>6. \A d \in Calls : (Active(d)' <=> Active(d)) /\ (Turn(d)' <=> Turn(d))
  BY <1>3, <1>4, <1>5 DEF Active, Turn, Inside, Released
<1>7. \A d \in Calls : ~Turn(d) => previous'[d] = previous[d]
  BY <1>5
<1>8. Ranked(r)'
  <2>1. \A d, e \in Calls : Active(d)' /\ Active(e)' /\ task'[d] = task'[e] /\ d # e =>
          r[d] # r[e] /\ (Turn(d)' => r[d] < r[e])
    BY <1>1, <1>2, <1>6 DEF Ranked
  <2>2. ASSUME NEW d \in Calls, Active(d)', ~Turn(d)'
        PROVE  /\ previous'[d] \in Calls /\ Active(previous[d])' /\ task'[previous'[d]] = task'[d]
               /\ r[previous'[d]] < r[d]
               /\ \A e \in Calls : Active(e)' /\ task'[e] = task'[d] =>
                    r[e] <= r[previous'[d]] \/ r[d] <= r[e]
    <3>1. Active(d) /\ ~Turn(d) /\ previous'[d] = previous[d]
      BY <2>2, <1>6, <1>7
    <3>2. previous[d] \in Calls /\ Active(previous[d]) /\ task[previous[d]] = task[d]
      BY <3>1, <1>1 DEF Ranked
    <3>3. pc'[previous[d]] \notin {"idle", "done"}
      BY <3>2, <1>6 DEF Active
    <3>4. r[previous[d]] < r[d] /\ \A e \in Calls : Active(e) /\ task[e] = task[d] =>
            r[e] <= r[previous[d]] \/ r[d] <= r[e]
      BY <3>1, <1>1 DEF Ranked
    <3>5. Active(previous[d])'
      BY <3>1, <3>3 DEF Active
    <3> QED
      BY <3>1, <3>2, <3>4, <3>5, <1>2, <1>6
  <2>3. ASSUME NEW u \in Tasks
        PROVE  IF tail'[u] = NoCall THEN \A d \in Calls : Active(d)' => task'[d] # u
               ELSE /\ Active(tail[u])' /\ task'[tail'[u]] = u
                    /\ \A d \in Calls : Active(d)' /\ task'[d] = u => r[d] <= r[tail'[u]]
    <3>1. tail[u] # NoCall => tail[u] \in Calls /\ (Active(tail[u]) <=> pc'[tail[u]] \notin {"idle", "done"})
      BY <1>6 DEF LockTypes, Active
    <3>2. Active(tail[u])' <=> pc'[tail[u]] \notin {"idle", "done"}
      BY <1>2 DEF Active
    <3> QED
      BY <3>1, <3>2, <1>1, <1>2, <1>6 DEF Ranked
  <2> QED
    BY <2>1, <2>2, <2>3 DEF Ranked
<1> QED
  BY <1>8 DEF LockInv

\* A call that leaves had the turn: the one ranked next has it now, and if the
\* map held the one that leaves, nobody is left.
LEMMA LeaveLock ==
  ASSUME LockTypes, LockInv, NEW c \in Calls, Turn(c), Finish(c), UNCHANGED task,
         previous' = previous \/ previous' = [previous EXCEPT ![c] = NoCall]
  PROVE  LockInv'
<1>1. PICK r \in [Calls -> Nat] : Ranked(r)
  BY DEF LockInv
<1>2. /\ pc' = [pc EXCEPT ![c] = "done"] /\ UNCHANGED task
      /\ tail' = IF tail[task[c]] = c THEN [tail EXCEPT ![task[c]] = NoCall] ELSE tail
  BY DEF Finish
<1>3. Active(c) /\ ~Active(c)' /\ pc'[c] = "done"
  BY <1>2 DEF Turn, Inside, Active, LockTypes
<1>4. \A d \in Calls : d # c => pc'[d] = pc[d] /\ previous'[d] = previous[d]
  BY <1>2 DEF LockTypes
<1>5. \A d \in Calls : Active(d)' <=> Active(d) /\ d # c
  BY <1>3, <1>4 DEF Active
<1>6. \A d \in Calls : Active(d) /\ task[d] = task[c] /\ d # c => r[c] < r[d] /\ ~Turn(d)
  BY <1>1, <1>3 DEF Ranked
<1>7. \A d \in Calls : Active(d) /\ d # c => (Turn(d)' <=> Turn(d) \/ previous[d] = c)
  <2> SUFFICES ASSUME NEW d \in Calls, Active(d), d # c
               PROVE Turn(d)' <=> Turn(d) \/ previous[d] = c
    OBVIOUS
  <2>1. Inside(d)' <=> Inside(d)
    BY <1>4 DEF Inside
  <2>2. Released(d)' <=> Released(d) \/ previous[d] = c
    BY <1>2, <1>3, <1>4, ApprovalAssumption DEF Released, LockTypes
  <2>3. Inside(d) \/ pc[d] \in {"approve", "reject"}
    BY DEF Active, Inside
  <2> QED
    BY <2>1, <2>2, <2>3, <1>4 DEF Turn
<1>8. \A d, e \in Calls : Active(d)' /\ Active(e)' /\ task'[d] = task'[e] /\ d # e =>
        r[d] # r[e] /\ (Turn(d)' => r[d] < r[e])
  <2> SUFFICES ASSUME NEW d \in Calls, NEW e \in Calls, Active(d)', Active(e)',
                      task'[d] = task'[e], d # e
               PROVE  r[d] # r[e] /\ (Turn(d)' => r[d] < r[e])
    OBVIOUS
  <2>1. Active(d) /\ Active(e) /\ d # c /\ e # c /\ task[d] = task[e]
    BY <1>2, <1>5
  <2>2. r[d] # r[e] /\ (Turn(d) => r[d] < r[e])
    BY <2>1, <1>1 DEF Ranked
  <2>3. ~Turn(d) /\ previous[d] = c => r[d] < r[e]
    <3> SUFFICES ASSUME ~Turn(d), previous[d] = c PROVE r[d] < r[e]
      OBVIOUS
    <3>1. task[c] = task[d] /\ (r[e] <= r[c] \/ r[d] <= r[e])
      BY <2>1, <1>1 DEF Ranked
    <3> QED
      BY <3>1, <2>1, <2>2, <1>1, <1>6
  <2> QED
    BY <2>1, <2>2, <2>3, <1>7
<1>9. ASSUME NEW d \in Calls, Active(d)', ~Turn(d)'
      PROVE  /\ previous'[d] \in Calls /\ Active(previous[d])' /\ task'[previous'[d]] = task'[d]
             /\ r[previous'[d]] < r[d]
             /\ \A e \in Calls : Active(e)' /\ task'[e] = task'[d] =>
                  r[e] <= r[previous'[d]] \/ r[d] <= r[e]
  <2>1. Active(d) /\ d # c /\ ~Turn(d) /\ previous[d] # c /\ previous'[d] = previous[d]
    BY <1>9, <1>4, <1>5, <1>7
  <2>2. previous[d] \in Calls /\ Active(previous[d]) /\ task[previous[d]] = task[d]
    BY <2>1, <1>1 DEF Ranked
  <2>3. Active(previous[d])'
    BY <2>1, <2>2, <1>5 DEF Active
  <2>4. r[previous[d]] < r[d] /\ \A e \in Calls : Active(e) /\ task[e] = task[d] =>
          r[e] <= r[previous[d]] \/ r[d] <= r[e]
    BY <2>1, <1>1 DEF Ranked
  <2> QED
    BY <2>1, <2>2, <2>3, <2>4, <1>2, <1>5
<1>10. ASSUME NEW u \in Tasks
       PROVE  IF tail'[u] = NoCall THEN \A d \in Calls : Active(d)' => task'[d] # u
              ELSE /\ Active(tail[u])' /\ task'[tail'[u]] = u
                   /\ \A d \in Calls : Active(d)' /\ task'[d] = u => r[d] <= r[tail'[u]]
  <2>1. CASE tail[u] = c
    <3>1. task[c] = u /\ \A d \in Calls : Active(d) /\ task[d] = u => r[d] <= r[c]
      BY <2>1, <1>1, ApprovalAssumption DEF Ranked
    <3>2. \A d \in Calls : Active(d)' => task'[d] # u
      BY <3>1, <1>1, <1>2, <1>5, <1>6
    <3>3. tail'[u] = NoCall
      BY <2>1, <3>1, <1>2 DEF LockTypes
    <3> QED
      BY <3>2, <3>3
  <2>2. CASE tail[u] # c
    <3>1. tail'[u] = tail[u]
      BY <2>2, <1>2 DEF LockTypes
    <3>2. tail[u] # NoCall => tail[u] \in Calls /\ Active(tail[u])
      BY <1>1 DEF Ranked, LockTypes
    <3>3. tail[u] # NoCall => Active(tail[u])'
      BY <2>2, <3>1, <3>2, <1>5 DEF Active
    <3> QED
      BY <3>1, <3>2, <3>3, <1>1, <1>2, <1>5 DEF Ranked
  <2> QED
    BY <2>1, <2>2
<1>11. Ranked(r)'
  BY <1>8, <1>9, <1>10 DEF Ranked
<1> QED
  BY <1>11 DEF LockInv

LEMMA NextLock == LockTypes /\ LockInv /\ [Next]_vars => LockInv'
<1> SUFFICES ASSUME LockTypes, LockInv, [Next]_vars PROVE LockInv'
  OBVIOUS
<1>1. ASSUME NEW c \in Calls, NEW t \in Tasks, NEW k \in {"approve", "reject"}, Request(c, t, k)
      PROVE LockInv'
  BY <1>1, RequestLock
<1>2. ASSUME NEW c \in Calls, Step(c) PROVE LockInv'
  BY <1>2, Moves, GoLock, LeaveLock
<1>3. CASE Crash
  <2>1. \A c \in Calls : ~Active(c)'
    BY <1>3 DEF Crash, Active
  <2>2. \A t \in Tasks : tail'[t] = NoCall
    BY <1>3 DEF Crash
  <2>3. PICK r \in [Calls -> Nat] : Ranked(r)
    BY DEF LockInv
  <2>4. Ranked(r)'
    BY <2>1, <2>2 DEF Ranked
  <2> QED
    BY <2>4 DEF LockInv
<1>4. CASE UNCHANGED lock
  BY <1>4 DEF LockInv, Ranked, Active, Turn, Inside, Released, lock
<1> QED
  BY <1>1, <1>2, <1>3, <1>4
     DEF Next, RecordResult, EditCandidate, TouchTarget, Checkout, UserActs, vars, requests, lock

LEMMA LockHolds == Spec => [](LockTypes /\ LockInv)
BY InitLock, NextLock, InitLockTypes, NextLockTypes, PTL DEF Spec

\* While a call runs its body, no other call of its task has the turn.
LEMMA Exclusive ==
  ASSUME LockTypes, LockInv, NEW c \in Calls, NEW d \in Calls, c # d, task[c] = task[d], Inside(c)
  PROVE  ~Turn(d)
<1>1. PICK r \in [Calls -> Nat] : Ranked(r)
  BY DEF LockInv
<1> SUFFICES ASSUME Turn(d) PROVE FALSE
  OBVIOUS
<1>2. Turn(c) /\ Active(c) /\ Active(d)
  BY DEF Turn, Inside, Active
<1>3. r[c] < r[d] /\ r[d] < r[c]
  BY <1>1, <1>2 DEF Ranked
<1> QED
  BY <1>1, <1>3

\* Two requests about one task never run their bodies at the same time, however
\* many queue and whenever one leaves.
THEOREM MutualExclusion == Spec => []OneRequestPerTask
<1>1. LockTypes /\ LockInv => OneRequestPerTask
  BY Exclusive DEF OneRequestPerTask, Turn
<1> QED
  BY <1>1, LockHolds, PTL

-----------------------------------------------------------------------------
(* What approval merges and records *)

Contents == {"none", "empty", "evaluated", "edited"}

DataTypes ==
  /\ decision  \in [Tasks -> {"pending", "approved", "rejected"}]
  /\ outcome   \in [Tasks -> {"open", "merged", "rejected"}]
  /\ winner    \in [Tasks -> Candidates \union {NoCandidate}]
  /\ execution \in [Tasks -> {"running", "over"}]
  /\ recorded  \in SUBSET Candidates
  /\ files     \in [Candidates -> {"evaluated", "edited"}]
  /\ index     \in [Candidates -> {"empty", "evaluated", "edited"}]
  /\ committed \in [Candidates -> Contents]
  /\ merged    \in [Candidates -> Contents]
  /\ into      \in [Candidates -> {"none", "target", "other"}]
  /\ checkedOut \in [Repos -> {"target", "other"}]
  /\ worktree  \in [Candidates -> {"present", "stale", "gone"}]
  /\ branch    \in [Candidates -> BOOLEAN]
  /\ runs      \in [Calls -> SUBSET Candidates]
  /\ toClean   \in [Calls -> SUBSET Candidates]
  /\ warnings  \in [Calls -> SUBSET (Candidates \union {NoCandidate})]
  /\ cleaning  \in [Calls -> Candidates \union {NoCandidate}]
  /\ answered  \in SUBSET Calls

Reviewing ==
  {"validate", "validateHead", "stage", "hasStaged", "capture", "compare", "unstage", "diff", "commit"}

Committed == {"verify", "revalidate", "revalidateHead", "merge"}

\* A candidate is committed only as the winner of its task, and merged only as
\* committed.
CandidateInv(k) ==
  /\ committed[k] # "none" => winner[TaskOf[k]] = k
  /\ merged[k] # "none" => committed[k] # "none"

\* What a merge has made, unless somebody meddled.
MergedAsReviewed(t) ==
  /\ merged[winner[t]] # "none"
  /\ t \notin meddled => merged[winner[t]] = "evaluated" /\ into[winner[t]] = "target"

\* The review finds a winner only when the execution is over, so that it stays.
TaskInv(t) ==
  /\ winner[t] # NoCandidate => TaskOf[winner[t]] = t /\ execution[t] = "over"
  /\ decision[t] = "approved" =>
       winner[t] \in Candidates /\ MergedAsReviewed(t) /\ outcome[t] = "merged"

\* What a check has seen still holds at the awaits behind it, unless somebody meddled.
SeenInv(c) ==
  /\ pc[c] = "compare" => files[Reviewed(c)] = "evaluated"
  /\ pc[c] \in {"diff", "commit"} => index[Reviewed(c)] = "evaluated"
  /\ pc[c] \in Committed => committed[Reviewed(c)] = "evaluated"
  /\ pc[c] \in {"revalidateHead", "merge"} => checkedOut[RepoOf[Reviewed(c)]] = "target"

\* What holds at each await of approve().
CallInv(c) ==
  /\ pc[c] \in Reviewing \union Committed \union {"record"} =>
       Reviewed(c) \in Candidates /\ decision[task[c]] = "pending"
  /\ pc[c] \in Reviewing => committed[Reviewed(c)] = "none"
  /\ pc[c] \in Committed => committed[Reviewed(c)] # "none" /\ merged[Reviewed(c)] = "none"
  /\ task[c] \notin meddled => SeenInv(c)
  /\ pc[c] = "record" => MergedAsReviewed(task[c])

DataInv ==
  /\ DataTypes
  /\ \A k \in Candidates : CandidateInv(k)
  /\ \A t \in Tasks : TaskInv(t)
  /\ \A c \in Calls : CallInv(c)

gitVars == <<index, committed, merged, into>>

-----------------------------------------------------------------------------
(* What is merged and recorded *)

LEMMA InitData == Init => DataInv
<1> SUFFICES ASSUME Init PROVE DataInv
  OBVIOUS
<1>1. DataTypes
  BY DEF Init, InitGit, DataTypes, Contents
<1>2. \A k \in Candidates : CandidateInv(k)
  BY DEF Init, InitGit, CandidateInv
<1>3. \A t \in Tasks : TaskInv(t)
  BY DEF Init, TaskInv
<1>4. \A c \in Calls : CallInv(c)
  BY DEF Init, CallInv, SeenInv, Reviewing, Committed
<1> QED
  BY <1>1, <1>2, <1>3, <1>4 DEF DataInv

\* A request leaves what belongs to other tasks alone, and no other request of
\* its own task is under way.
LEMMA StepFrame ==
  ASSUME LockTypes, LockInv, DataInv, NEW c \in Calls, Step(c), DataTypes',
         UNCHANGED <<winner, execution>>,
         \A t \in Tasks \ {task[c]} : decision'[t] = decision[t] /\ outcome'[t] = outcome[t],
         \A k \in Candidates \ {Reviewed(c)} :
           /\ index'[k] = index[k] /\ committed'[k] = committed[k]
           /\ merged'[k] = merged[k] /\ into'[k] = into[k],
         \A k \in Candidates : k = Reviewed(c) => CandidateInv(k)',
         TaskInv(task[c])',
         CallInv(c)'
  PROVE  DataInv'
<1>1. /\ task[c] \in Tasks /\ task' = task /\ Turn(c)
      /\ UNCHANGED <<files, checkedOut, meddled>>
  BY Moves, StepsLeave DEF LockTypes
<1>2. \A d \in Calls : d # c => pc'[d] = pc[d]
  BY Moves DEF Finish, Goto, LockTypes
<1>3. ASSUME NEW k \in Candidates PROVE CandidateInv(k)'
  <2>1. CASE k = Reviewed(c)
    BY <2>1
  <2>2. CASE k # Reviewed(c)
    BY <2>2 DEF CandidateInv, DataInv
  <2> QED
    BY <2>1, <2>2
<1>4. ASSUME NEW t \in Tasks PROVE TaskInv(t)'
  <2>1. CASE t = task[c]
    BY <2>1, <1>1 DEF TaskInv
  <2>2. CASE t # task[c]
    <3>1. TaskInv(t) /\ TaskInv(task[c])
      BY <1>1 DEF DataInv
    <3>2. winner[t] \in Candidates => winner[t] # Reviewed(c)
      BY <3>1, <2>2, ApprovalAssumption DEF TaskInv, Reviewed
    <3> QED
      BY <3>1, <3>2, <2>2, <1>1 DEF TaskInv, MergedAsReviewed
  <2> QED
    BY <2>1, <2>2
<1>5. ASSUME NEW d \in Calls PROVE CallInv(d)'
  <2>1. CASE d = c
    BY <2>1 DEF CallInv, SeenInv, Reviewed
  <2>2. CASE d # c
    <3>1. CallInv(d) /\ pc'[d] = pc[d] /\ Reviewed(d)' = Reviewed(d)
      BY <2>2, <1>1, <1>2 DEF DataInv, Reviewed
    <3>2. CASE pc[d] \notin Reviewing \union Committed \union {"record"}
      BY <3>1, <3>2 DEF CallInv, SeenInv, Reviewing, Committed
    <3>3. CASE pc[d] \in Reviewing \union Committed \union {"record"}
      <4>1. task[d] # task[c] /\ task[d] \in Tasks
        BY <3>3, <2>2, <1>1, Exclusive DEF Inside, Reviewing, Committed, LockTypes
      <4>2. Reviewed(d) \in Candidates
        BY <3>1, <3>3 DEF CallInv
      <4>3. TaskInv(task[d]) /\ TaskInv(task[c])
        BY <4>1, <1>1 DEF DataInv
      <4>4. Reviewed(d) # Reviewed(c)
        BY <4>1, <4>2, <4>3, ApprovalAssumption DEF TaskInv, Reviewed
      <4> QED
        BY <3>1, <4>1, <4>2, <4>4, <1>1 DEF CallInv, SeenInv, MergedAsReviewed, Reviewed
    <3> QED
      BY <3>2, <3>3
  <2> QED
    BY <2>1, <2>2
<1> QED
  BY <1>3, <1>4, <1>5 DEF DataInv

\* Steps that write nothing that the invariant is about but the place of a request.
LEMMA QuietStep ==
  ASSUME LockTypes, LockInv, DataInv, NEW c \in Calls, Step(c),
         UNCHANGED <<decision, outcome, recorded, winner, execution, files, gitVars>>, DataTypes',
         CallInv(c)'
  PROVE  DataInv'
<1>1. task[c] \in Tasks /\ task' = task
  BY Moves DEF LockTypes
<1>2. TaskInv(task[c])'
  BY <1>1, StepsLeave DEF DataInv, TaskInv, MergedAsReviewed, gitVars
<1>3. \A k \in Candidates : CandidateInv(k)'
  BY DEF DataInv, CandidateInv, gitVars
<1> QED
  BY <1>2, <1>3, StepFrame DEF gitVars

LEMMA QuietSteps ==
  ASSUME LockTypes, LockInv, DataInv, NEW c \in Calls, Step(c),
         \/ Review(c) \/ ValidateTarget(c) \/ ValidateHead(c) \/ HasStagedChanges(c)
         \/ CaptureStaged(c) \/ CompareStaged(c) \/ GetStagedDiff(c) \/ VerifyCommit(c)
         \/ CommandFails(c) \/ Abort(c)
  PROVE  DataInv'
<1> USE DEF At, gitVars, Reviewing, Committed
<1>1. CallInv(c) /\ task' = task /\ task[c] \in Tasks
  BY Moves DEF DataInv, LockTypes
<1>2. UNCHANGED <<decision, outcome, recorded, winner, execution, gitVars, worktree, branch,
                  runs, toClean, warnings, cleaning, answered>>
  BY DEF Review, ValidateTarget, ValidateHead, HasStagedChanges, CaptureStaged, CompareStaged,
         GetStagedDiff, VerifyCommit, CommandFails, Abort, AbortMerge,
         database, cleanup, gitState, candidate, target
<1>2a. UNCHANGED <<files, checkedOut, meddled>>
  BY StepsLeave
<1>3. DataTypes'
  BY <1>2, <1>2a DEF DataTypes, DataInv
<1>4. Reviewed(c)' = Reviewed(c)
  BY <1>1, <1>2 DEF Reviewed
<1>5. \A l \in Labels : Goto(c, l) => pc'[c] = l
  BY DEF Goto, LockTypes
<1>6. Finish(c) => CallInv(c)'
  BY DEF Finish, CallInv, SeenInv, LockTypes
<1>7. CallInv(c)' => DataInv'
  BY <1>2, <1>2a, <1>3, QuietStep
<1>7a. Goto(c, "unstage") /\ pc[c] \in Reviewing => CallInv(c)'
  BY <1>1, <1>2, <1>4, <1>5 DEF CallInv, SeenInv, Labels
<1> USE <1>1, <1>2, <1>2a, <1>4, <1>5, <1>7 DEF CallInv, SeenInv, Labels
<1>8. CASE Review(c)
  <2>1. CASE Approvable(task[c]) /\ Goto(c, "validate")
    <3>1. winner[task[c]] # NoCandidate /\ decision[task[c]] = "pending"
      BY <2>1 DEF Approvable
    <3>2. committed[winner[task[c]]] = "none"
      BY <2>1 DEF Approvable
    <3>3. Reviewed(c) \in Candidates /\ committed[Reviewed(c)] = "none"
      BY <3>1, <3>2 DEF Reviewed, DataInv, DataTypes
    <3> QED
      BY <2>1, <3>1, <3>3
  <2> QED
    BY <2>1, <1>8, <1>6 DEF Review
<1>9. CASE ValidateTarget(c)
  <2>1. CASE pc[c] = "validate" /\ Goto(c, "validateHead")
    BY <2>1
  <2>2. CASE pc[c] = "revalidate" /\ TargetIsReady(RepoOf[Reviewed(c)]) /\ Goto(c, "revalidateHead")
    <3>1. checkedOut[RepoOf[Reviewed(c)]] = "target" /\ pc'[c] = "revalidateHead"
      BY <2>2 DEF TargetIsReady, GetCurrentBranch
    <3> QED
      BY <2>2, <3>1
  <2> QED
    BY <2>1, <2>2, <1>9, <1>6 DEF ValidateTarget
<1>10. CASE ValidateHead(c)
  <2>1. CASE pc[c] = "validateHead" /\ Goto(c, "stage")
    BY <2>1
  <2>2. CASE pc[c] = "revalidateHead" /\ Goto(c, "merge")
    BY <2>2
  <2> QED
    BY <2>1, <2>2, <1>10, <1>6 DEF ValidateHead
<1>11. CASE HasStagedChanges(c)
  <2>1. CASE pc[c] = "hasStaged" /\ Goto(c, "capture")
    BY <2>1
  <2> QED
    BY <2>1, <1>11, <1>7a DEF HasStagedChanges
<1>12. CASE CaptureStaged(c)
  <2>1. CASE pc[c] = "capture" /\ files[Reviewed(c)] = "evaluated" /\ Goto(c, "compare")
    BY <2>1
  <2> QED
    BY <2>1, <1>12, <1>7a DEF CaptureStaged
<1>13. CASE CompareStaged(c)
  <2>1. CASE pc[c] = "compare" /\ index[Reviewed(c)] = files[Reviewed(c)] /\ Goto(c, "diff")
    BY <2>1
  <2> QED
    BY <2>1, <1>13, <1>7a DEF CompareStaged, HasUnstagedOrUntrackedChanges
<1>14. CASE GetStagedDiff(c)
  BY <1>14 DEF GetStagedDiff
<1>15. CASE VerifyCommit(c)
  <2>1. CASE pc[c] = "verify" /\ Goto(c, "revalidate")
    BY <2>1
  <2> QED
    BY <2>1, <1>15, <1>6 DEF VerifyCommit
<1>16. CASE CommandFails(c) \/ Abort(c)
  BY <1>16, <1>6 DEF CommandFails, Abort
<1> QED
  BY <1>8, <1>9, <1>10, <1>11, <1>12, <1>13, <1>14, <1>15, <1>16

\* The clean-up touches worktrees and branches, which the invariant leaves out.
LEMMA CleanupSteps ==
  ASSUME LockTypes, LockInv, DataInv, NEW c \in Calls, Step(c),
         CleanWorktree(c) \/ CleanWorktreeFails(c) \/ CleanBranch(c) \/ Prune(c)
  PROVE  DataInv'
<1> USE DEF At, gitVars
<1>1. UNCHANGED <<decision, outcome, recorded, winner, execution, files, gitVars, checkedOut, runs>>
  BY DEF CleanWorktree, CleanWorktreeFails, CleanBranch, Prune, database, cleanup, gitState,
         candidate, target, RemoveWorktree, RemoveWorktreeHalfway, DeleteBranch, PruneWorktrees
<1>2. CallInv(c)'
  <2>1. pc'[c] \in {"cleanup", "deleteBranch", "prune", "done"}
    BY DEF CleanWorktree, CleanWorktreeFails, CleanBranch, Prune, NextCleanup, Goto, Finish, LockTypes
  <2> QED
    BY <2>1 DEF CallInv, SeenInv, Reviewing, Committed
<1>3. worktree' \in [Candidates -> {"present", "stale", "gone"}]
  <2>1. \/ UNCHANGED worktree
        \/ \E k : worktree' = [worktree EXCEPT ![k] = "gone"]
        \/ \E k : worktree' = [worktree EXCEPT ![k] = "stale"]
        \/ \E r : worktree' = [k \in Candidates |->
                     IF RepoOf[k] = r /\ worktree[k] = "stale" THEN "gone" ELSE worktree[k]]
    BY DEF CleanWorktree, CleanWorktreeFails, CleanBranch, Prune, gitState, candidate, target,
           RemoveWorktree, RemoveWorktreeHalfway, DeleteBranch, PruneWorktrees
  <2>2. worktree \in [Candidates -> {"present", "stale", "gone"}]
    BY DEF DataInv, DataTypes
  <2> QED
    BY <2>1, <2>2
<1>3a. branch' \in [Candidates -> BOOLEAN]
  <2>1. UNCHANGED branch \/ \E k : branch' = [branch EXCEPT ![k] = FALSE]
    BY DEF CleanWorktree, CleanWorktreeFails, CleanBranch, Prune, gitState,
           candidate, target, RemoveWorktree, RemoveWorktreeHalfway, DeleteBranch, PruneWorktrees
  <2>2. branch \in [Candidates -> BOOLEAN]
    BY DEF DataInv, DataTypes
  <2> QED
    BY <2>1, <2>2
<1>4. /\ toClean' \in [Calls -> SUBSET Candidates] /\ warnings' \in [Calls -> SUBSET (Candidates \union {NoCandidate})]
      /\ cleaning' \in [Calls -> Candidates \union {NoCandidate}] /\ answered' \in SUBSET Calls
  <2>1. CASE CleanWorktree(c)
    BY <2>1 DEF CleanWorktree, DataInv, DataTypes
  <2>2. CASE CleanWorktreeFails(c)
    BY <2>2 DEF CleanWorktreeFails, Warn, DataInv, DataTypes
  <2>3. CASE CleanBranch(c)
    <3>1. pc[c] = "deleteBranch"
      BY <2>3 DEF CleanBranch
    <3> QED
      BY <2>3 DEF CleanBranch, Warn, DataInv, DataTypes
  <2>4. CASE Prune(c)
    BY <2>4 DEF Prune, cleanup, DataInv, DataTypes
  <2> QED
    BY <2>1, <2>2, <2>3, <2>4
<1>5. DataTypes'
  BY <1>1, <1>3, <1>3a, <1>4 DEF DataTypes, DataInv
<1> QED
  BY <1>1, <1>2, <1>5, QuietStep

\* The steps that write the index, the candidate branch or the target of the
\* candidate under review.
LEMMA GitSteps ==
  ASSUME LockTypes, LockInv, DataInv, NEW c \in Calls, Step(c),
         Stage(c) \/ Unstage(c) \/ Commit(c) \/ MergeSucceeds(c) \/ MergeFails(c)
  PROVE  DataInv'
<1> USE DEF At, gitState, candidate, target
<1> DEFINE k == Reviewed(c)
<1>1. CallInv(c) /\ task' = task /\ task[c] \in Tasks
  BY Moves DEF DataInv, LockTypes
<1>2. UNCHANGED <<decision, outcome, recorded, winner, execution, worktree, branch,
                  runs, toClean, warnings, cleaning, answered>>
  BY DEF Stage, Unstage, Commit, MergeSucceeds, MergeFails, StageAll, UnstageAll, CommitIndex,
         MergeNoFastForward, MergeStops, database, cleanup
<1>2a. UNCHANGED <<files, checkedOut, meddled>>
  BY StepsLeave
<1>3. pc[c] \in {"stage", "unstage", "commit", "merge"}
  BY DEF Stage, Unstage, Commit, MergeSucceeds, MergeFails
<1>4. k \in Candidates /\ decision[task[c]] = "pending" /\ TaskOf[k] = task[c] /\ winner[task[c]] = k
  <2>1. k \in Candidates /\ decision[task[c]] = "pending" /\ winner[task[c]] = k
    BY <1>1, <1>3 DEF CallInv, Reviewing, Committed, Reviewed
  <2>2. TaskInv(task[c])
    BY <1>1 DEF DataInv
  <2> QED
    BY <2>1, <2>2, ApprovalAssumption DEF TaskInv
<1>5. Reviewed(c)' = k
  BY <1>1, <1>2 DEF Reviewed
<1>6. \A l \in Labels : Goto(c, l) => pc'[c] = l
  BY DEF Goto, LockTypes
<1>7. Finish(c) => pc'[c] = "done"
  BY DEF Finish, LockTypes
<1>8. TaskInv(task[c])'
  BY <1>1, <1>2, <1>4 DEF TaskInv, DataInv
<1>9. /\ files \in [Candidates -> {"evaluated", "edited"}]
      /\ index \in [Candidates -> {"empty", "evaluated", "edited"}]
      /\ committed \in [Candidates -> Contents] /\ merged \in [Candidates -> Contents]
      /\ into \in [Candidates -> {"none", "target", "other"}]
      /\ checkedOut \in [Repos -> {"target", "other"}]
  BY DEF DataInv, DataTypes
<1>10. CandidateInv(k)
  BY <1>4 DEF DataInv
<1>11. ASSUME NEW f \in {"empty", "evaluated", "edited"}, index' = [index EXCEPT ![k] = f],
              UNCHANGED <<committed, merged, into>>, CallInv(c)'
       PROVE  DataInv'
  <2>1. DataTypes'
    BY <1>2, <1>2a, <1>9, <1>11 DEF DataTypes, DataInv
  <2>2. \A j \in Candidates : j = k => CandidateInv(j)'
    BY <1>2, <1>5, <1>10, <1>11 DEF CandidateInv
  <2>3. \A j \in Candidates \ {k} :
          /\ index'[j] = index[j] /\ committed'[j] = committed[j]
          /\ merged'[j] = merged[j] /\ into'[j] = into[j]
    BY <1>11, <1>9
  <2> QED
    BY <2>1, <2>2, <2>3, <1>2, <1>8, <1>11, StepFrame
<1>12. pc'[c] = "done" => CallInv(c)'
  BY DEF CallInv, SeenInv, Reviewing, Committed
<1>13. CASE Unstage(c)
  BY <1>13, <1>7, <1>9, <1>11, <1>12 DEF Unstage, UnstageAll
<1>14. CASE Stage(c)
  <2>1. pc'[c] = "hasStaged" /\ pc[c] = "stage"
    BY <1>14, <1>6 DEF Stage, Labels
  <2>2. /\ index' = [index EXCEPT ![k] = files[k]] /\ UNCHANGED <<committed, merged, into>>
        /\ files[k] \in {"empty", "evaluated", "edited"}
    BY <1>14, <1>4, <1>9 DEF Stage, StageAll
  <2>3. CallInv(c)'
    BY <2>1, <2>2, <1>1, <1>2, <1>2a, <1>4, <1>5 DEF CallInv, SeenInv, Reviewing, Committed
  <2> QED
    BY <2>2, <2>3, <1>11
<1>15. CASE Commit(c)
  <2> pc[c] = "commit" /\ committed[k] = "none" /\ merged[k] = "none" /\ index[k] # "none"
    BY <1>1, <1>4, <1>9, <1>10, <1>15 DEF Commit, CallInv, Reviewing, CandidateInv
  <2>1. CASE CommitIndex(k) /\ Goto(c, "verify")
    <3>1. pc'[c] = "verify"
      BY <2>1, <1>6 DEF Labels
    <3>2. task[c] \notin meddled => index[k] = "evaluated"
      BY <1>1 DEF CallInv, SeenInv
    <3>3. /\ committed' = [committed EXCEPT ![k] = index[k]]
          /\ index' = [index EXCEPT ![k] = "empty"] /\ UNCHANGED <<merged, into>>
      BY <2>1 DEF CommitIndex
    <3>4. CallInv(c)'
      BY <3>1, <3>2, <3>3, <1>2, <1>2a, <1>1, <1>4, <1>5, <1>9 DEF CallInv, SeenInv, Reviewing, Committed
    <3>5. DataTypes'
      BY <3>3, <1>2, <1>2a, <1>4, <1>9 DEF DataTypes, DataInv, Contents
    <3>6. \A j \in Candidates : j = k => CandidateInv(j)'
      BY <3>3, <1>2, <1>4, <1>5, <1>9 DEF CandidateInv
    <3>7. \A j \in Candidates \ {k} :
            /\ index'[j] = index[j] /\ committed'[j] = committed[j]
            /\ merged'[j] = merged[j] /\ into'[j] = into[j]
      BY <3>3, <1>9
    <3> QED
      BY <3>4, <3>5, <3>6, <3>7, <1>2, <1>8, StepFrame
  <2>2. CASE UNCHANGED gitState /\ Goto(c, "unstage")
    <3>1. pc'[c] = "unstage"
      BY <2>2, <1>6 DEF Labels
    <3>2. index' = [index EXCEPT ![k] = index[k]] /\ UNCHANGED <<committed, merged, into>>
      BY <2>2, <1>4, <1>9
    <3>3. CallInv(c)'
      BY <3>1, <3>2, <1>1, <1>2, <1>2a, <1>4, <1>5 DEF CallInv, SeenInv, Reviewing, Committed
    <3> QED
      BY <3>2, <3>3, <1>4, <1>9, <1>11
  <2> QED
    BY <2>1, <2>2, <1>15 DEF Commit
<1>16. CASE MergeSucceeds(c)
  <2>1. pc[c] = "merge" /\ pc'[c] \in {"record", "abort"}
    BY <1>16, <1>6 DEF MergeSucceeds, Labels
  <2>2. /\ committed[k] # "none" /\ committed[k] \in Contents
        /\ task[c] \notin meddled => committed[k] = "evaluated" /\ checkedOut[RepoOf[k]] = "target"
    BY <2>1, <1>1, <1>4, <1>9 DEF CallInv, SeenInv, Committed
  <2>3. /\ merged' = [merged EXCEPT ![k] = committed[k]]
        /\ into' = [into EXCEPT ![k] = checkedOut[RepoOf[k]]]
        /\ UNCHANGED <<index, committed>> /\ checkedOut[RepoOf[k]] \in {"target", "other"}
    BY <1>16, <1>4, <1>9, ApprovalAssumption DEF MergeSucceeds, MergeNoFastForward
  <2>4. CallInv(c)'
    <3>1. MergedAsReviewed(task[c])'
      BY <2>2, <2>3, <1>1, <1>2, <1>2a, <1>4, <1>9 DEF MergedAsReviewed
    <3> QED
      BY <2>1, <3>1, <1>1, <1>2, <1>4, <1>5 DEF CallInv, SeenInv, Reviewing, Committed
  <2>5. DataTypes'
    BY <2>2, <2>3, <1>2, <1>2a, <1>9 DEF DataTypes, DataInv
  <2>6. \A j \in Candidates : j = k => CandidateInv(j)'
    BY <2>2, <2>3, <1>2, <1>4, <1>5, <1>9, <1>10 DEF CandidateInv
  <2>7. \A j \in Candidates \ {k} :
          /\ index'[j] = index[j] /\ committed'[j] = committed[j]
          /\ merged'[j] = merged[j] /\ into'[j] = into[j]
    BY <2>3, <1>9
  <2> QED
    BY <2>4, <2>5, <2>6, <2>7, <1>2, <1>8, StepFrame
<1>17. CASE MergeFails(c)
  <2>1. pc'[c] = "abort"
    BY <1>17, <1>6 DEF MergeFails, Labels
  <2>2. index' = [index EXCEPT ![k] = index[k]] /\ UNCHANGED <<committed, merged, into>>
    BY <1>17, <1>4, <1>9 DEF MergeFails, MergeStops
  <2>3. CallInv(c)'
    BY <2>1 DEF CallInv, SeenInv, Reviewing, Committed
  <2> QED
    BY <2>2, <2>3, <1>4, <1>9, <1>11
<1> QED
  BY <1>13, <1>14, <1>15, <1>16, <1>17

\* The two decisions.
LEMMA DecisionSteps ==
  ASSUME LockTypes, LockInv, DataInv, NEW c \in Calls, Step(c), RecordApproval(c) \/ Reject(c)
  PROVE  DataInv'
<1> USE DEF At, gitVars
<1>1. CallInv(c) /\ task' = task /\ task[c] \in Tasks /\ TaskInv(task[c])
  BY Moves DEF DataInv, LockTypes
<1>2. UNCHANGED <<recorded, winner, execution, gitVars, worktree, branch, answered>>
  BY DEF RecordApproval, Reject, Decide, database, gitState, candidate, target
<1>2a. UNCHANGED <<files, checkedOut, meddled>>
  BY StepsLeave
<1>3. pc'[c] \in {"cleanup", "prune", "done"}
  BY DEF RecordApproval, Reject, BeginCleanup, NextCleanup, Goto, Finish, LockTypes
<1>4. CallInv(c)'
  BY <1>3 DEF CallInv, SeenInv, Reviewing, Committed
<1>5. \/ UNCHANGED <<decision, outcome>>
      \/ pc[c] = "record" /\ Decide(task[c], "approved", "merged")
      \/ Decide(task[c], "rejected", "rejected")
  BY DEF RecordApproval, Reject, database
<1>6. decision \in [Tasks -> {"pending", "approved", "rejected"}] /\ outcome \in [Tasks -> {"open", "merged", "rejected"}]
  BY DEF DataInv, DataTypes
<1>7. /\ decision' \in [Tasks -> {"pending", "approved", "rejected"}]
      /\ outcome' \in [Tasks -> {"open", "merged", "rejected"}]
  BY <1>5, <1>6, <1>1 DEF Decide
<1>8. \A t \in Tasks \ {task[c]} : decision'[t] = decision[t] /\ outcome'[t] = outcome[t]
  BY <1>5, <1>6, <1>1 DEF Decide
<1>9. TaskInv(task[c])'
  <2>1. CASE UNCHANGED <<decision, outcome>>
    BY <2>1, <1>1, <1>2, <1>2a DEF TaskInv, MergedAsReviewed
  <2>2. CASE pc[c] = "record" /\ Decide(task[c], "approved", "merged")
    <3>1. winner[task[c]] \in Candidates /\ MergedAsReviewed(task[c])
      BY <2>2, <1>1 DEF CallInv, Reviewed
    <3>2. outcome'[task[c]] = "merged"
      BY <2>2, <1>1, <1>6 DEF Decide
    <3> QED
      BY <3>1, <3>2, <1>1, <1>2, <1>2a DEF TaskInv, MergedAsReviewed
  <2>3. CASE Decide(task[c], "rejected", "rejected")
    <3>1. decision'[task[c]] = "rejected"
      BY <2>3, <1>1, <1>6 DEF Decide
    <3> QED
      BY <3>1, <1>1, <1>2 DEF TaskInv
  <2> QED
    BY <2>1, <2>2, <2>3, <1>5
<1>10. toClean' \in [Calls -> SUBSET Candidates] /\ runs' \in [Calls -> SUBSET Candidates]
       /\ UNCHANGED <<cleaning, warnings>>
  <2>1. runs \in [Calls -> SUBSET Candidates] /\ toClean \in [Calls -> SUBSET Candidates]
    BY DEF DataInv, DataTypes
  <2>2. recorded \intersect CandidatesOf(task[c]) \in SUBSET Candidates
    BY DEF CandidatesOf
  <2> QED
    BY <2>1, <2>2 DEF RecordApproval, Reject, BeginCleanup, cleanup
<1>11. DataTypes'
  BY <1>2, <1>2a, <1>7, <1>10 DEF DataTypes, DataInv
<1>12. \A k \in Candidates : CandidateInv(k)'
  BY <1>2 DEF CandidateInv, DataInv
<1> QED
  BY <1>2, <1>4, <1>8, <1>9, <1>11, <1>12, StepFrame

LEMMA StepData ==
  ASSUME LockTypes, LockInv, DataInv, NEW c \in Calls, Step(c)
  PROVE  DataInv'
BY QuietSteps, CleanupSteps, GitSteps, DecisionSteps DEF Step

\* The winner of a running execution is not known, so that nothing of its task
\* is committed and no request is past its review.
LEMMA RecordResultData ==
  ASSUME LockTypes, DataInv, NEW t \in Tasks, RecordResult(t)
  PROVE  DataInv'
<1>1. winner[t] = NoCandidate /\ decision[t] # "approved" /\ NoCandidate \notin Candidates
  BY ApprovalAssumption DEF RecordResult, DataInv, TaskInv
<1>2. PICK stored \in SUBSET CandidatesOf(t), w \in CandidatesOf(t) \union {NoCandidate} :
        /\ recorded' = recorded \union stored
        /\ winner' = [winner EXCEPT ![t] = w]
  BY DEF RecordResult
<1>3. /\ execution' = [execution EXCEPT ![t] = "over"]
      /\ outcome' \in {outcome, [outcome EXCEPT ![t] = "open"]}
      /\ UNCHANGED <<decision, files, index, committed, merged, into, checkedOut, worktree, branch,
                     pc, task, runs, toClean, cleaning, warnings, answered, meddled>>
  BY DEF RecordResult, gitState, candidate, target, requests, cleanup, auxiliary
<1>4. DataTypes'
  <2>1. /\ winner' \in [Tasks -> Candidates \union {NoCandidate}]
        /\ recorded' \in SUBSET Candidates
    BY <1>2 DEF DataInv, DataTypes, CandidatesOf
  <2>2. execution' \in [Tasks -> {"running", "over"}] /\ outcome' \in [Tasks -> {"open", "merged", "rejected"}]
    BY <1>3 DEF DataInv, DataTypes
  <2> QED
    BY <2>1, <2>2, <1>3 DEF DataInv, DataTypes
<1>5. \A u \in Tasks \ {t} : winner'[u] = winner[u] /\ execution'[u] = execution[u] /\ outcome'[u] = outcome[u]
  BY <1>2, <1>3 DEF DataInv, DataTypes
<1>6. winner'[t] = w /\ execution'[t] = "over"
  BY <1>2, <1>3 DEF DataInv, DataTypes
<1>7. ASSUME NEW k \in Candidates PROVE CandidateInv(k)'
  <2>1. CandidateInv(k) /\ TaskOf[k] \in Tasks
    BY ApprovalAssumption DEF DataInv
  <2>2. CASE TaskOf[k] = t
    BY <2>1, <2>2, <1>1, <1>3 DEF CandidateInv
  <2>3. CASE TaskOf[k] # t
    BY <2>1, <2>3, <1>3, <1>5 DEF CandidateInv
  <2> QED
    BY <2>2, <2>3
<1>8. ASSUME NEW u \in Tasks PROVE TaskInv(u)'
  <2>1. CASE u = t
    <3>1. winner'[t] # NoCandidate => TaskOf[winner'[t]] = t
      BY <1>2, <1>6 DEF CandidatesOf
    <3>2. decision'[t] # "approved"
      BY <1>1, <1>3
    <3> QED
      BY <2>1, <3>1, <3>2, <1>6 DEF TaskInv
  <2>2. CASE u # t
    BY <2>2, <1>3, <1>5 DEF TaskInv, MergedAsReviewed, DataInv
  <2> QED
    BY <2>1, <2>2
<1>9. ASSUME NEW d \in Calls PROVE CallInv(d)'
  <2>1. CallInv(d) /\ task[d] \in Tasks
    BY DEF DataInv, LockTypes
  <2>2. CASE task[d] = t
    <3>1. pc[d] \notin Reviewing \union Committed \union {"record"}
      BY <2>1, <2>2, <1>1 DEF CallInv, Reviewed
    <3> QED
      BY <3>1, <1>3 DEF CallInv, SeenInv, Reviewing, Committed
  <2>3. CASE task[d] # t
    <3>1. Reviewed(d)' = Reviewed(d)
      BY <2>1, <2>3, <1>3, <1>5 DEF Reviewed
    <3> QED
      BY <2>1, <2>3, <3>1, <1>3, <1>5 DEF CallInv, SeenInv, MergedAsReviewed
  <2> QED
    BY <2>2, <2>3
<1> QED
  BY <1>4, <1>7, <1>8, <1>9 DEF DataInv

\* What a person does is seen by the checks or recorded.
LEMMA PersonData ==
  ASSUME LockTypes, DataInv,
         UNCHANGED <<database, gitVars, worktree, branch, cleanup, answered, pc, task>>,
         files' \in [Candidates -> {"evaluated", "edited"}], checkedOut' \in [Repos -> {"target", "other"}],
         meddled \subseteq meddled',
         \A d \in Calls : task[d] \notin meddled' =>
           /\ pc[d] = "compare" => files'[Reviewed(d)] = files[Reviewed(d)]
           /\ pc[d] \in {"revalidateHead", "merge"} =>
                checkedOut'[RepoOf[Reviewed(d)]] = checkedOut[RepoOf[Reviewed(d)]]
  PROVE  DataInv'
<1> USE DEF database, gitVars, cleanup
<1>1. DataTypes'
  BY DEF DataInv, DataTypes
<1>2. \A k \in Candidates : CandidateInv(k)'
  BY DEF DataInv, CandidateInv
<1>3. \A t \in Tasks : TaskInv(t)'
  BY DEF DataInv, TaskInv, MergedAsReviewed
<1>4. ASSUME NEW d \in Calls PROVE CallInv(d)'
  BY DEF DataInv, CallInv, SeenInv, MergedAsReviewed, Reviewed
<1> QED
  BY <1>1, <1>2, <1>3, <1>4 DEF DataInv

LEMMA PeopleData ==
  ASSUME LockTypes, DataInv,
         \/ \E k \in Candidates : EditCandidate(k)
         \/ \E r \in Repos : TouchTarget(r) \/ Checkout(r)
  PROVE  DataInv'
<1> USE DEF gitVars
<1>1. UNCHANGED <<database, gitVars, worktree, branch, cleanup, answered, pc, task>>
  BY DEF EditCandidate, TouchTarget, Checkout, UserActs, requests
<1>2. /\ files \in [Candidates -> {"evaluated", "edited"}]
      /\ checkedOut \in [Repos -> {"target", "other"}]
      /\ \A d \in Calls : pc[d] \in {"compare", "revalidateHead", "merge"} => Reviewed(d) \in Candidates
  BY DEF DataInv, DataTypes, CallInv, Reviewing, Committed
<1>3. ASSUME NEW k \in Candidates, EditCandidate(k) PROVE DataInv'
  <2>1. /\ files' = [files EXCEPT ![k] = IF @ = "edited" THEN "evaluated" ELSE "edited"]
        /\ UNCHANGED checkedOut
        /\ meddled' = meddled \union {task[c] : c \in {d \in Calls : pc[d] \in {"compare"} /\ Reviewed(d) = k}}
    BY <1>3 DEF EditCandidate, Meddled
  <2>2. files' \in [Candidates -> {"evaluated", "edited"}] /\ meddled \subseteq meddled'
    BY <2>1, <1>2
  <2>3. \A d \in Calls : task[d] \notin meddled' =>
          (pc[d] = "compare" => files'[Reviewed(d)] = files[Reviewed(d)])
    BY <2>1, <1>2
  <2> QED
    BY <2>1, <2>2, <2>3, <1>1, <1>2, PersonData
<1>4. ASSUME NEW r \in Repos, Checkout(r) PROVE DataInv'
  <2>1. /\ checkedOut' = [checkedOut EXCEPT ![r] = IF @ = "target" THEN "other" ELSE "target"]
        /\ UNCHANGED files
        /\ meddled' = meddled \union {task[c] : c \in
             {d \in Calls : pc[d] \in {"revalidateHead", "merge"} /\ RepoOf[Reviewed(d)] = r}}
    BY <1>4 DEF Checkout, Meddled
  <2>2. checkedOut' \in [Repos -> {"target", "other"}] /\ meddled \subseteq meddled'
    BY <2>1, <1>2
  <2>3. \A d \in Calls : task[d] \notin meddled' =>
          (pc[d] \in {"revalidateHead", "merge"} =>
             checkedOut'[RepoOf[Reviewed(d)]] = checkedOut[RepoOf[Reviewed(d)]])
    BY <2>1, <1>2, ApprovalAssumption
  <2> QED
    BY <2>1, <2>2, <2>3, <1>1, <1>2, PersonData
<1>5. ASSUME NEW r \in Repos, TouchTarget(r) PROVE DataInv'
  BY <1>5, <1>1, <1>2, PersonData DEF TouchTarget
<1> QED
  BY <1>3, <1>4, <1>5

LEMMA NextData == LockTypes /\ LockInv /\ DataInv /\ [Next]_vars => DataInv'
<1> SUFFICES ASSUME LockTypes, LockInv, DataInv, [Next]_vars PROVE DataInv'
  OBVIOUS
<1> USE DEF gitState, candidate, target, database, cleanup, requests, auxiliary
<1> DEFINE stored == <<decision, outcome, recorded, winner, execution, files, checkedOut, index,
                       committed, merged, into, worktree, branch, answered, meddled>>
<1>1. CASE UNCHANGED vars
  <2>1. DataTypes'
    BY <1>1 DEF DataInv, DataTypes, vars
  <2>2. \A k \in Candidates : CandidateInv(k)'
    BY <1>1 DEF DataInv, CandidateInv, vars
  <2>3. \A t \in Tasks : TaskInv(t)'
    BY <1>1 DEF DataInv, TaskInv, MergedAsReviewed, vars
  <2>4. \A d \in Calls : CallInv(d)'
    BY <1>1 DEF DataInv, CallInv, SeenInv, MergedAsReviewed, Reviewed, vars
  <2> QED
    BY <2>1, <2>2, <2>3, <2>4 DEF DataInv
<1>2. ASSUME NEW c \in Calls, NEW t \in Tasks, NEW k \in {"approve", "reject"}, Request(c, t, k)
      PROVE  DataInv'
  <2>1. UNCHANGED <<stored, runs, toClean, cleaning, warnings>>
    BY <1>2 DEF Request
  <2>2. pc'[c] = k /\ \A d \in Calls \ {c} : pc'[d] = pc[d] /\ task'[d] = task[d]
    BY <1>2 DEF Request, LockTypes
  <2>3. DataTypes'
    BY <2>1 DEF DataInv, DataTypes
  <2>4. \A j \in Candidates : CandidateInv(j)'
    BY <2>1 DEF DataInv, CandidateInv
  <2>5. \A u \in Tasks : TaskInv(u)'
    BY <2>1 DEF DataInv, TaskInv, MergedAsReviewed
  <2>6. ASSUME NEW d \in Calls PROVE CallInv(d)'
    <3>1. CASE d = c
      BY <3>1, <2>2 DEF CallInv, SeenInv, Reviewing, Committed
    <3>2. CASE d # c
      BY <3>2, <2>1, <2>2 DEF DataInv, CallInv, SeenInv, MergedAsReviewed, Reviewed
    <3> QED
      BY <3>1, <3>2
  <2> QED
    BY <2>3, <2>4, <2>5, <2>6 DEF DataInv
<1>3. CASE Crash
  <2>1. UNCHANGED <<decision, outcome, recorded, winner, files, index, committed, merged, into,
                    checkedOut, worktree, branch, runs, warnings, answered, task, meddled>>
    BY <1>3 DEF Crash
  <2>2. DataTypes'
    BY <1>3, <2>1 DEF Crash, DataInv, DataTypes
  <2>3. \A k \in Candidates : CandidateInv(k)'
    BY <2>1 DEF DataInv, CandidateInv
  <2>4. \A t \in Tasks : TaskInv(t)'
    BY <1>3, <2>1 DEF Crash, DataInv, TaskInv, MergedAsReviewed
  <2>5. \A c \in Calls : CallInv(c)'
    BY <1>3 DEF Crash, CallInv, SeenInv, Reviewing, Committed
  <2> QED
    BY <2>2, <2>3, <2>4, <2>5 DEF DataInv
<1> QED
  BY <1>1, <1>2, <1>3, PeopleData, StepData, RecordResultData DEF Next

LEMMA DataHolds == Spec => [](LockTypes /\ LockInv /\ DataInv)
BY InitLock, NextLock, InitLockTypes, NextLockTypes, InitData, NextData, PTL DEF Spec

\* A task recorded as approved has what was evaluated in the target branch, for any
\* number of tasks, candidates and requests, and with any edits, checkouts, failures
\* and crashes but those that no check can see.
THEOREM ApprovalIsMerge == Spec => []ApprovedIsMerged
<1>1. DataInv => ApprovedIsMerged
  BY DEF DataInv, TaskInv, MergedAsReviewed, ApprovedIsMerged, merge
<1> QED
  BY <1>1, DataHolds, PTL
=============================================================================
