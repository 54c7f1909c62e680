-------------------------------- MODULE Git --------------------------------
(***************************************************************************)
(* What git holds of candidates and of the repositories they were made     *)
(* from, and what the commands of git.service.js that an approval uses do  *)
(* to it.  Contents are what they came from: `evaluated' as the evaluation *)
(* found them, `edited' since, `empty' or `none'.                          *)
(*                                                                         *)
(* A command is an action about this module's variables alone; whether it  *)
(* fails is up to who calls it.                                            *)
(***************************************************************************)
EXTENDS Integers

CONSTANTS
  Candidates,  \* candidates, each on a branch of its own in a worktree
  Repos,       \* target repositories
  RepoOf       \* the repository a candidate was made from

VARIABLES
  \* the candidates
  files,       \* the files in the worktree
  index,       \* what is staged
  committed,   \* what the commit on the candidate branch holds
  worktree,    \* present; stale: registered without a directory; gone
  branch,      \* the candidate branch exists
  \* the repositories
  head,        \* commits on the target branch since the candidates were made
  clean,       \* nothing uncommitted
  checkedOut,  \* the branch that is checked out: target or other
  operation,   \* none, or whose merge is under way: candidate or foreign
  merged,      \* the candidate, as a merge has brought it in
  into,        \* the branch it was merged into: none, target or other
  onto         \* the commit of the target branch it was merged onto

candidate == <<files, index, committed, worktree, branch>>
target    == <<head, clean, checkedOut, operation, merged, into, onto>>
gitState  == <<candidate, target>>

Base == 0    \* column base_commit

\* The working tree, the index and the history of a candidate.

StageAll(k) ==
  /\ index' = [index EXCEPT ![k] = files[k]]
  /\ UNCHANGED <<files, committed, worktree, branch, target>>

UnstageAll(k) ==
  /\ index' = [index EXCEPT ![k] = "empty"]
  /\ UNCHANGED <<files, committed, worktree, branch, target>>

HasUnstagedOrUntrackedChanges(k) == index[k] # files[k]

\* Git commits the index.
CommitIndex(k) ==
  /\ committed' = [committed EXCEPT ![k] = index[k]]
  /\ index' = [index EXCEPT ![k] = "empty"]
  /\ UNCHANGED <<files, worktree, branch, target>>

Registered(k) == worktree[k] # "gone"

RemoveWorktree(k) ==
  /\ worktree' = [worktree EXCEPT ![k] = "gone"]
  /\ UNCHANGED <<files, index, committed, branch, target>>

\* The time-out kills git after it has deleted files of the worktree.
RemoveWorktreeHalfway(k) ==
  /\ worktree' = [worktree EXCEPT ![k] = "stale"]
  /\ UNCHANGED <<files, index, committed, branch, target>>

\* -d refuses a branch whose commits are not in HEAD, -D takes any. (A branch that
\* was made of the target since may have them.)
MayBeInHead(k) == into[k] = "target" \/ into[k] = checkedOut[RepoOf[k]]

MayDelete(k, force) == branch[k] /\ (force \/ MayBeInHead(k))

DeleteBranch(k) ==
  /\ branch' = [branch EXCEPT ![k] = FALSE]
  /\ UNCHANGED <<files, index, committed, worktree, target>>

PruneWorktrees(r) ==
  /\ worktree' = [k \in Candidates |->
                    IF RepoOf[k] = r /\ worktree[k] = "stale" THEN "gone" ELSE worktree[k]]
  /\ UNCHANGED <<files, index, committed, branch, target>>

\* The target branch.

GetOperationState(r) == operation[r]

IsClean(r) == clean[r]

GetCurrentBranch(r) == checkedOut[r]

\* HEAD is the commit of the branch that is checked out. Another branch may be
\* at any.
HeadMayBe(r, commit) == checkedOut[r] = "target" => head[r] = commit

\* Git merges into the branch that is checked out, and refuses while another merge
\* is open.
MergeNoFastForward(k) ==
  LET r == RepoOf[k] IN
  /\ operation[r] = "none"
  /\ merged' = [merged EXCEPT ![k] = committed[k]]
  /\ into'   = [into EXCEPT ![k] = checkedOut[r]]
  /\ IF checkedOut[r] = "target"
     THEN onto' = [onto EXCEPT ![k] = head[r]] /\ head' = [head EXCEPT ![r] = @ + 1]
     ELSE UNCHANGED <<onto, head>>
  /\ UNCHANGED <<candidate, clean, checkedOut, operation>>

\* A merge that stops leaves itself open, unless it never began.
MergeStops(k) ==
  LET r == RepoOf[k] IN
  /\ \/ operation[r] = "none" /\ operation' = [operation EXCEPT ![r] = "candidate"]
     \/ UNCHANGED operation
  /\ UNCHANGED <<candidate, head, clean, checkedOut, merged, into, onto>>

\* It undoes the merge it finds, whoever began it.
AbortMerge(r) ==
  /\ operation' = [operation EXCEPT ![r] = "none"]
  /\ UNCHANGED <<candidate, head, clean, checkedOut, merged, into, onto>>

InitGit ==
  /\ files     = [k \in Candidates |-> "evaluated"]
  /\ index     = [k \in Candidates |-> "empty"]
  /\ committed = [k \in Candidates |-> "none"]
  /\ worktree  = [k \in Candidates |-> "present"]
  /\ branch    = [k \in Candidates |-> TRUE]
  /\ head      = [r \in Repos |-> Base]
  /\ clean     = [r \in Repos |-> TRUE]
  /\ checkedOut = [r \in Repos |-> "target"]
  /\ operation = [r \in Repos |-> "none"]
  /\ merged    = [k \in Candidates |-> "none"]
  /\ into      = [k \in Candidates |-> "none"]
  /\ onto      = [k \in Candidates |-> Base]
=============================================================================
