------------------------------ MODULE Evidence ------------------------------
(***************************************************************************)
(* What the evaluators find in the work of one Agent, and what follows     *)
(* from it: diff.evaluator, static.evaluator and score.evaluator, the      *)
(* capture of the fingerprint and the status of the run.                   *)
(*                                                                         *)
(* The work is a record: how the process ended, the changes git reports in *)
(* the worktree, what became of package.json and the project's scripts,    *)
(* and whether git answers when the fingerprint is captured. A change is   *)
(* a path with its former path (the same, unless the file was renamed),    *)
(* whether it is deleted, and what is found under the path now. The list   *)
(* of changes is taken to fit the output budget of a git command.          *)
(***************************************************************************)
EXTENDS Integers, FiniteSets, FiniteSetsExt, Functions

CONSTANTS Paths,
          Sensitive,         \* those SENSITIVE_FILE_RULES match
          Outside,           \* those that lead out of the worktree
          Checked,           \* .js, .cjs, .mjs and .json
          MaxChangedFiles

ASSUME EvidenceAssumption ==
    /\ Sensitive \cup Outside \cup Checked \subseteq Paths
    /\ MaxChangedFiles \in Nat \ {0}

Regular == {"good", "broken", "tooLarge"}
Entries == Regular \cup {"symlink", "escapes", "missing", "directory"}

Change == [path : Paths, original : Paths, deleted : BOOLEAN, entry : Entries]

\* The work of one Agent; a run that is lost to an error has no duration.
Work == [lost : BOOLEAN, exit : STRING, timedOut : BOOLEAN, committed : BOOLEAN,
         truncated : BOOLEAN, changes : SUBSET Change, diff : STRING, package : STRING,
         failing : Nat, answers : BOOLEAN, duration : Nat]

-----------------------------------------------------------------------------
\* Mutant: former paths of renamed files forgotten.
PathsAfter(changes) == {c.path : c \in changes}

\* collectChangedFiles: a rename touches both of its paths.
AllPaths(changes) == {c.path : c \in changes} \cup {c.original : c \in changes}

\* StaticEvaluator.evaluateFile: of the files it knows how to check, only
\* what is deleted and what parses does not fail. A link, or a path that
\* leads out, is a failure like the others: each makes the verdict "fail".
StaticFailures(changes) ==
    {c \in changes : /\ ~c.deleted /\ c.path \in Checked
                     /\ c.path \in Outside \/ c.entry # "good"}

\* SCORE_DEDUCTIONS. An unsafe path costs nothing and decides the verdict.
Deduction == [processFailure |-> 35, timeout |-> 40, unexpectedCommit |-> 30,
              noChanges |-> 20, sensitiveFile |-> 50, unsafePath |-> 0,
              tooManyFiles |-> 20, diffTooLarge |-> 15, staticFailure |-> 20,
              invalidPackageJson |-> 30, projectFailure |-> 20,
              outputTruncated |-> 5]
Kinds == DOMAIN Deduction

Once(b) == IF b THEN 1 ELSE 0

\* How often each kind is found. Paths and checks count one by one.
Found(work) ==
    LET paths == AllPaths(work.changes)
        files == Cardinality({c.path : c \in work.changes})
    IN [processFailure     |-> Once(work.exit # "success"),
        timeout            |-> Once(work.timedOut),
        unexpectedCommit   |-> Once(work.committed),
        noChanges          |-> Once(files = 0),
        sensitiveFile      |-> Cardinality(paths \cap Sensitive),
        unsafePath         |-> Cardinality(paths \cap Outside),
        tooManyFiles       |-> Once(files > MaxChangedFiles),
        diffTooLarge       |-> Once(work.diff # "small"),
        staticFailure      |-> Cardinality(StaticFailures(work.changes)),
        invalidPackageJson |-> Once(work.package = "invalid"),
        projectFailure     |-> work.failing,
        outputTruncated    |-> Once(work.truncated)]

-----------------------------------------------------------------------------
Has(found, kinds) == \E k \in kinds : found[k] > 0

\* What makes the verdict "fail" at any score: hardFailCodes, and a failing
\* static check.
Hard == {"timeout", "unexpectedCommit", "sensitiveFile", "unsafePath",
         "staticFailure"}

\* ScoreEvaluator.evaluate
Clamped(x) == IF x < 0 THEN 0 ELSE x

Remaining(found) == 100 - SumFunction([k \in Kinds |-> Deduction[k] * found[k]])

Score(found) == Clamped(Remaining(found))

Verdict(found) ==
    CASE Has(found, Hard) \/ Score(found) < 70 -> "fail"
      [] ~Has(found, Hard) /\ Score(found) \in 70..89 -> "warning"
      [] ~Has(found, Hard) /\ Score(found) >= 90 -> "pass"

\* mapExecutionStatus
Status(found) ==
    IF Has(found, {"processFailure", "timeout", "unexpectedCommit"})
    THEN "failed"
    ELSE [pass |-> "completed", warning |-> "completed_with_warnings",
          fail |-> "evaluation_failed"][Verdict(found)]

Eligible == {"completed", "completed_with_warnings"}

-----------------------------------------------------------------------------
\* hashRegularFile, for every path that is not deleted.
Hashed(c) == c.path \notin Outside /\ c.entry \in Regular

\* CandidateFingerprintService.capture gives a fingerprint.
Captured(work) ==
    /\ work.answers
    /\ work.diff # "cut"
    /\ \A c \in work.changes : c.deleted \/ Hashed(c)

\* An eligible candidate that cannot be identified is no candidate.
FinalStatus(work) ==
    IF Status(Found(work)) \in Eligible /\ ~Captured(work)
    THEN "evaluation_failed"
    ELSE Status(Found(work))
=============================================================================
