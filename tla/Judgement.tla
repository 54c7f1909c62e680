----------------------------- MODULE Judgement -----------------------------
(***************************************************************************)
(* How the Router judges: one competition from the classification of its   *)
(* task to its rows in the history, and the winner that candidate-review   *)
(* derives again from these rows before a human may approve it. Routing    *)
(* has what happens before an Agent runs, Evidence what is made of its     *)
(* work; here are the ranking and the winner (competition.evaluator).      *)
(*                                                                         *)
(* Failing commands, writes and cancellation are the subject of Execution. *)
(***************************************************************************)
EXTENDS Routing, Evidence

CONSTANTS Histories,   \* rows of agent_runs there may be at first
          Works,       \* what an Agent may leave behind
          Weights      \* COMPETITION_*_WEIGHT in percent

VARIABLES rows,         \* agent_runs, oldest first
          importance,   \* classification of the task
          selected,     \* selectedAgents
          candidates,   \* results, in the order the Agents ran
          stored,       \* the competition's own rows, once written
          winner        \* winner_agent_id, once written

vars == <<rows, importance, selected, candidates, stored, winner>>

None == 0   \* no winner

\* A row of agent_runs: what the statistics of an Agent are made of.
Run == [agent : Agents, importance : [Categories -> 0..100], score : Nat \cup {Unknown}]

ASSUME JudgementAssumption ==
    /\ Weights \in [quality : Nat, router : Nat, speed : Nat]
    /\ Weights.quality + Weights.router + Weights.speed = 100
    /\ Histories \subseteq Seq(Run)
    /\ Works \subseteq Work /\ \A work \in Works : IsFiniteSet(work.changes)

-----------------------------------------------------------------------------
\* executeWithAgent, toCandidateResult and toFailedCandidate: what a
\* candidate is in the end. It may be lost by an error: then it has a score
\* of zero, and no duration.
Candidate(agent, work) ==
    [agent |-> agent,
     router |-> RoutingScore(rows, importance, agent),
     work |-> work,
     score |-> IF work.lost THEN 0 ELSE Score(Found(work)),
     duration |-> IF work.lost THEN Unknown ELSE work.duration,
     status |-> IF work.lost THEN "failed" ELSE FinalStatus(work)]

-----------------------------------------------------------------------------
(* The winner.                                                             *)

ScoreCap(status) ==
    CASE status = "failed" -> 4000
      [] status = "evaluation_failed" -> 6000
      [] OTHER -> 10000

\* getPositiveDuration
Positive(duration) == IF duration > 0 THEN duration ELSE Unknown

Times(cands) == {Positive(cands[i].duration) : i \in DOMAIN cands} \ {Unknown}

\* CompetitionEvaluator.evaluate, in hundredths: quality and suitability,
\* and the speed relative to the fastest candidate that has a duration.
CompetitionScore(c, times) ==
    LET d      == IF Positive(c.duration) = Unknown THEN 1 ELSE c.duration
        speed  == IF Positive(c.duration) = Unknown THEN 0 ELSE 10000 * Min(times)
        points == (Weights.quality * 100 * c.score + Weights.router * c.router) * d
                  + Weights.speed * speed
        raw    == Clamp(RoundedQuotient(points, 100 * d), 10000)
    IN Min({raw, ScoreCap(c.status)})

\* Each candidate with its competitionScore, in the order they ran.
Rows(cands) ==
    [i \in DOMAIN cands |->
        [agent |-> cands[i].agent, status |-> cands[i].status,
         score |-> cands[i].score, router |-> cands[i].router,
         duration |-> cands[i].duration,
         competition |-> CompetitionScore(cands[i], Times(cands))]]

\* The ranking sees no duration where there is no positive one; the rows
\* keep a duration of zero.
Ranked(cands) ==
    LET list == Rows(cands)
    IN [i \in DOMAIN list |-> [list[i] EXCEPT !.duration = Positive(@)]]

\* Without a duration a candidate counts as infinitely slow.
Faster(x, y) == x # Unknown /\ (y = Unknown \/ x < y)

\* Mutant: ids not compared.
BeforeOrTied(l, r) ==
    \/ l.competition > r.competition
    \/ /\ l.competition = r.competition
       /\ \/ l.score > r.score
          \/ /\ l.score = r.score
             /\ \/ l.router > r.router
                \/ l.router = r.router /\ Faster(l.duration, r.duration)

\* compareRankedCandidates: l is ranked before r. Without a duration both are
\* tied: the difference of two infinities is NaN, which is not 0, so that the
\* ids are not compared, and no order to the sort.
Before(l, r) ==
    \/ l.competition > r.competition
    \/ /\ l.competition = r.competition
       /\ \/ l.score > r.score
          \/ /\ l.score = r.score
             /\ \/ l.router > r.router
                \/ /\ l.router = r.router
                   /\ \/ Faster(l.duration, r.duration)
                      \/ /\ l.duration = r.duration /\ l.duration # Unknown
                         /\ l.agent < r.agent

EligibleIn(list) == {i \in DOMAIN list : list[i].status \in Eligible}

\* Of the candidates that no eligible one comes before the first in the list:
\* the sort is stable.
FirstOf(list, best) == IF best = {} THEN None ELSE list[Min(best)].agent

Winner(cands) ==
    LET list == Ranked(cands)
    IN FirstOf(list, {i \in EligibleIn(list) :
                         \A j \in EligibleIn(list) : ~Before(list[j], list[i])})

\* Mutant: quality and suitability left to the ranking.
RowBeforeBySpeed(l, r) ==
    \/ l.competition > r.competition
    \/ /\ l.competition = r.competition
       /\ \/ Faster(l.duration, r.duration)
          \/ l.duration = r.duration /\ l.agent < r.agent

\* compareCandidateRuns and selectCandidateRun: what the review of the
\* stored rows takes for the winner. NaN counts as 0 here, and ids decide.
RowBefore(l, r) ==
    \/ l.competition > r.competition
    \/ /\ l.competition = r.competition
       /\ \/ l.score > r.score
          \/ /\ l.score = r.score
             /\ \/ l.router > r.router
                \/ /\ l.router = r.router
                   /\ \/ Faster(l.duration, r.duration)
                      \/ l.duration = r.duration /\ l.agent < r.agent

Derived ==
    FirstOf(stored, {i \in EligibleIn(stored) :
                        \A j \in EligibleIn(stored) : ~RowBefore(stored[j], stored[i])})

-----------------------------------------------------------------------------
Init ==
    /\ rows \in Histories
    /\ importance = Fallback
    /\ selected = <<>> /\ candidates = <<>> /\ stored = <<>>
    /\ winner = None

\* analyzeTask and selectCandidates. With fewer than two there is no
\* competition.
Route ==
    /\ selected = <<>>
    /\ \E matched \in SUBSET Rules, available \in SUBSET Agents :
          /\ importance' = Classify(matched)
          /\ selected' \in Chosen(rows, importance', available)
                           \cup Requested(available)
    /\ Len(selected') >= 2
    /\ UNCHANGED <<rows, candidates, stored, winner>>

\* The next Agent runs and is judged.
Judge ==
    /\ Len(candidates) < Len(selected)
    /\ \E work \in Works :
          candidates' = Append(candidates,
                               Candidate(selected[Len(candidates) + 1], work))
    /\ UNCHANGED <<rows, importance, selected, stored, winner>>

\* The comparison, and persistCompetitionResults.
Compare ==
    /\ stored = <<>> /\ selected # <<>> /\ Len(candidates) = Len(selected)
    /\ stored' = Rows(candidates)
    /\ winner' = Winner(candidates)
    /\ rows' = rows \o [i \in DOMAIN candidates |->
                           [agent |-> candidates[i].agent, importance |-> importance,
                            score |-> candidates[i].score]]
    /\ UNCHANGED <<importance, selected, candidates>>

Done == stored # <<>> /\ UNCHANGED vars

Next == Route \/ Judge \/ Compare \/ Done

Spec == Init /\ [][Next]_vars

-----------------------------------------------------------------------------
\* No score of the rest makes a hard failure or a failed process win, and the
\* winner's files are what they seem: it has not touched a sensitive file, by
\* no name the file had, and each file that is left is a regular one inside
\* the worktree. No evaluator sees all of this alone: links that the static
\* checks do not look at are found by the fingerprint (README.md:245, 306).
WinnerIsClean ==
    \A i \in DOMAIN candidates :
        candidates[i].agent = winner =>
            /\ ~Has(Found(candidates[i].work), Hard \cup {"processFailure"})
            /\ \A c \in candidates[i].work.changes :
                  /\ {c.path, c.original} \cap (Sensitive \cup Outside) = {}
                  /\ c.deleted \/ c.entry \in Regular

\* Each eligible run took a time that the clock could tell. The competition
\* takes a duration of zero for none, the review for the shortest.
Measured == \A i \in EligibleIn(stored) : stored[i].duration > 0

\* The order in which the Agents ran decides nothing (README.md:306): the
\* same candidates in any other order have the same winner.
OrderDecidesNothing ==
    stored # <<>> /\ Measured =>
        \A p \in {q \in [DOMAIN candidates -> DOMAIN candidates] :
                     \A i, j \in DOMAIN q : i # j => q[i] # q[j]} :
            Winner([i \in DOMAIN candidates |-> candidates[p[i]]]) = winner

\* The review derives from the rows the winner that was stored with them:
\* otherwise no candidate of the competition could be approved
\* (CANDIDATE_HISTORY_INCONSISTENT).
ReviewAgrees == stored # <<>> /\ Measured => Derived = winner

\* The history counts failures: had a run of an Agent ended without a score,
\* the Agent would be no more suitable for the same task than it is now.
FailureNeverHelps ==
    stored # <<>> =>
        \A i \in DOMAIN rows :
            RoutingScore([rows EXCEPT ![i].score = Unknown], importance, rows[i].agent)
                <= RoutingScore(rows, importance, rows[i].agent)
=============================================================================
