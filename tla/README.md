# Local AI Agent Router: verification

TLA+ specifications of the Router, the TLC runs that check them and theorems
that TLAPS proves about them. Paths below are relative to the repository
(`services/` is `src/services/`).

The Router accepts coding tasks over HTTP, queues them as Jobs in SQLite, runs
each with one or several Agent programs in git worktrees, evaluates what they
leave, streams the progress to a dashboard, and merges a candidate only after
a human has approved the exact state that was evaluated.

## 1. Inventory

| Component | Source | State | Operations | What is hard |
|---|---|---|---|---|
| Job queue | `services/job.service.js`, `job-state.service.js` | table `jobs` | create, claim, transition, cancel, retry, change priority, interrupt at start | three queries must agree on one order; rows read under another configuration |
| Scheduler | `services/job-scheduler.service.js` | map `active`, `started`, `shuttingDown`, `dispatching`, `dispatchScheduled` | start, wake, dispatch, launch, execute, cancel, shutdown | lost wake-ups, cancellation against result, slots, restart |
| Job manager | `services/job-manager.service.js` | none | submit, retry, cancel, priority | an await before the row is made |
| Process | `server.js` | one shutdown flag | start, signals | crash between any two commits; a shutdown that gives up waiting |
| Run sessions | `services/run-session.service.js` | map of sessions: state, bounded events, listeners | create, append, four ends, expiry | state set by late events; expiry; identifiers after a restart |
| SSE stream | `controllers/run.controller.js` | one listener and one heartbeat per response | replay, snapshot, live events | edge of the window; lost connections |
| Live page | `web/src/hooks/useRunStream.js`, `web/src/api/runs.api.js` | session, events and connection shown | load, subscribe, handle, refresh | reconnection, duplicates, an end that is missed |
| Approval | `services/approval.service.js` | map `taskLocks` | approve, reject | a dozen git processes in a row beside people, other tasks and crashes |
| Candidate review | `services/candidate-review.service.js`, `candidate-fingerprint.service.js` | none | inspect, review | what it read may be old when it is used |
| Candidate page | `web/src/pages/CandidatePage.jsx` | id typed, review shown, dialog, loads and decisions under way | load, ask, decide, refresh | answers that arrive late, for another id |
| Clean-up | `services/worktree-cleanup.service.js` | none | clean a task | one candidate of several fails half way; never repeated |
| History | `services/history.service.js`, `database.service.js` | tables `tasks`, `agent_runs` | create, record, complete, decide | written by executions and by decisions |
| Execution | `services/agent-executor.service.js` | none | validate, worktree, run, evaluate, store | cancellation at every await; storing that fails |
| Competition | `services/competition.service.js`, `evaluators/competition.evaluator.js` | none | run each Agent, rank, store | one of several failing |
| Worktrees, git | `services/worktree.service.js`, `git.service.js` | none | create, commands | names already taken; time-outs |
| Processes | `services/process-runner.service.js` | one child | run | exit, time-out, abort and kill race |
| Sandbox | `services/sandbox*.js` | containers, snapshots | run an Agent or a check | containers that outlive the Router |
| Evaluators | `evaluators/`, `services/evaluator.service.js` | none | score and verdict | boundaries of scores |
| Routing | `services/router.service.js`, `agent-planner`, `*-scorer`, `performance` | none | choose Agents | ties, few samples |
| Registry, adapters, Ollama, configuration, HTTP routes, dashboard pages | `agents/`, `config/`, `controllers/`, `web/` | none | | |

How they interact. The Job manager writes a row, opens its session and wakes
the scheduler. The scheduler claims rows while it has slots and calls the
execution or the competition, which report events through a callback; the
scheduler passes them to the session, whose listeners write to SSE responses.
Cancellation goes through the row and an `AbortController`. An execution stores
its run and its task in the history; approval and rejection later read them,
work on the worktree and the target repository, and write the decision.
Everything runs on one thread: only an `await` of something outside the process
lets another handler in. SQLite is called synchronously.

What makes each correct: a Job runs once at a time, is never forgotten and
never changes its end; limits hold; a cancellation is obeyed; a page shows what
happened without a gap; what is merged is what a human saw, on the base it was
evaluated on, and what is recorded is what was done.

## 2. Plan

Built so far, in the order of importance: the queue with its scheduler and
process (`JobScheduler`) and what it promises (`JobLifecycle`); approval on the
commands of git (`Approval`, `Git`), what it promises (`Decision`), and the page
on which people decide, composed with that promise (`CandidatePage`); live
sessions and the page that follows them (`RunSession`, `RunStream`); one child
process (`ProcessRunner`, with the promise `ProcessResult`); one execution, single
or a competition (`Execution`); how the Router chooses and judges (`Routing`,
`Evidence`, `Judgement`); and the proofs of section 6.

What would come next, in this order:

1. A crash inside `Execution`, once the Router takes up anything after one.
2. Worktree names that are taken, and the ten attempts at a free one.
3. One decided winner also for runs without a positive duration, once the ranking
   and the review agree on what such a duration is (section 4).

## 3. Modules

**`JobLifecycle`** is the abstract specification: a Job is accepted, waits,
takes one of `MaxActive` slots and ends in one of four ways.

**`JobScheduler`** is the queue and the scheduler. One variable per column of
`jobs` that the scheduler reads (`status`, `priority`, `created`, `agents`,
`attempt`, `parent`), one per field of the scheduler (`active`, `aborted`,
`wakePending`, `dispatching`), the process (`proc`) and the environment it is
started with (`config`). An action is the code between two returns to the event
loop. `dispatch()` is the exception: it commits several transactions in one
turn, so `BeginDispatch`, `ClaimNextQueuedJob`, `Launch` and `EndDispatch` are
separate steps between which only a crash may fall. `Settle` is an execution
coming back with a result, an error or a cancellation, and the row it then
reads decides (`FinishCompleted`, `FinishFailed`, `FinishCancelled`). `Boot` is
`start()`, with its failure on an unreadable row. A requested Agent list is its
length; the clock may stand still between two rows, so creation times tie.
`Phase` maps a row to `JobLifecycle`.

**`JobQueueView`** adds the order in which the queue is listed, the second of
the two the Router publishes: the sorted sequence of the queued Jobs, cut off at
the limit of a list.

**`Git`** is what git holds of the candidates and the target repositories, with
one action per command that an approval or a clean-up gives. Contents are
abstracted to where they come from (`evaluated`, `edited`, `empty`): every
comparison in the code is one of these. A target repository has a branch checked
out, and a merge goes into that one (`into`), whichever it is. A stopped merge
leaves itself open; a killed removal leaves a `stale` entry that only pruning
drops.

**`Approval`** has a step per git command of `approve()`, in the order of the
code: review, target and its HEAD, stage, look for staged changes, capture the
fingerprint of the files, compare the index with them, diff, commit, verify, target
and its HEAD again, merge, record, with the unstaging on the ways out; then `cleanupTask()` over every recorded candidate, worktree and branch
one after the other, and the pruning. The action takes its effect from `Git` and
says what the code does when the command fails. Beside them run other requests,
people who edit the candidates and undo it, edit the target, commit to it or check
out another branch (`Checkout`), the end of an execution that was cut off, and
crashes. Two acts of theirs may escape every check: an edit of the candidate
between the capture of its files and the comparison of the index with them, and a
checkout between the last reading of the target's branch and the merge. The history
variable `meddled` holds the tasks that were being approved then. `tail` and `previous` are the chain of promises of
`withTaskLock`. `Selected` is the candidate that the review derives from the rows.

**`Decision`** is the abstract specification of approval: each task is merged at
most once, with what was evaluated and into the target branch, is approved only
after that, is decided once, and loses nothing before it is decided. Only for a
task in `meddled` may the merge be another one. `Approval` implements it with its
`meddled`, and with `merge` and `kept`, which it derives from git.

**`CandidatePage`** is the page before a Router that is `Decision`, which `Approval`
is proved to implement: it EXTENDS `Decision` and takes its steps. The id, the
review, the dialog, the loads and the request are separate states; answers come
in any order or not at all, and other people decide, edit and meddle too
(`Elsewhere`).

**`RunSession`** is the session of one Job with the calls of the scheduler that
feed it and the SSE handler that streams it; **`RunStream`** adds the browser.
`channel` is what the response has been given and the browser has not read; a
lost connection empties it. A session keeps `EventLimit` events
(`REALTIME_EVENT_LIMIT`, 50 to 1000) and a page `PageLimit` (300,
`useRunStream.js:4`), which know nothing of each other. Event types with the same
effect at both ends are one type. `heard` and `skipped` are history variables of
the properties.

**`ProcessRunner`** is one call of `runProcess()`: the child, its pipes, the
timer and the abort listener against the one promise that they settle. The
process is the environment: it may end at any moment, resist a kill, or leave
somebody who holds its pipes. `received` is a history variable: all bytes that were
given to `appendOutput()`, the process's and the runner's own. **`ProcessResult`** is the promise: one result, and
`aborted` in it as the signal was at that moment.

**`Execution`** is `executeTask()` and `compete()` with everything they call. `pc`
names the await at which the execution stands; an action is the code from there
to the next await, with every early return, catch and finally on the way, so
that the cancellation (`Abort`) may fall exactly where the event loop can let it
in. `Synchronous` names the places where it cannot: the history is written
synchronously. The static evaluation checks the syntax of one file after the other
(`StaticChecks`, `CheckSyntax`, `SyntaxChecked`), each in a process without the
signal; `files` is how many are left. A process is what `ProcessRunner` promises,
that is, it succeeds or fails; a container outlives the docker client that is killed, until it is
removed. `leftover` remembers removals that failed. `Persist` writes each row on
its own, any of them failing.

**`Routing`** and **`Evidence`** are functions. `Routing` goes from the rules a
task matches and the rows of the history to statistics, scores, ranking and
candidates; `Evidence` from the changes in a worktree and the end of a process to
deductions, score, verdict, fingerprint and status. **`Judgement`** composes them:
a competition routes, judges the Agents one by one, ranks them and stores rows,
which the review ranks again and the next routing counts. `Before` is the order
of the ranking with its gap: two candidates that tie and have no positive duration
are compared by `Infinity - Infinity`, which is NaN, so that their ids are not
(`competition.evaluator.js:34`); in the review (`RowBefore`) NaN counts as 0 and
the ids decide.

**`JobSchedulerProofs`**, **`RunStreamProofs`**, **`ApprovalProofs`**,
**`DecisionProofs`**, **`CandidatePageProofs`**, **`ProcessRunnerProofs`**,
**`ExecutionProofs`** and **`JudgementProofs`** hold the theorems (section 6).
`MC...` modules give constants their values. Definitions that follow a comment
`Mutant:` are plausible mistakes in the definition below them, not part of the
specification: each is there to show that a property notices it.

## 4. Runs

| Run | Question | Bounds |
|---|---|---|
| `scheduler_safety` | do the table, the registry, cancellations, slots, wake-ups and both published positions stay consistent; is the life cycle implemented; does every queued Job leave the queue and every cancellation take effect? | 2 Jobs, 2 priorities, ties, 1 or 2 slots or execution off, 3 starts, 1 change of configuration, a list of 1 |
| `scheduler_lowered_maximum` | does the queue resume after `COMPETITION_MAX_AGENTS` is lowered? **No** | 2 Jobs |
| `approval_safety` | does the lock exclude; is what is approved merged, as evaluated and into the target branch; is what should be cleaned up gone or reported; is every request answered? | 1 task with 2 candidates, 3 requests, 1 act of a person, 1 crash |
| `approval_two_tasks` | is every merge onto the evaluated base? **No** | 2 tasks, 1 candidate each, 2 requests |
| `candidate_page` | does an approval merge what was shown when it was confirmed? | 2 tasks, 1 request unanswered at a time, 1 act of somebody else or extra load |
| `candidate_page_reject` | does a rejection discard what was shown? **No** | the same |
| `stream_safety` | is the stream contiguous, does the page show what it has passed, and the end; do sessions and Jobs end together? | window 3, page 2, 7 identifiers, 1 restart, 1 loss |
| `stream_missed_end` | is a page that has read everything right also when the Router restarts? **No** | window 6, page 6, 6 identifiers, 1 restart |
| `process_runner` | is there one result, reported as a kill when there was one, no late kill, and an end? | budget 3, pieces of 1 or 2, 6 in all |
| `execution` | what runs, what is left behind, what is recorded and what followers see, whatever fails and whenever the Job is cancelled; does it end? | 2 Agents, host and docker, single and competition, up to 2 JavaScript files, plans of up to 2 checks |
| `execution_cancelled_failure` | does cancelled work never count as a failure? **No** | the same |
| `judgement` | does nothing bad help, does the winner depend on nothing it should not, does the review agree, does the history count failures? | 3 Agents, 2 categories, 3 rules, 2 histories, 9 kinds of work |

Why the bounds suffice. Two Jobs are the smallest set where one runs while the
other waits, is made or is retried, and with two slots they end in either order;
with one slot one waits behind the other, which is what the order and the
progress of the queue are about; a list of one shows what a position says of a
Job that is off the list. That nothing new happens with more Jobs, slots or
starts is what the theorems of section 6 say of every safety property of the run.
Three requests on one lock are one inside, one queued and one
that queues while the first leaves, which is where the map entry is deleted; two
candidates are a clean-up in which one fails and the other does not, or in which
the winner changes. One act of a person falls at any of the awaits; sequences of
them (an edit, its undoing and another edit, or a checkout and back) are for the
proofs, which hold for any number of them. On the page, two tasks are the one shown and the one typed;
one unanswered request is what the page allows itself, and one extra load is
enough for two answers to cross. The theorems cover more of each, of every window
of events and of every set of Agents and works. A window of three overflows in every run of a
Job (four events come with its submission alone); the configuration asks for at
least 50. The page keeps fewer than the session there, as it does wherever
`REALTIME_EVENT_LIMIT` is above the page's 300; the other order, where events the
session has dropped are still shown, is in the theorem, which is about any two
limits. The
run that shows a missed end uses a window that does not overflow, so eviction
plays no part. Two Agents make a competition in which one fails
before, between or after the other and a cancellation falls between them; a
third adds no further place in the loop. Two files are one whose syntax is
checked and one that is still to be when the abort comes. Two checks are the installation and a
script, of which one is skipped when the other fails. In `process_runner` the
budget is smaller than what may be written, and is not a multiple of the pieces.
In `judgement` histories lie on both sides of `MinSamples`, two Agents have the
same capabilities so that every tie is reached, registry order and alphabetical
order differ, and one pair of works ties in the competition score with different
quality; an eligible run may have taken no time, which is the case that
`OrderDecidesNothing` and `ReviewAgrees` leave out. Every counter that would grow for ever has a bound named in the
constants (`MaxBoots`, `MaxEdits`, `MaxUserActions`, `MaxCrashes`,
`MaxRequests`, `MaxExtras`, `MaxEvents`, `MaxRestarts`, `MaxDrops`, `MaxReceived`, `MaxFiles`), used as a guard. Deadlock is not checked in
the runs of the scheduler, of approval and of the stream: when the bounds are used
up and every Job is over the system rests, as it should. The other modules name
the end of what they model as a step (`Done`, `Finished`) and are checked for
deadlock.

What the runs marked **No** show is listed under `findings` in `PROJECT.json`,
each with the sentence of the documentation it disagrees with:

- a queued competition Job that names more Agents than a lowered limit makes
  every start fail, so no Job resumes;
- two tasks of one repository, approved together, merge onto each other: the
  lock is per task and the target is checked before, not by, the merge (a person's
  checkout or commit between the two has the same effect; in the run nobody
  acts, so that it is the Router's own doing);
- on the candidate page, Reject decides about the id that is typed, not about the
  review that is shown, and carries no fingerprint that would tell the two apart;
- after a restart, a page that names an identifier of the old session is not
  told the end of the new one;
- a single Job that is cancelled while its fingerprint is captured, where the
  capture fails, records a run with status `evaluation_failed`, which the
  performance statistics count as a failure.

The models also have behaviours that no run asks about, because the property one
would state is not what the code sets out to do:

- a person who checks out another branch after the target was checked for the last
  time (`approval.service.js:270`) has the candidate merged into that branch
  (`:276`), and the task is recorded as approved (`Checkout`, `meddled`);
- a person whose edit of the candidate is staged (`:200`), undone before the files are
  captured (`:210`) and made again before they are compared with the index (`:217`) has
  it committed and merged unreviewed (`EditCandidate`, `meddled`);
- after an abort the syntax checks of the remaining files are started all the same
  (`static.evaluator.js:202`, `:226`): `AbortStartsNothing` allows these and nothing
  else;
- where the session keeps more events than the page, the page cuts off some that
  the session still has (`Latest`): `SeenEventsAreShown` is about those that fit;
- events of an evaluation, and those after a cancellation request, set a session
  back to `running` while the row says `evaluating` or `cancel_requested`
  (`run-session.service.js:273`); only the end is checked (`SessionEndsAsJob`);
- cancelling a cancelled Job whose session has expired creates a session that is
  over, has no time of completion and so never expires (`CancelAgain`);
- after a restart the page takes the events of the new session for those of the
  old one with the same identifiers and drops them (`Shown`), so that its end is
  shown only through the snapshot it then asks for: `EndIsShown` is about a
  Router that does not restart;
- worktrees of a cancelled execution have no row, so clean-up never learns of
  them (`HistoryIsClosed` excludes the case);
- after a removal that failed, the name of the container of the Ollama check
  is taken and every later Agent of the competition fails (`Spawn`);
- when the winner's row and the completion of its competition both could not be
  written, the review derives the runner-up and offers it;
- two tied candidates without a positive duration (a run that took no
  millisecond, or a clock that was set back) are ranked by the order in which they
  ran, although src/README.md:306 has ties end with the Agent ID; and where one of
  them took exactly zero the review, which keeps the zero, may derive the other
  one and refuse the approval as inconsistent. `OrderDecidesNothing` and
  `ReviewAgrees` are about measured runs (`Measured`): without that condition TLC
  finds both violated by two such candidates with equal scores;
- clean-up that fails, or is cut off by a crash, is not tried again, and what is
  left stays (`CleanWorktreeFails`, `CleanBranch`, `Crash`): a failure is in the
  answer (`CleanedOrReported`), a crash is not;
- a merge whose decision could not be stored leaves a pending task that may be
  rejected although it is in the target branch (`Decision!Reject` allows it);
- when HEAD cannot be read after the merge, the answer is that the merge failed;
- a merge that git refuses because another one is open is answered with an abort,
  which undoes the other one, whoever began it (`AbortMerge`);
- a failure or crash between the candidate commit and the merge leaves a
  candidate whose HEAD is not the base: it can only be rejected;
- when the load after a decision fails, the page shows the review as it was
  before;
- an error while the queue positions are reported would skip the next wake-up
  (`job-scheduler.service.js:166`); only an unreadable row causes one, and such a
  row stops the start already;
- a call of `runProcess` whose process leaves a descendant that holds its pipes
  stays open after its timeout, and so does the Job (`Stuck`).

## 5. Fairness

`JobScheduler!Fairness`: weak fairness of a scheduled dispatch and its steps
and of shutdown and start, because the event loop runs what is queued; strong
fairness of each `Settle`, because every process an execution waits for has a
time-out and its continuation competes for the thread with any number of
wake-ups. What a time-out gives is exactly `ProcessRunner!Settles`: the call ends
unless a kill fails or a descendant of the process keeps the pipes open, and
progress of the queue is claimed for executions without either. Users owe nothing: submit, cancel and retry are not fair, nor is a
crash. `Approval!FairSpec`: weak fairness of the steps of each request; every
git command has a time-out (`GIT_TIMEOUT_MS`). `RequestsEnd` is that again and again
no request is under way, so it speaks of every request and not only of the first. `RunStream!Fairness`: weak
fairness of what the browser does by itself: an EventSource tries again and
messages and answers arrive; expiry and the Job are not fair.
`ProcessRunner!Fairness`: timers fire, events of a child arrive, and a process that
a kill reached ends; nothing is assumed of others. `Execution!Spec`: weak fairness
of its steps, each of which ends an await of a command with a time-out or of the
file system; the cancellation is not fair. `Judgement` has no liveness. Crashes, losses
and what people do are bounded, not fair.

## 6. Proofs

The scheduler, for any finite set of Jobs, any priorities, any configurations
and any number of restarts, from `SchedulerAssumption` alone (identifiers are
integers, `NoJob` is not one, a configuration has a positive limit):

- `TypeCorrect`: `TypeOK` is inductive; one step per action of `Next`.
- `RegistryAgrees`: rows and registry are not inductive on their own. That the
  right row leaves the registry needs that a claimed Job is `starting`, not yet
  registered, and that only a running Router dispatches; `RegistryInv` adds
  these.
- `ConcurrencyBounded`: the slots count registered executions, not rows.
  `SlotInv` bounds the registered and the claimed Jobs together, from the guard
  of `dispatch()`; `RegistryInv` then says that these are the rows under way.
- `WakeupsKept`: inductive given `RegistryInv`; a step either frees no slot and
  adds no work, or wakes.
- `TerminalStatusFinal`, `CancellationHonoured`, `QueueSurvivesRestart`: from
  one table of how a row may move (`RowMoves`), proved for every action. What a
  late result may do rests on `SettleSeesStatus`: an execution that comes back
  finds its row under way exactly as long as `shutdown()` has not given up on it.
- `RetriesHaveLineage`: a new row refers to an ended one, and ended rows stay
  (`LineageOfNewRow`, `LineageUntouched`).
- `RefinesLifecycle`: each action maps to an action of `JobLifecycle` or to a
  stutter; the slot of `Begin` comes from `ConcurrencyBounded`'s invariant.

Approval, for any tasks, candidates, repositories, requests, edits and crashes,
from `ApprovalAssumption`:

- `MutualExclusion`: the chain of promises is not ordered by anything in the
  state, so `LockInv` states that some rank of the queued requests decreases along
  `previous` and that the last of a task's chain is in `taskLocks`. Every step
  either keeps the rank or gives the new request the highest.
- `ApprovalIsMerge`: an approved task has what was evaluated in the target branch,
  unless somebody meddled (section 3). `DataInv` says what each await of `approve()` may rely on
  (`CallInv`), that only the winner is committed and only the committed merged
  (`CandidateInv`), and that a winner stays (`TaskInv`). It needs the lock: another
  request of the task inside would change the index under the first.
- `CleanupIsReported`: `CleanInv` splits the rows a clean-up read into those still
  to do, the one at work and those that are gone or reported.
- `ApprovalImplementsDecision`: with both, each step is a merge, an approval, a
  rejection, a discard, an act that no check can see or a stutter of `Decision`.

`ApprovesWhatIsShown`, for any tasks, requests and answers under way: an approval
on its way carries the fingerprint of the review that was shown, and the Router
compares it with the one of the task it names.

One call of `runProcess`, for any budget and pieces: `OutputAccounted`,
`KillsReported`, `NoLateKill` and `RunnerImplementsResult`, from `RunnerInv`. While
the call is open the abort flag is the signal (`Armed`) and a kill has left its
reason in a flag (`Reasons`); settling disarms the timer and the listener. What is
kept is the smaller of what came and the budget, which every piece preserves.

One execution, for any Agents, any maximum and any plans of checks, from
`ExecutionAssumption` (the names of Agents, checks, containers and the syntax check differ, and an
evaluation that starts a container has a check to run): `NothingOutlives`,
`WinnersAreReviewable`, `CancellationRecordsNothing`, `HistoryCloses`,
`RunsAreMatched` and `AgentsEndOnce` from `ExecutionInv`, and
`CancelledStartsNothing`, which leaves out the syntax checks of the evaluation under
way and nothing else. The promises are about the end, so the invariant is
what makes each end keep them: where the execution stands in the loop
(`Control`), what has no removal before it any more (`Machine`), what a success
says of the process (`Work`), and that the i-th result belongs to the i-th Agent,
whose end was reported and whose worktree it names (`Records`). An Agent's turn
goes on in four ways, each a lemma (`Moved`, `Pushed`, `SingleEnds`,
`CancelledEnds`), so that every action has only to show which one it takes.

The stream, for any two limits of events, of the session and of the page, any
length of a run and any number of reconnections and restarts, from
`SessionAssumption` and `StreamAssumption`: `StreamContiguous`,
`SeenShown`, `QuietCurrent` and `SessionEnds` from `StreamInv`. None of them is
inductive. The identifiers of a session's events are consecutive and end before
`nextEventId` (`KeptInv`); what is in the channel of a page that follows the
session is the rest of these events, from the one after the last the page has
heard, or a snapshot and then that rest (`ChannelInv`); the page's last identifier
is of the session, and a page that has them all shows the end (`PositionInv`);
and, until a restart, its list has the last `PageLimit` of what it got past
(`ShownInv`).
Filters are by identifier and identifiers are consecutive, so `EventsAfter` is
stated as the suffix it is, and no proof has to look into a filter.

The positions: `PositionsInOneOrder`, for any Jobs, priorities and ties, from
`SchedulerAssumption` and `ListAssumption`. `Precedes` is a strict total order on
the queued Jobs, a finite set has one sorted sequence, and the Jobs before the
i-th element of it are the i - 1 elements in front.

The judgement, for any Agents, categories, rules, weights, sample sizes, histories
and works, from `RoutingAssumption`, `EvidenceAssumption` and
`JudgementAssumption` (finite sets, weights that are percentages):

- `WinnerClean`: `JudgeInv` says that each Agent ran once, in the order of its
  selection, that nothing but its work makes a candidate eligible, and that what
  is stored is the comparison of all. A work that is eligible in the end has no
  hard finding, has no sensitive or outer path, since a finite set that is counted
  zero is empty, and has been hashed (`EligibleIsClean`).
- `OrderIrrelevant`: on measured runs of different Agents the ranking is total, so
  at most one candidate has none before it (`RankIsTotal`, `OnlyBestWins`); another
  order of the same candidates keeps the fastest time, and with it every score
  (`Reordered`).
- `ReviewsAgree`: on measured runs the stored rows and the ranked list differ in
  nothing that either comparison sees.
- `FailuresNeverHelp`: `RoutingScoreNoBetter`. A run without a score is counted as
  zero in the same sums over the same rows, and the quotients, their rounding and
  the clamp are monotone. It compares one row with and without its score; a further
  row without one may raise the score, by making `ADAPTIVE_MIN_SAMPLES`. Were failures left out of the average, its denominator
  would shrink: that is the mutant of this property.
- `OneRanking`, which no run states: the score, then the place in the registry, is a
  strict total order on the Agents (the places are different), and a finite ordered
  set has one sorted sequence, since the place of an Agent is the number of those
  ahead of it. `Rankings` and `Chosen` are therefore never empty and
  never a choice: the selection of `Route` neither blocks nor branches on the sort.

Sums are folds, and the library states induction with an operator as parameter,
which the provers cannot instantiate. Here they are proved without it: the fold
is a table over the subsets of a finite set, and of the subsets for which a claim
were false some would be smallest (`SmallestSet`, from the well-foundedness of the
strict subset ordering); `SumSteps`, `SumType`, `SumPositive` and `SumMonotone` are
shown on that one.

Only model-checked: all liveness, which is out of the prover's reach
(`QueuedJobsProgress`, `CancellationTakesEffect`, `RequestsEnd`, `EndIsShown`,
`Settles`, `Ends`). Every safety property of a passing run is a theorem.

## 7. Not modelled

Left out for good: registry and adapters, the Ollama client, HTTP validation and
rendering, which keep no state; migrations, which run synchronously before
anything else, each in one transaction behind statements that may be repeated;
several Routers on one database, which the repository declares unsupported; loss
of the disk. `RunCoordinatorService` is superseded by the Job manager; the direct
`/api/tasks/execute` and `/compete` call an execution without the queue: it is the
same there, except that nothing can cancel it and no limit counts it. The queue page polls and shows what it gets.
Of modelled parts: how words match a rule, what a snapshot copies, docker's
arguments, hashing, and the attempts at a free worktree name.

A crash of the Router is part of `JobScheduler`, `Approval` and `RunStream`, not of
`Execution`: nothing in the code takes up an execution again, its task row stays
`running`, and its worktree and containers stay, so there is no recovery to
check.

Abstractions to keep in mind: a git command of `Approval` does its work or throws
before doing any, but for the merge and the removal, which may stop half way (a
time-out after the work shows as the failure of the next command); one page and one run in
`RunStream`; a listener is removed in the step in which its connection is lost.
People edit files of a candidate but do not stage them: what somebody else staged
between the comparison with the review and `getStagedDiff`
(`approval.service.js:225`) would be committed with the rest.
In `Execution` verdicts are any, and which eligible candidate wins is any; in
`Judgement` they are computed, and nothing is lost on the way. Scores are exact
decimals with the code's rounding, not binary floating point. A list of changes
is taken to fit the output budget of a git command.
