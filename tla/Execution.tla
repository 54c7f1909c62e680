----------------------------- MODULE Execution -----------------------------
(***************************************************************************)
(* What one Job's execution does between the scheduler's call and the end  *)
(* of that call: AgentExecutorService.executeTask for a single Agent and   *)
(* CompetitionService.compete for several, one after another, with the     *)
(* worktree, the process or the containers, the evaluation and the history *)
(* rows of each Agent.                                                     *)
(*                                                                         *)
(* pc names the await at which the execution stands. The scheduler's       *)
(* signal may be aborted at each of them; what the code does after it is   *)
(* one step, up to the next await. The labels in Synchronous are places    *)
(* the event loop cannot leave: the history is written synchronously, and  *)
(* an await of what has settled already lets no other request in.          *)
(*                                                                         *)
(* Every command, write and removal may fail. Router crashes are not part  *)
(* of this module: nothing recovers an execution (see README.md).          *)
(***************************************************************************)
EXTENDS Naturals, Sequences, FiniteSets

CONSTANTS Agents,       \* ids of the registry's Agents
          NoAgent,      \* null
          MaxAgents,    \* COMPETITION_MAX_AGENTS
          Checks,       \* containers of a project evaluation
          CheckPlans,   \* the sequences of them an evaluation may need
          MaxFiles      \* bound: changed JavaScript files of a candidate

ASSUME ExecutionAssumption ==
    /\ NoAgent \notin Agents
    /\ MaxAgents \in Nat \ {0}
    /\ CheckPlans \subseteq Seq(Checks) \ {<<>>}
    /\ Checks \cap Agents = {}
    /\ {"ollama", "snapshot", "syntax"} \cap (Agents \cup Checks) = {}
    /\ MaxFiles \in Nat

VARIABLES
    conf,         \* [mode, docker, enabled]: the kind of Job and the settings
    signal,       \* the scheduler's AbortSignal is aborted
    pc,           \* the await the execution stands at
    selected,     \* selectedAgents, in the order they run
    index,        \* how many of them have been started
    task,         \* status of the row in tasks
    winner,       \* its winner_agent_id
    runs,         \* the rows in agent_runs
    candidates,   \* results so far, in order
    worktrees,    \* Agents that have a worktree
    running,      \* processes and containers that run
    snapshot,     \* a sandbox snapshot exists
    call,         \* the process or container of this "process" or "remove"
    ended,        \* how it ended
    worked,       \* the Agent's process succeeded and did not commit
    files,        \* changed files whose syntax is still to be checked
    checks,       \* containers still to run
    status,       \* the candidate's status, when it is eligible
    terminals,    \* agent_completed and agent_failed events of each Agent
    leftover,     \* what a failing removal or git command left behind
    lost,         \* a history write failed
    outcome       \* how the call ended

vars == <<conf, signal, pc, selected, index, task, winner, runs, candidates,
          worktrees, running, snapshot, call, ended, worked, files, checks,
          status, terminals, leftover, lost, outcome>>

history == <<task, winner, runs, lost>>
plan    == <<conf, signal, selected>>
results == <<index, candidates>>
machine == <<worktrees, running, snapshot, leftover>>
work    == <<call, ended, worked, files, checks, status>>

Eligible == {"completed", "completed_with_warnings"}
Statuses == Eligible \cup {"evaluation_failed", "failed"}
Single   == conf.mode = "single"
Agent    == selected[index]

Init ==
    /\ conf \in [mode : {"single", "competition"}, docker : BOOLEAN,
                 enabled : BOOLEAN]
    /\ signal = FALSE
    /\ pc = "start"
    /\ selected = <<>> /\ index = 0
    /\ task = "none" /\ winner = NoAgent /\ runs = {}
    /\ candidates = <<>>
    /\ worktrees = {} /\ running = {} /\ snapshot = FALSE
    /\ call = NoAgent /\ ended = "none" /\ worked = FALSE
    /\ files = 0 /\ checks = <<>> /\ status = "failed"
    /\ terminals = [a \in Agents |-> 0]
    /\ leftover = {} /\ lost = FALSE
    /\ outcome = "pending"

-----------------------------------------------------------------------------
(* How the call ends, and what is written then.                            *)

End(how) == outcome' = how /\ pc' = "done"

\* An error before there is a task: the scheduler takes it for a
\* cancellation if the signal is aborted.
Raise ==
    /\ End(IF signal THEN "cancelled" ELSE "failed")
    /\ UNCHANGED history

\* Mutant: the task is not closed.
CancelledRethrown ==
    /\ End("cancelled")
    /\ UNCHANGED history

\* The catch of a cancelled execution closes the task, if it can.
Cancelled ==
    /\ End("cancelled")
    /\ \/ task' = "cancelled" /\ UNCHANGED lost
       \/ UNCHANGED task /\ lost' = TRUE
    /\ UNCHANGED <<winner, runs>>

\* persistSingleResult and persistCompetitionResults: every row is written
\* on its own, the i-th candidate under the i-th selected Agent.
Persist(cands, taskStatus, w, how) ==
    \E unwritten \in SUBSET DOMAIN cands, closed \in BOOLEAN :
        /\ runs' = {[agent |-> selected[i], result |-> cands[i]] :
                        i \in DOMAIN cands \ unwritten}
        /\ task' = IF closed THEN taskStatus ELSE task
        /\ winner' = IF closed THEN w ELSE winner
        /\ lost' = (lost \/ unwritten # {} \/ ~closed)
        /\ End(how)

WinnerOf(s, a) == IF s \in Eligible THEN a ELSE NoAgent

\* The Agent has a result: the end of a single execution, the next Agent of
\* a competition. `known' says that the result names the worktree.
Candidate(s, tracked, known) ==
    [agent |-> Agent, status |-> s, tracked |-> tracked, known |-> known]

Push(cand) ==
    /\ candidates' = Append(candidates, cand)
    /\ pc' = "next"
    /\ UNCHANGED <<history, outcome>>

Conclude(s, tracked) ==
    IF Single
    THEN /\ Persist(<<Candidate(s, tracked, TRUE)>>, s, WinnerOf(s, Agent),
                    "returned")
         /\ UNCHANGED candidates
    ELSE Push(Candidate(s, tracked, TRUE))

\* Mutant: a failed candidate is not pushed.
FailedForgotten(known) ==
    CASE signal -> Cancelled /\ UNCHANGED candidates
      [] ~signal /\ Single ->
            /\ Persist(<<Candidate("failed", FALSE, known)>>, "failed", NoAgent,
                       "failed")
            /\ UNCHANGED candidates
      [] OTHER ->
            /\ pc' = "next"
            /\ UNCHANGED <<history, outcome, candidates>>

\* The catch of executeTask or of compete's loop.
Failed(known) ==
    CASE signal -> Cancelled /\ UNCHANGED candidates
      [] ~signal /\ Single ->
            /\ Persist(<<Candidate("failed", FALSE, known)>>, "failed", NoAgent,
                       "failed")
            /\ UNCHANGED candidates
      [] OTHER -> Push(Candidate("failed", FALSE, known))

Emit == terminals' = [terminals EXCEPT ![Agent] = @ + 1]

\* Mutant: agentTerminalEventEmitted not looked at.
FailedTwice ==
    /\ IF signal THEN UNCHANGED terminals ELSE Emit
    /\ Failed(TRUE)

\* The catch of executeWithAgent, once there is a worktree: agent_failed,
\* unless the Agent's end was reported before or the Job was cancelled.
FailedInTry ==
    /\ IF signal \/ terminals[Agent] > 0 THEN UNCHANGED terminals ELSE Emit
    /\ Failed(TRUE)

\* throwIfAborted, and on to another await.
Proceed(label) ==
    IF signal
    THEN FailedInTry
    ELSE pc' = label /\ UNCHANGED <<history, candidates, terminals, outcome>>

Goto(label) ==
    /\ pc' = label
    /\ UNCHANGED <<history, candidates, terminals, outcome>>

-----------------------------------------------------------------------------
(* Before an Agent is at work.                                             *)

\* A competition validates its Agent list and whether execution is enabled
\* first; a single execution is only routed when it is not.
Start ==
    /\ pc = "start"
    /\ \/ /\ ~Single /\ Raise
       \/ /\ ~Single /\ ~conf.enabled
          /\ End("returned") /\ UNCHANGED history
       \/ /\ conf.enabled \/ Single
          /\ pc' = IF conf.enabled THEN "backend" ELSE "routing"
          /\ UNCHANGED <<history, outcome>>
    /\ UNCHANGED <<plan, results, machine, work, terminals>>

\* assertConfiguredAvailable; routing starts even if it took a while.
AssertBackend ==
    /\ pc = "backend"
    /\ \/ conf.docker /\ Raise
       \/ pc' = "routing" /\ UNCHANGED <<history, outcome>>
    /\ UNCHANGED <<plan, results, machine, work, terminals>>

Distinct(s) == Cardinality({s[i] : i \in DOMAIN s}) = Len(s)

\* analyzeTask and selectCandidates: the best available Agent, or the
\* available ones up to the maximum (or those asked for).
Selections ==
    UNION {{s \in [1..n -> Agents] : Distinct(s)} :
               n \in IF Single THEN {1} ELSE 2..MaxAgents}

Route ==
    /\ pc = "routing"
    /\ \/ Raise /\ UNCHANGED selected
       \/ /\ ~signal
          /\ End("returned")
          /\ UNCHANGED <<history, selected>>
       \/ /\ ~signal /\ conf.enabled
          /\ selected' \in Selections
          /\ pc' = "repository"
          /\ UNCHANGED <<history, outcome>>
    /\ UNCHANGED <<conf, signal, results, machine, work, terminals>>

\* validateRepository, then createTask.
OpenTask ==
    /\ pc = "repository"
    /\ \/ Raise
       \/ /\ ~signal
          /\ task' = "running"
          /\ pc' = "next"
          /\ UNCHANGED <<winner, runs, lost, outcome>>
       \/ /\ ~signal
          /\ lost' = TRUE
          /\ End("failed")
          /\ UNCHANGED <<task, winner, runs>>
    /\ UNCHANGED <<plan, results, machine, work, terminals>>

-----------------------------------------------------------------------------
(* Agent by Agent.                                                         *)

\* Mutant: no check behind the loop.
NextAgentUnchecked ==
    /\ pc = "next"
    /\ IF index < Len(selected) /\ signal
       THEN Cancelled /\ UNCHANGED index
       ELSE /\ pc' = IF index < Len(selected) THEN "available" ELSE "rank"
            /\ index' = index + IF index < Len(selected) THEN 1 ELSE 0
            /\ UNCHANGED <<history, outcome>>
    /\ UNCHANGED <<plan, candidates, machine, work, terminals>>

\* The head of the loop, and the abort check behind it.
NextAgent ==
    /\ pc = "next"
    /\ IF signal
       THEN Cancelled /\ UNCHANGED index
       ELSE /\ pc' = IF index < Len(selected) THEN "available" ELSE "rank"
            /\ index' = index + IF index < Len(selected) THEN 1 ELSE 0
            /\ UNCHANGED <<history, outcome>>
    /\ UNCHANGED <<plan, candidates, machine, work, terminals>>

\* executeWithAgent up to the worktree; errors carry no candidateContext.
AssertAgentBackend ==
    /\ pc = "available"
    /\ \/ Failed(FALSE)
       \/ ~signal /\ pc' = "worktree" /\ UNCHANGED <<history, candidates, outcome>>
    /\ UNCHANGED <<plan, index, machine, work, terminals>>

\* A git command that fails or is killed may leave a worktree behind.
CreateWorktree ==
    /\ pc = "worktree"
    /\ \/ /\ leftover' \in {leftover, leftover \cup {Agent}}
          /\ UNCHANGED worktrees
          /\ Failed(FALSE)
       \/ /\ worktrees' = worktrees \cup {Agent}
          /\ UNCHANGED leftover
          /\ IF signal
             THEN Failed(FALSE)
             ELSE pc' = "prepare" /\ UNCHANGED <<history, candidates, outcome>>
    /\ UNCHANGED <<plan, index, running, snapshot, work, terminals>>

\* createAdapterInput, buildInvocation and prepareExecution.
Prepare ==
    /\ pc = "prepare"
    /\ FailedInTry \/ Proceed("assert")
    /\ UNCHANGED <<plan, index, machine, work>>

-----------------------------------------------------------------------------
(* Processes and containers. A container is `docker run' under the process *)
(* runner, and `docker rm --force' in its finally.                         *)

Contained(name) == name # "syntax" /\ (conf.docker \/ name \notin Agents)

AfterRun(name) == IF Contained(name) THEN "remove" ELSE "exited"

\* Mutant: the aborted signal not looked at.
SpawnAnyhow(name) ==
    /\ call' = name
    /\ IF name \in running
       THEN ended' = "failure" /\ pc' = AfterRun(name) /\ UNCHANGED running
       ELSE ended' = "none" /\ pc' = "process" /\ running' = running \cup {name}
    /\ UNCHANGED <<history, candidates, outcome>>

\* runProcess: nothing is spawned for an aborted signal, and docker refuses
\* the name of a container that is still there.
Spawn(name) ==
    /\ call' = name
    /\ IF signal \/ name \in running
       THEN ended' = "failure" /\ pc' = AfterRun(name) /\ UNCHANGED running
       ELSE ended' = "none" /\ pc' = "process" /\ running' = running \cup {name}
    /\ UNCHANGED <<history, candidates, outcome>>

\* backend.run: the second check of the backend, validateWorktree and the
\* checks of command and environment, then the first process.
RunBackend ==
    /\ pc = "assert"
    /\ \/ /\ conf.docker
          /\ FailedInTry
          /\ UNCHANGED <<running, call, ended>>
       \/ /\ Spawn(IF conf.docker THEN "ollama" ELSE Agent)
          /\ UNCHANGED terminals
    /\ UNCHANGED <<plan, index, worktrees, snapshot, leftover, worked, files, checks,
                   status>>

\* It ends by itself; or its timeout or the abort kills it, which for a
\* container kills no more than the docker client.
ProcessEnds ==
    /\ pc = "process"
    /\ \/ /\ ended' \in {"success", "failure"}
          /\ running' = running \ {call}
       \/ /\ ended' = "failure"
          /\ running' = IF Contained(call) THEN running ELSE running \ {call}
    /\ pc' = AfterRun(call)
    /\ UNCHANGED <<plan, results, history, worktrees, snapshot, leftover, call, worked,
                   files, checks, status, terminals, outcome>>

\* Mutant: the signal passed to docker rm.
RemoveUnlessAborted ==
    /\ pc = "remove"
    /\ IF signal
       THEN UNCHANGED <<running, leftover>>
       ELSE \/ running' = running \ {call} /\ UNCHANGED leftover
            \/ /\ leftover' = leftover \cup (running \cap {call})
               /\ UNCHANGED running
    /\ pc' = "exited"
    /\ UNCHANGED <<plan, results, history, worktrees, snapshot, work, terminals,
                   outcome>>

\* removeContainer, whose result nobody looks at. It takes no signal.
Remove ==
    /\ pc = "remove"
    /\ \/ running' = running \ {call} /\ UNCHANGED leftover
       \/ /\ leftover' = leftover \cup (running \cap {call})
          /\ UNCHANGED running
    /\ pc' = "exited"
    /\ UNCHANGED <<plan, results, history, worktrees, snapshot, work, terminals,
                   outcome>>

\* Mutant: the check repeated until it succeeds.
OllamaRetried ==
    /\ pc = "exited" /\ call = "ollama"
    /\ IF ended = "failure" /\ ~signal
       THEN /\ pc' = "assert"
            /\ UNCHANGED <<history, candidates, outcome, running, call, ended,
                           terminals>>
       ELSE Spawn(Agent) /\ UNCHANGED terminals
    /\ UNCHANGED <<plan, index, worktrees, snapshot, leftover, worked, files, checks,
                   status>>

\* verifyOllama, then the Agent's container.
OllamaVerified ==
    /\ pc = "exited" /\ call = "ollama"
    /\ IF ended = "failure"
       THEN FailedInTry /\ UNCHANGED <<running, call, ended>>
       ELSE Spawn(Agent) /\ UNCHANGED terminals
    /\ UNCHANGED <<plan, index, worktrees, snapshot, leftover, worked, files, checks,
                   status>>

\* The Agent's end is reported and its changes are read.
AgentEnded ==
    /\ pc = "exited" /\ call \in Agents
    /\ IF signal
       THEN FailedInTry /\ UNCHANGED worked
       ELSE /\ Emit
            /\ worked' = (ended = "success")
            /\ pc' = "inspect"
            /\ UNCHANGED <<history, candidates, outcome>>
    /\ UNCHANGED <<plan, index, machine, call, ended, files, checks, status>>

-----------------------------------------------------------------------------
(* Evaluation.                                                             *)

\* The git commands in the worktree; an unexpected commit spoils the result.
\* What they find are the files that the static evaluation goes through.
InspectChanges ==
    /\ pc = "inspect"
    /\ \/ FailedInTry /\ UNCHANGED <<worked, files>>
       \/ /\ ~signal
          /\ worked' \in {worked, FALSE}
          /\ files' \in 0..MaxFiles
          /\ Goto("static")
    /\ UNCHANGED <<plan, index, machine, call, ended, checks, status>>

\* `node --check' of the next JavaScript file. runProcess is given no signal
\* here, and nobody looks at the signal between two files.
CheckSyntax ==
    /\ files > 0
    /\ files' = files - 1
    /\ call' = "syntax" /\ ended' = "none"
    /\ running' = running \cup {"syntax"}
    /\ Goto("process")

\* StaticEvaluator.evaluate, and the abort check behind it.
StaticChecks ==
    /\ pc = "static"
    /\ \/ FailedInTry /\ files' = 0 /\ UNCHANGED <<running, call, ended>>
       \/ files = 0 /\ Proceed("package") /\ UNCHANGED <<files, running, call, ended>>
       \/ CheckSyntax
    /\ UNCHANGED <<plan, index, worktrees, snapshot, leftover, worked, checks, status>>

SyntaxChecked ==
    /\ pc = "exited" /\ call = "syntax"
    /\ Goto("static")
    /\ UNCHANGED <<plan, index, machine, work>>

\* ProjectEvaluator.evaluate: package.json may ask for checks, or not.
ReadPackage ==
    /\ pc = "package"
    /\ \/ FailedInTry /\ UNCHANGED checks
       \/ Goto("evaluated") /\ UNCHANGED checks
       \/ Proceed("image") /\ checks' \in CheckPlans
    /\ UNCHANGED <<plan, index, machine, call, ended, worked, files, status>>

InspectImage ==
    /\ pc = "image"
    /\ Goto("snapshot") \/ Goto("evaluated")
    /\ UNCHANGED <<plan, index, machine, work>>

\* SandboxSnapshotService.create removes what it copied when it fails. The
\* evaluation goes on without checks then.
CreateSnapshot ==
    /\ pc = "snapshot"
    /\ \/ /\ \/ UNCHANGED <<snapshot, leftover>>
             \/ snapshot' = TRUE /\ leftover' = leftover \cup {"snapshot"}
          /\ Proceed("evaluated")
       \/ /\ snapshot' = TRUE
          /\ UNCHANGED leftover
          /\ Goto(IF signal THEN "cleanup" ELSE "mount")
    /\ UNCHANGED <<plan, index, worktrees, running, work>>

\* SandboxService.run: resolveSnapshotPath, then the container.
RunCheck ==
    /\ pc = "mount"
    /\ \/ Goto("cleanup") /\ UNCHANGED <<running, call, ended>>
       \/ Spawn(Head(checks)) /\ UNCHANGED terminals
    /\ UNCHANGED <<plan, index, worktrees, snapshot, leftover, worked, files, checks,
                   status>>

\* The next check, unless the dependencies could not be installed.
CheckEnded ==
    /\ pc = "exited" /\ call \in Checks
    /\ checks' = Tail(checks)
    /\ Goto(IF \/ signal
               \/ call = "install" /\ ended = "failure"
               \/ Len(checks) = 1
            THEN "cleanup" ELSE "mount")
    /\ UNCHANGED <<plan, index, machine, call, ended, worked, files, status>>

\* The finally of the sandboxed evaluation. A snapshot may be kept.
Cleanup ==
    /\ pc = "cleanup"
    /\ \/ snapshot' = FALSE /\ UNCHANGED leftover
       \/ leftover' = leftover \cup {"snapshot"} /\ UNCHANGED snapshot
    /\ Goto("evaluated")
    /\ UNCHANGED <<plan, index, worktrees, running, work>>

\* mapExecutionStatus
ExecutionStatus(verdict) ==
    CASE ~worked -> "failed"
      [] worked /\ verdict = "pass" -> "completed"
      [] worked /\ verdict = "warning" -> "completed_with_warnings"
      [] OTHER -> "evaluation_failed"

\* The last abort check of an Agent's execution.
Evaluated ==
    /\ pc = "evaluated"
    /\ \/ signal /\ FailedInTry /\ UNCHANGED status
       \/ \E verdict \in {"pass", "warning", "fail"} :
             /\ ~signal
             /\ UNCHANGED terminals
             /\ IF ExecutionStatus(verdict) \in Eligible
                THEN /\ status' = ExecutionStatus(verdict)
                     /\ pc' = "capture"
                     /\ UNCHANGED <<history, candidates, outcome>>
                ELSE /\ Conclude(ExecutionStatus(verdict), FALSE)
                     /\ UNCHANGED status
    /\ UNCHANGED <<plan, index, machine, call, ended, worked, files, checks>>

\* Mutant: the status kept when the capture fails.
CaptureOrNot ==
    /\ pc = "capture"
    /\ \E tracked \in BOOLEAN : Conclude(status, tracked)
    /\ UNCHANGED <<plan, index, machine, work, terminals>>

\* fingerprints.capture: an eligible candidate that cannot be identified is
\* no candidate.
Capture ==
    /\ pc = "capture"
    /\ Conclude(status, TRUE) \/ Conclude("evaluation_failed", FALSE)
    /\ UNCHANGED <<plan, index, machine, work, terminals>>

\* CompetitionEvaluator.evaluate: the best of the eligible candidates; which
\* is the best depends on scores that are not part of this module.
Winners ==
    LET eligible == {c \in {candidates[i] : i \in DOMAIN candidates} :
                         c.status \in Eligible}
    IN IF eligible = {} THEN {NoAgent} ELSE {c.agent : c \in eligible}

Rank ==
    /\ pc = "rank"
    /\ \E w \in Winners :
          Persist(candidates,
                  IF w = NoAgent THEN "no_valid_candidate" ELSE "completed", w,
                  "returned")
    /\ UNCHANGED <<plan, results, machine, work, terminals>>

-----------------------------------------------------------------------------
Synchronous == {"start", "next", "exited", "evaluated", "rank", "done"}

\* On the host, the checks of the backend settle at once.
SettledAtOnce == IF conf.docker THEN {} ELSE {"backend", "available", "assert"}

\* The scheduler aborts the signal: a cancel request or its shutdown.
Abort ==
    /\ ~signal
    /\ pc \notin Synchronous \cup SettledAtOnce
    /\ signal' = TRUE
    /\ UNCHANGED <<conf, pc, selected, results, history, machine, work, terminals,
                   outcome>>

Step ==
    \/ Start \/ AssertBackend \/ Route \/ OpenTask
    \/ NextAgent \/ AssertAgentBackend \/ CreateWorktree \/ Prepare
    \/ RunBackend \/ ProcessEnds \/ Remove \/ OllamaVerified \/ AgentEnded
    \/ InspectChanges \/ StaticChecks \/ SyntaxChecked \/ ReadPackage
    \/ InspectImage \/ CreateSnapshot \/ RunCheck \/ CheckEnded \/ Cleanup
    \/ Evaluated \/ Capture \/ Rank

Finished == pc = "done" /\ UNCHANGED vars

Next == Step \/ Abort \/ Finished

\* Every await settles: commands have timeouts (ProcessRunner), and file
\* system calls return.
Spec == Init /\ [][Next]_vars /\ WF_vars(Step)

-----------------------------------------------------------------------------
\* Once the Job is cancelled, no further Agent has its turn, and no Agent and
\* no container is started any more, wherever the execution stands. What may
\* still start are the syntax checks of the candidate under evaluation; git
\* commands and removals are not counted as started work.
AbortStartsNothing ==
    [][signal => running' \ running \subseteq {"syntax"} /\ index' = index]_vars

\* However an execution ends, it leaves no process, no container and no
\* snapshot, but those whose removal failed.
NothingLeftRunning ==
    outcome # "pending" =>
        /\ running \subseteq leftover
        /\ snapshot => "snapshot" \in leftover

\* The winner a reviewer is offered has passed the evaluation, has its
\* fingerprint and its worktree, and no Agent is at work there: a container
\* that could not be removed had been killed, and its candidate has failed.
WinnerIsReviewable ==
    winner # NoAgent =>
        /\ winner \in worktrees \ running
        /\ \A r \in runs : r.agent = winner =>
              r.result.status \in Eligible /\ r.result.tracked /\ r.result.known

\* A cancelled execution records no Agent run and no winner; and of an
\* aborted competition nothing is ever recorded (architecture.md:468-470).
CancelledLeavesNoResult ==
    outcome = "cancelled" \/ (outcome # "pending" /\ ~Single /\ signal) =>
        /\ outcome # "returned"
        /\ winner = NoAgent
        /\ runs = {}

\* Once the call has ended, the task's row says how, and every worktree that
\* was made is named by a row, which is how clean-up finds it: unless the
\* database refused to be told or, for the worktrees, the Job was cancelled.
HistoryIsClosed ==
    outcome # "pending" /\ ~lost =>
        /\ task # "running"
        /\ ~signal => \A a \in worktrees : \E r \in runs : r.agent = a /\ r.result.known

\* The rows are written by position: the i-th candidate under the i-th
\* selected Agent. Each Agent gets its own result, and a finished task has a
\* row for every Agent, whichever of them failed, and how early.
RunsMatchCandidates ==
    /\ \A r \in runs : r.result.agent = r.agent
    /\ task \in Statuses \cup {"no_valid_candidate"} /\ ~lost =>
          {r.agent : r \in runs} = {selected[i] : i \in DOMAIN selected}

\* Whoever follows the run sees an Agent end once: never twice, although
\* what follows the reported end may fail too, and always when its worktree
\* was there and the Job was not cancelled.
AgentEndsOnce ==
    /\ \A a \in Agents : terminals[a] <= 1
    /\ \A i \in DOMAIN candidates :
          candidates[i].known => terminals[candidates[i].agent] = 1

\* Every execution ends, whatever fails and whenever it is cancelled.
Ends == <>(outcome # "pending")

\* README.md:651: cancelled work does not create a failed Agent performance
\* record (performance.service.js counts every status that is not eligible).
CancelledIsNoFailure ==
    outcome # "pending" /\ signal =>
        \A r \in runs : r.result.status \in Eligible
=============================================================================
