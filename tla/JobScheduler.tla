---------------------------- MODULE JobScheduler ----------------------------
(***************************************************************************)
(* The persistent Job queue and its scheduler: the jobs table              *)
(* (job.service.js, job-state.service.js), the in-memory scheduler         *)
(* (job-scheduler.service.js), the commands that reach it                  *)
(* (job-manager.service.js) and the process around them (server.js).       *)
(*                                                                         *)
(* Node runs one piece of JavaScript at a time and better-sqlite3 is       *)
(* synchronous, so a step is the code between two returns to the event     *)
(* loop.  The exception is dispatch(): it commits several transactions in  *)
(* one turn, and a crash may fall between them.  Its steps are separate    *)
(* and `dispatching' keeps every other handler out, which is what the      *)
(* single thread does.                                                     *)
(*                                                                         *)
(* Run sessions, event wording, task text and timestamps other than the    *)
(* creation time are left out: the scheduler treats them as best effort.   *)
(***************************************************************************)
EXTENDS Integers, FiniteSets

CONSTANTS
  JobIds,       \* the identifiers Jobs may be given; their order breaks ties
  NoJob,        \* SQL NULL in parent_job_id, and `no Job claimed'
  Priorities,   \* the priorities callers use, a part of 0..100
  AgentCounts,  \* lengths of requested_agents; 0 is a single-Agent Job
  MaxActive,    \* the largest JOB_MAX_CONCURRENT the configuration accepts
  Configs,      \* the environments the operator may start the Router in
  MaxBoots,     \* bound: the number of times the Router is started
  MaxEdits      \* bound: the number of times that environment is edited

\* JOB_MAX_CONCURRENT, COMPETITION_MAX_AGENTS, AGENT_EXECUTION_ENABLED
ConfigType == [maxConcurrent : 1..MaxActive, maxAgents : Nat \ {0}, enabled : BOOLEAN]

ASSUME SchedulerAssumption ==
  /\ JobIds \subseteq Int /\ IsFiniteSet(JobIds) /\ NoJob \notin JobIds
  /\ Priorities \subseteq Int /\ Priorities # {}
  /\ AgentCounts \subseteq Nat
  /\ MaxActive \in Nat /\ Configs \subseteq ConfigType
  /\ MaxBoots \in Nat /\ MaxEdits \in Nat

VARIABLES
  \* the jobs table
  status,       \* column status; "absent" when there is no such row
  priority,     \* column priority
  created,      \* column created_at
  agents,       \* column requested_agents, as its length
  attempt,      \* column attempt
  parent,       \* column parent_job_id
  clock,        \* the created_at of the youngest row
  \* the Router process
  proc,         \* running: started; stopping: shuttingDown; stopped: shutdown() returned
  active,       \* keys of the scheduler's active Map
  aborted,      \* the active Jobs whose AbortController has fired
  wakePending,  \* dispatchScheduled: a setImmediate callback is queued
  dispatching,  \* dispatch() has the thread
  claimed,      \* the Job dispatch() has claimed and not yet launched
  \* its environment
  config,       \* the environment variables the Router is started with
  boots,        \* how many times it has been started
  edits         \* how many times that environment has been edited

columns  == <<priority, created, agents, attempt, parent, clock>>
memory   == <<active, aborted, wakePending, dispatching, claimed>>
settings == <<config, boots, edits>>
vars     == <<status, columns, proc, memory, settings>>

-----------------------------------------------------------------------------
(* job-state.service.js *)

\* Mutant: a Job may be retried while its cancellation is still pending.
RetryableTooSoon == {"failed", "cancelled", "interrupted", "cancel_requested"}

Active    == {"starting", "running", "evaluating", "cancel_requested"}
Terminal  == {"completed", "failed", "cancelled", "interrupted"}
Retryable == {"failed", "cancelled", "interrupted"}
Statuses  == {"queued"} \union Active \union Terminal

JobTransitions ==
  [queued           |-> {"starting", "cancelled"},
   starting         |-> {"running", "failed", "cancel_requested", "interrupted"},
   running          |-> {"evaluating", "completed", "failed", "cancel_requested", "interrupted"},
   evaluating       |-> {"completed", "failed", "cancel_requested", "interrupted"},
   cancel_requested |-> {"cancelled", "failed", "interrupted"},
   completed        |-> {},
   failed           |-> {},
   cancelled        |-> {},
   interrupted      |-> {}]

CanTransition(from, to) == from \in Statuses /\ to \in JobTransitions[from]

-----------------------------------------------------------------------------
(* job.service.js: the table and its queries *)

InStatus(S) == {j \in JobIds : status[j] \in S}
Queued      == InStatus({"queued"})
UnderWay    == InStatus(Active)

\* ORDER BY priority DESC, created_at ASC, id ASC
Precedes(j, k) ==
  \/ priority[j] > priority[k]
  \/ priority[j] = priority[k] /\ created[j] < created[k]
  \/ priority[j] = priority[k] /\ created[j] = created[k] /\ j < k

IsNextQueued(j) == j \in Queued /\ \A k \in Queued \ {j} : Precedes(j, k)

\* Mutant: the COUNT query without the tie of Jobs created in the same millisecond.
QueuePositionOrTies(j) ==
  1 + Cardinality({k \in Queued : \/ priority[k] > priority[j]
                                  \/ /\ priority[k] = priority[j]
                                     /\ created[k] < created[j]})

\* The COUNT(*) + 1 query that the queue page shows.
QueuePosition(j) ==
  1 + Cardinality({k \in Queued : \/ priority[k] > priority[j]
                                  \/ /\ priority[k] = priority[j]
                                     /\ created[k] < created[j]
                                  \/ /\ priority[k] = priority[j]
                                     /\ created[k] = created[j] /\ k < j})

Transition(j, to) ==
  /\ CanTransition(status[j], to)
  /\ status' = [status EXCEPT ![j] = to]

TransitionAll(S, to) ==
  status' = [j \in JobIds |-> IF j \in S THEN to ELSE status[j]]

\* parseRequestedAgents rejects a stored list longer than the limit in force
\* now, whatever the limit was when the row was written.
Readable(j) == agents[j] <= config.maxAgents

\* Mutants: a restart puts the Jobs it finds under way back into the queue;
\* the query for them forgets a status.
RequeueInterruptedJobs ==
  /\ \A j \in UnderWay : Readable(j)
  /\ TransitionAll(UnderWay, "queued")

MarkMostInterruptedJobs ==
  /\ \A j \in UnderWay : Readable(j)
  /\ TransitionAll(InStatus(Active \ {"cancel_requested"}), "interrupted")

\* One transaction that reads every active row and ends it.
MarkInterruptedJobs ==
  /\ \A j \in UnderWay : Readable(j)
  /\ TransitionAll(UnderWay, "interrupted")

\* Two Jobs created in the same millisecond share created_at.
CreateJob(j, p, n, a, par) ==
  /\ status[j] = "absent"
  /\ n <= config.maxAgents
  /\ status'   = [status   EXCEPT ![j] = "queued"]
  /\ priority' = [priority EXCEPT ![j] = p]
  /\ agents'   = [agents   EXCEPT ![j] = n]
  /\ attempt'  = [attempt  EXCEPT ![j] = a]
  /\ parent'   = [parent   EXCEPT ![j] = par]
  /\ \E now \in {clock, clock + 1} :
        clock' = now /\ created' = [created EXCEPT ![j] = now]

-----------------------------------------------------------------------------
(* job-scheduler.service.js *)

\* A request handler or callback runs only when no other code has the thread.
EventLoopFree == ~dispatching

Serving == proc \in {"running", "stopping"} /\ EventLoopFree

\* Mutant: no wake-up while every slot is taken, though the caller is about to
\* free one.
WakeWhenFree ==
  wakePending' = (wakePending \/ (/\ proc = "running" /\ config.enabled
                                  /\ Cardinality(active) < config.maxConcurrent))

Wake == wakePending' = (wakePending \/ (proc = "running" /\ config.enabled))

Submit(j, p, n) ==
  /\ Serving /\ config.enabled
  /\ CreateJob(j, p, n, 1, NoJob)
  /\ Wake
  /\ UNCHANGED <<proc, active, aborted, dispatching, claimed, settings>>

Retry(original, j, p) ==
  /\ Serving /\ config.enabled
  /\ status[original] \in Retryable
  /\ CreateJob(j, p, agents[original], attempt[original] + 1, original)
  /\ Wake
  /\ UNCHANGED <<proc, active, aborted, dispatching, claimed, settings>>

UpdatePriority(j, p) ==
  /\ Serving
  /\ status[j] = "queued"
  /\ priority' = [priority EXCEPT ![j] = p]
  /\ Wake
  /\ UNCHANGED <<status, created, agents, attempt, parent, clock,
                 proc, active, aborted, dispatching, claimed, settings>>

\* requestCancellation decides by the stored status.  A failed, interrupted or
\* completed Job makes it throw, and nothing changes.
CancelQueued(j) ==
  /\ status[j] = "queued"
  /\ Transition(j, "cancelled")
  /\ UNCHANGED aborted

\* Mutant: the row is written and the execution is not told.
CancelActiveUndelivered(j) ==
  /\ status[j] \in Active
  /\ \/ status[j] = "cancel_requested" /\ UNCHANGED status
     \/ Transition(j, "cancel_requested")
  /\ UNCHANGED aborted

CancelActive(j) ==
  /\ status[j] \in Active
  /\ \/ status[j] = "cancel_requested" /\ UNCHANGED status
     \/ Transition(j, "cancel_requested")
  /\ aborted' = aborted \union ({j} \intersect active)

CancelCancelled(j) ==
  /\ status[j] = "cancelled"
  /\ UNCHANGED <<status, aborted>>

Cancel(j) ==
  /\ Serving /\ Readable(j)
  /\ CancelQueued(j) \/ CancelActive(j) \/ CancelCancelled(j)
  /\ Wake
  /\ UNCHANGED <<columns, proc, active, dispatching, claimed, settings>>

\* Mutant: dispatch() does not look at shuttingDown.
BeginDispatchAnyway ==
  /\ proc # "down" /\ EventLoopFree /\ wakePending
  /\ wakePending' = FALSE
  /\ dispatching' = TRUE
  /\ UNCHANGED <<status, columns, proc, active, aborted, claimed, settings>>

\* The setImmediate callback of wake().
BeginDispatch ==
  /\ proc # "down" /\ EventLoopFree /\ wakePending
  /\ wakePending' = FALSE
  /\ dispatching' = (proc = "running")
  /\ UNCHANGED <<status, columns, proc, active, aborted, claimed, settings>>

\* Mutant: off by one.
SlotFreeOneMore == Cardinality(active) <= config.maxConcurrent

SlotFree == Cardinality(active) < config.maxConcurrent

ClaimNextQueuedJob(j) ==
  /\ dispatching /\ claimed = NoJob
  /\ SlotFree
  /\ IsNextQueued(j)
  /\ Transition(j, "starting")
  /\ claimed' = j
  /\ UNCHANGED <<columns, proc, active, aborted, wakePending, dispatching, settings>>

\* launch() calls execute(), which reaches `running' before its first await;
\* the entry in the active Map follows in the same turn.
Launch ==
  /\ claimed # NoJob
  /\ Transition(claimed, "running")
  /\ active' = active \union {claimed}
  /\ claimed' = NoJob
  /\ UNCHANGED <<columns, proc, aborted, wakePending, dispatching, settings>>

EndDispatch ==
  /\ dispatching /\ claimed = NoJob
  /\ ~SlotFree \/ Queued = {}
  /\ dispatching' = FALSE
  /\ UNCHANGED <<status, columns, proc, active, aborted, wakePending, claimed, settings>>

\* The evaluation_starting event of the pipeline.  A competition raises it once
\* per competitor; only the first finds the Job running.
EvaluationStarting(j) ==
  /\ proc # "down" /\ EventLoopFree
  /\ j \in active /\ status[j] = "running"
  /\ Transition(j, "evaluating")
  /\ UNCHANGED <<columns, proc, memory, settings>>

\* Both ways out of the await in execute(), the result and the exception, look
\* first at the signal and at the stored status.
CancellationSeen(j) == j \in aborted \/ status[j] = "cancel_requested"

\* Mutants: a row that has already ended is overwritten; a row that already says
\* cancel_requested is taken for one that has ended.
FinishCancelledAlways(j) ==
  /\ CancellationSeen(j)
  /\ status' = [status EXCEPT ![j] = "cancelled"]

FinishCancelledUnlessRequested(j) ==
  /\ CancellationSeen(j)
  /\ IF status[j] \in Active \ {"cancel_requested"}
     THEN status' = [status EXCEPT ![j] = "cancelled"]
     ELSE UNCHANGED status

\* An uncancelled row passes through cancel_requested in the same turn.
FinishCancelled(j) ==
  /\ CancellationSeen(j)
  /\ IF status[j] \in Active
     THEN status' = [status EXCEPT ![j] = "cancelled"]
     ELSE UNCHANGED status

FinishCompleted(j) ==
  /\ ~CancellationSeen(j)
  /\ Transition(j, "completed")

\* Mutants: an error hides a pending cancellation; the row takes the status of
\* the agent run, which is not always a Job status.
FinishFailedFirst(j) ==
  IF status[j] \in Terminal THEN UNCHANGED status ELSE Transition(j, "failed")

FinishFailedAsRun(j) ==
  /\ ~CancellationSeen(j)
  /\ IF status[j] \in Terminal THEN UNCHANGED status
     ELSE status' = [status EXCEPT ![j] = "timed_out"]

FinishFailed(j) ==
  /\ ~CancellationSeen(j)
  /\ IF status[j] \in Terminal THEN UNCHANGED status ELSE Transition(j, "failed")

\* The execution promise settles: execute() records the end and the finally
\* block of launch() frees the slot, all before the next event.
Settle(j) ==
  /\ proc # "down" /\ EventLoopFree
  /\ j \in active
  /\ FinishCancelled(j) \/ FinishCompleted(j) \/ FinishFailed(j)
  /\ active'  = active \ {j}
  /\ aborted' = aborted \ {j}
  /\ Wake
  /\ UNCHANGED <<columns, proc, dispatching, claimed, settings>>

-----------------------------------------------------------------------------
(* server.js: the process *)

\* SIGINT or SIGTERM.  Open connections are still served until shutdown()
\* returns.
BeginShutdown ==
  /\ proc = "running" /\ EventLoopFree /\ boots < MaxBoots
  /\ proc' = "stopping"
  /\ TransitionAll({j \in active : status[j] \in Active}, "cancel_requested")
  /\ aborted' = active
  /\ UNCHANGED <<columns, active, wakePending, dispatching, claimed, settings>>

\* Every execution has settled, or ten seconds have passed.
FinishShutdown ==
  /\ proc = "stopping" /\ EventLoopFree
  /\ proc' = "stopped"
  /\ TransitionAll({j \in active : status[j] \notin Terminal}, "interrupted")
  /\ UNCHANGED <<columns, memory, settings>>

LoseMemory ==
  /\ proc' = "down"
  /\ active' = {} /\ aborted' = {} /\ claimed' = NoJob
  /\ wakePending' = FALSE /\ dispatching' = FALSE

\* The close callback of the HTTP server closes the database.
CloseDatabase ==
  /\ proc = "stopped" /\ EventLoopFree
  /\ LoseMemory
  /\ UNCHANGED <<status, columns, settings>>

Crash ==
  /\ proc # "down" /\ boots < MaxBoots
  /\ LoseMemory
  /\ UNCHANGED <<status, columns, settings>>

\* The operator edits the environment of a Router that is not running.
Reconfigure(c) ==
  /\ proc = "down" /\ boots > 0 /\ edits < MaxEdits
  /\ config' = c /\ edits' = edits + 1
  /\ UNCHANGED <<status, columns, proc, memory, boots>>

\* start() runs before the HTTP server listens.  markInterruptedJobs reads every
\* active row, then listQueuedOrdered reads every queued row; an unreadable
\* row makes start() throw and ends the process.
Boot ==
  /\ proc = "down" /\ boots < MaxBoots
  /\ MarkInterruptedJobs
  /\ IF \A j \in Queued : Readable(j)
     THEN /\ proc' = "running"
          /\ boots' = boots + 1
          /\ wakePending' = config.enabled
     ELSE UNCHANGED <<proc, boots, wakePending>>
  /\ UNCHANGED <<columns, active, aborted, dispatching, claimed, config, edits>>

-----------------------------------------------------------------------------
\* The columns of a row that does not exist yet hold nothing anybody reads.
AnyPriority == CHOOSE p \in Priorities : TRUE

Init ==
  /\ status   = [j \in JobIds |-> "absent"]
  /\ priority = [j \in JobIds |-> AnyPriority]
  /\ created  = [j \in JobIds |-> 0]
  /\ agents   = [j \in JobIds |-> 0]
  /\ attempt  = [j \in JobIds |-> 0]
  /\ parent   = [j \in JobIds |-> NoJob]
  /\ clock    = 0
  /\ proc     = "down"
  /\ active = {} /\ aborted = {} /\ claimed = NoJob
  /\ wakePending = FALSE /\ dispatching = FALSE
  /\ config \in Configs
  /\ boots = 0 /\ edits = 0

Next ==
  \/ \E j \in JobIds, p \in Priorities, n \in AgentCounts : Submit(j, p, n)
  \/ \E j, k \in JobIds, p \in Priorities : Retry(k, j, p)
  \/ \E j \in JobIds, p \in Priorities : UpdatePriority(j, p)
  \/ \E j \in JobIds : Cancel(j)
  \/ BeginDispatch
  \/ \E j \in JobIds : ClaimNextQueuedJob(j)
  \/ Launch
  \/ EndDispatch
  \/ \E j \in JobIds : EvaluationStarting(j)
  \/ \E j \in JobIds : Settle(j)
  \/ BeginShutdown
  \/ FinishShutdown
  \/ CloseDatabase
  \/ Crash
  \/ \E c \in Configs : Reconfigure(c)
  \/ Boot

Spec == Init /\ [][Next]_vars

\* The event loop runs what is queued; process time-outs end every execution,
\* and its continuation gets its turn however many wake-ups take the thread in
\* between (strong fairness: the poll phase alternates with setImmediate);
\* shutdown() waits at most ten seconds; the operator starts a Router that is
\* down.  Callers, signals and crashes are under no obligation.
Fairness ==
  /\ WF_vars(BeginDispatch)
  /\ WF_vars(\E j \in JobIds : ClaimNextQueuedJob(j))
  /\ WF_vars(Launch)
  /\ WF_vars(EndDispatch)
  /\ \A j \in JobIds : SF_vars(Settle(j))
  /\ WF_vars(FinishShutdown)
  /\ WF_vars(CloseDatabase)
  /\ WF_vars(Boot)

FairSpec == Spec /\ Fairness

-----------------------------------------------------------------------------
(* Properties *)

\* Every variable has its type.
TypeOK ==
  /\ status   \in [JobIds -> Statuses \union {"absent"}]
  /\ priority \in [JobIds -> Priorities]
  /\ created  \in [JobIds -> Nat]
  /\ agents   \in [JobIds -> Nat]
  /\ attempt  \in [JobIds -> Nat]
  /\ parent   \in [JobIds -> JobIds \union {NoJob}]
  /\ clock    \in Nat
  /\ proc     \in {"down", "running", "stopping", "stopped"}
  /\ active   \in SUBSET JobIds
  /\ aborted  \in SUBSET JobIds
  /\ wakePending \in BOOLEAN
  /\ dispatching \in BOOLEAN
  /\ claimed  \in JobIds \union {NoJob}
  /\ config   \in Configs
  /\ boots    \in Nat
  /\ edits    \in Nat

\* While the Router serves, the rows with an active status are exactly the Jobs
\* that have an execution, or the one dispatch() is launching; and after
\* shutdown() no row is left active.
ActiveJobsAreTracked ==
  /\ proc \in {"running", "stopping"} => UnderWay = active \union ({claimed} \ {NoJob})
  /\ proc = "stopped" => UnderWay = {}

\* An execution has been told to stop exactly when the stored row says that a
\* cancellation is under way.
AbortMatchesStatus ==
  proc \in {"running", "stopping"} =>
    \A j \in active : j \in aborted <=> status[j] = "cancel_requested"

\* The jobs table and the in-memory registry agree: no row waits for a promise
\* that does not exist, no execution runs for a row that has ended, and no cancel
\* request is recorded but not delivered.
RegistryMatchesTable == ActiveJobsAreTracked /\ AbortMatchesStatus

\* JOB_MAX_CONCURRENT bounds the rows in an active status, across launches,
\* cancellations, shutdown and restart.
ConcurrencyLimit ==
  proc # "down" => Cardinality(UnderWay) <= config.maxConcurrent

\* No lost wake-up: whenever a Job waits while a slot is free, a dispatch is
\* queued on the event loop or has the thread (there is no polling timer).
NoLostWakeup ==
  proc = "running" /\ config.enabled /\ Queued # {} /\ SlotFree
    => wakePending \/ dispatching

\* A retry is one attempt after a parent that has ended and still stands as it
\* was when the retry was made; a first attempt has no parent.
RetryLineage ==
  \A j \in JobIds : status[j] # "absent" =>
    IF parent[j] = NoJob
    THEN attempt[j] = 1
    ELSE /\ status[parent[j]] \in {"failed", "cancelled", "interrupted"}
         /\ attempt[j] = attempt[parent[j]] + 1
         /\ agents[j] = agents[parent[j]]
         /\ created[parent[j]] <= created[j]

\* A Job that has ended keeps the status it ended with, whatever late result,
\* second cancellation, shutdown or restart follows.
TerminalIsFinal ==
  [][\A j \in JobIds : status[j] \in Terminal => status'[j] = status[j]]_vars

\* An accepted cancellation is never overtaken by a result or an error: the
\* Job ends cancelled, or interrupted if the Router goes away first.  And a Job
\* that is under way is cancelled only after cancellation was asked for.
CancellationIsHonoured ==
  [][\A j \in JobIds :
       /\ status[j] = "cancel_requested" =>
            status'[j] \in {"cancel_requested", "cancelled", "interrupted"}
       /\ status[j] \in Active /\ status'[j] = "cancelled" =>
            status[j] = "cancel_requested"]_vars

\* Nothing but a claim by a Router that is neither stopping nor down, or a
\* cancellation, takes a Job out of the queue: a shutdown starts no new work
\* and a crash or restart loses no queued Job.
QueueSurvives ==
  [][\A j \in Queued :
       \/ status'[j] \in {"queued", "cancelled"}
       \/ status'[j] = "starting" /\ proc = "running"]_vars

\* A queued Job does not stay queued for ever, unless execution is switched off.
QueuedJobsProgress ==
  \A j \in JobIds : status[j] = "queued" ~> status[j] # "queued" \/ ~config.enabled

\* A cancellation that was accepted takes effect.
CancellationTakesEffect ==
  \A j \in JobIds :
    status[j] = "cancel_requested" ~> status[j] \in {"cancelled", "interrupted"}

\* What the scheduler promises, without its machinery.
Phase(s) ==
  CASE s \in {"starting", "running", "evaluating"} -> "active"
    [] s = "cancel_requested" -> "cancelling"
    [] OTHER -> s

phases == [j \in JobIds |-> Phase(status[j])]

Lifecycle == INSTANCE JobLifecycle WITH phase <- phases

\* Every step of the scheduler is one step of the abstract life cycle, or none.
ImplementsLifecycle == Lifecycle!Spec
=============================================================================
