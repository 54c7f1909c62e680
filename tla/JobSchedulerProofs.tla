------------------------- MODULE JobSchedulerProofs -------------------------
(***************************************************************************)
(* Theorems about JobScheduler, for every set of Jobs, every priority and  *)
(* every configuration: its invariants, the position of a Job in the queue,*)
(* and what one step may do to one row of the jobs table, with the action  *)
(* properties and the refinement of JobLifecycle that follow.              *)
(***************************************************************************)
EXTENDS JobQueueView, FiniteSetTheorems, FunctionTheorems, TLAPS

\* The only values the code moves a row to are statuses of the state table.
LEMMA TransitionType ==
  ASSUME TypeOK, NEW j \in JobIds, NEW to \in Statuses, Transition(j, to)
  PROVE  status' \in [JobIds -> Statuses \union {"absent"}]
BY DEF Transition, TypeOK

LEMMA TransitionAllType ==
  ASSUME TypeOK, NEW S, NEW to \in Statuses, TransitionAll(S, to)
  PROVE  status' \in [JobIds -> Statuses \union {"absent"}]
BY DEF TransitionAll, TypeOK

\* A new row has the types of its columns.
LEMMA CreateJobType ==
  ASSUME TypeOK, NEW j \in JobIds, NEW p \in Priorities, NEW n \in Nat,
         NEW a \in Nat, NEW par \in JobIds \union {NoJob},
         CreateJob(j, p, n, a, par)
  PROVE  /\ status'   \in [JobIds -> Statuses \union {"absent"}]
         /\ priority' \in [JobIds -> Priorities]
         /\ created'  \in [JobIds -> Nat]
         /\ agents'   \in [JobIds -> Nat]
         /\ attempt'  \in [JobIds -> Nat]
         /\ parent'   \in [JobIds -> JobIds \union {NoJob}]
         /\ clock'    \in Nat
BY DEF CreateJob, TypeOK, Statuses

\* TypeOK is inductive: each handler writes values of the declared types.
THEOREM TypeCorrect == Spec => []TypeOK
<1>1. Init => TypeOK
  <2>1. AnyPriority \in Priorities
    BY SchedulerAssumption DEF AnyPriority
  <2> SUFFICES ASSUME Init PROVE TypeOK
    OBVIOUS
  <2>2. /\ status \in [JobIds -> Statuses \union {"absent"}]
        /\ priority \in [JobIds -> Priorities]
        /\ created \in [JobIds -> Nat] /\ agents \in [JobIds -> Nat]
        /\ attempt \in [JobIds -> Nat]
        /\ parent \in [JobIds -> JobIds \union {NoJob}]
    BY <2>1 DEF Init
  <2>3. /\ proc \in {"down", "running", "stopping", "stopped"}
        /\ active \in SUBSET JobIds /\ aborted \in SUBSET JobIds
        /\ claimed \in JobIds \union {NoJob}
        /\ config \in Configs /\ boots \in Nat /\ edits \in Nat /\ clock \in Nat
    BY DEF Init
  <2>4. wakePending \in BOOLEAN /\ dispatching \in BOOLEAN
    BY DEF Init
  <2> QED
    BY <2>2, <2>3, <2>4 DEF TypeOK
<1>2. TypeOK /\ [Next]_vars => TypeOK'
  <2> SUFFICES ASSUME TypeOK, [Next]_vars PROVE TypeOK'
    OBVIOUS
  <2> USE DEF settings, memory, columns
  <2>1. ASSUME NEW j \in JobIds, NEW p \in Priorities, NEW n \in AgentCounts,
               Submit(j, p, n)
        PROVE  TypeOK'
    <3>1. n \in Nat
      BY SchedulerAssumption
    <3>2. CreateJob(j, p, n, 1, NoJob)
      BY <2>1 DEF Submit
    <3> QED
      BY <2>1, <3>1, <3>2, CreateJobType DEF Submit, Wake, TypeOK
  <2>2. ASSUME NEW j \in JobIds, NEW k \in JobIds, NEW p \in Priorities, Retry(k, j, p)
        PROVE  TypeOK'
    <3>1. agents[k] \in Nat /\ attempt[k] + 1 \in Nat
      BY DEF TypeOK
    <3>2. CreateJob(j, p, agents[k], attempt[k] + 1, k)
      BY <2>2 DEF Retry
    <3> QED
      BY <2>2, <3>1, <3>2, CreateJobType DEF Retry, Wake, TypeOK
  <2>3. ASSUME NEW j \in JobIds, NEW p \in Priorities, UpdatePriority(j, p)
        PROVE  TypeOK'
    BY <2>3 DEF UpdatePriority, Wake, TypeOK
  <2>4. ASSUME NEW j \in JobIds, Cancel(j)
        PROVE  TypeOK'
    <3>1. status' \in [JobIds -> Statuses \union {"absent"}] /\ aborted' \in SUBSET JobIds
      BY <2>4 DEF Cancel, CancelQueued, CancelActive, CancelCancelled, Transition,
                  Statuses, Active, Terminal, TypeOK
    <3> QED
      BY <2>4, <3>1 DEF Cancel, Wake, TypeOK
  <2>5. CASE BeginDispatch
    BY <2>5 DEF BeginDispatch, TypeOK
  <2>6. ASSUME NEW j \in JobIds, ClaimNextQueuedJob(j)
        PROVE  TypeOK'
    BY <2>6 DEF ClaimNextQueuedJob, Transition, Statuses, Active, TypeOK
  <2>7. CASE Launch
    BY <2>7 DEF Launch, Transition, Statuses, Active, TypeOK
  <2>8. CASE EndDispatch
    BY <2>8 DEF EndDispatch, TypeOK
  <2>9. ASSUME NEW j \in JobIds, EvaluationStarting(j)
        PROVE  TypeOK'
    BY <2>9 DEF EvaluationStarting, Transition, Statuses, Active, TypeOK
  <2>10. ASSUME NEW j \in JobIds, Settle(j)
         PROVE  TypeOK'
    <3>1. status' \in [JobIds -> Statuses \union {"absent"}]
      BY <2>10 DEF Settle, FinishCancelled, FinishCompleted, FinishFailed, Transition,
                   Statuses, Active, Terminal, TypeOK
    <3> QED
      BY <2>10, <3>1 DEF Settle, Wake, TypeOK
  <2>11. CASE BeginShutdown
    BY <2>11, TransitionAllType DEF BeginShutdown, Statuses, Active, TypeOK
  <2>12. CASE FinishShutdown
    BY <2>12, TransitionAllType DEF FinishShutdown, Statuses, Terminal, TypeOK
  <2>13. CASE CloseDatabase
    BY <2>13 DEF CloseDatabase, LoseMemory, TypeOK
  <2>14. CASE Crash
    BY <2>14 DEF Crash, LoseMemory, TypeOK
  <2>15. ASSUME NEW c \in Configs, Reconfigure(c)
         PROVE  TypeOK'
    BY <2>15 DEF Reconfigure, TypeOK
  <2>16. CASE Boot
    <3>1. config.enabled \in BOOLEAN
      BY SchedulerAssumption DEF TypeOK, ConfigType
    <3> QED
      BY <2>16, <3>1, TransitionAllType DEF Boot, MarkInterruptedJobs, Statuses, Terminal, TypeOK
  <2>17. CASE UNCHANGED vars
    BY <2>17 DEF vars, TypeOK
  <2> QED
    BY <2>1, <2>2, <2>3, <2>4, <2>5, <2>6, <2>7, <2>8, <2>9, <2>10, <2>11, <2>12,
       <2>13, <2>14, <2>15, <2>16, <2>17 DEF Next
<1> QED
  BY <1>1, <1>2, PTL DEF Spec
-----------------------------------------------------------------------------
(* The registry of running executions and the jobs table *)

Launching == {claimed} \ {NoJob}

\* The inductive strengthening.  ActiveJobsAreTracked alone is not preserved:
\* that a slot is freed for the right row needs to know that a claimed Job is
\* `starting' and not yet registered, and that only a running Router dispatches.
RegistryInv ==
  /\ ActiveJobsAreTracked
  /\ AbortMatchesStatus
  /\ aborted \subseteq active
  /\ dispatching => proc = "running"
  /\ claimed # NoJob => /\ dispatching
                        /\ claimed \notin active
                        /\ status[claimed] = "starting"
  /\ proc = "down" => active = {} /\ aborted = {} /\ claimed = NoJob /\ ~dispatching

LEMMA InitRegistry == Init => RegistryInv
BY DEF Init, RegistryInv, ActiveJobsAreTracked, AbortMatchesStatus

\* A step that neither touches the registry nor moves a row into, out of or
\* between the active statuses.
RegistryUnchanged ==
  /\ UNCHANGED proc /\ UNCHANGED active /\ UNCHANGED aborted
  /\ UNCHANGED dispatching /\ UNCHANGED claimed
  /\ \A j \in JobIds : \/ status'[j] = status[j]
                       \/ status[j] \notin Active /\ status'[j] \notin Active

LEMMA RegistryUntouched == TypeOK /\ RegistryInv /\ RegistryUnchanged => RegistryInv'
<1> SUFFICES ASSUME TypeOK, RegistryInv, RegistryUnchanged PROVE RegistryInv'
  OBVIOUS
<1> USE DEF RegistryUnchanged
<1>1. UnderWay' = UnderWay
  BY DEF UnderWay, InStatus
<1>2. \A j \in UnderWay : status'[j] = status[j]
  BY DEF UnderWay, InStatus
<1>3. ActiveJobsAreTracked'
  BY <1>1 DEF RegistryInv, ActiveJobsAreTracked
<1>4. AbortMatchesStatus'
  BY <1>2 DEF RegistryInv, ActiveJobsAreTracked, AbortMatchesStatus
<1>5. claimed # NoJob => status'[claimed] = "starting"
  BY DEF RegistryInv, TypeOK, Active
<1> QED
  BY <1>3, <1>4, <1>5 DEF RegistryInv

LEMMA NextRegistry ==
  ASSUME TypeOK, TypeOK', RegistryInv, [Next]_vars
  PROVE  RegistryInv'
<1> USE DEF settings, memory, columns
<1>1. ASSUME NEW j \in JobIds, NEW p \in Priorities, NEW n \in AgentCounts,
             Submit(j, p, n)
      PROVE  RegistryInv'
  <2>1. RegistryUnchanged
    BY <1>1 DEF Submit, CreateJob, TypeOK, Active, RegistryUnchanged
  <2> QED
    BY <2>1, RegistryUntouched
<1>2. ASSUME NEW j \in JobIds, NEW k \in JobIds, NEW p \in Priorities, Retry(k, j, p)
      PROVE  RegistryInv'
  <2>1. RegistryUnchanged
    BY <1>2 DEF Retry, CreateJob, TypeOK, Active, RegistryUnchanged
  <2> QED
    BY <2>1, RegistryUntouched
<1>3. ASSUME NEW j \in JobIds, NEW p \in Priorities, UpdatePriority(j, p)
      PROVE  RegistryInv'
  <2>1. RegistryUnchanged
    BY <1>3 DEF UpdatePriority, RegistryUnchanged
  <2> QED
    BY <2>1, RegistryUntouched
<1>4. ASSUME NEW j \in JobIds, Cancel(j)
      PROVE  RegistryInv'
  <2>1. CASE CancelQueued(j) \/ CancelCancelled(j)
    <3>1. /\ UNCHANGED proc /\ UNCHANGED active /\ UNCHANGED aborted
          /\ UNCHANGED dispatching /\ UNCHANGED claimed
      BY <1>4, <2>1 DEF Cancel, CancelQueued, CancelCancelled
    <3>2. \A k \in JobIds : \/ status'[k] = status[k]
                            \/ status[k] \notin Active /\ status'[k] \notin Active
      BY <2>1 DEF CancelQueued, CancelCancelled, Transition, TypeOK, Active
    <3> QED
      BY <3>1, <3>2, RegistryUntouched DEF RegistryUnchanged
  <2>2. CASE CancelActive(j)
    <3>1. /\ status[j] \in Active
          /\ status' = [status EXCEPT ![j] = "cancel_requested"]
          /\ aborted' = aborted \union ({j} \intersect active)
          /\ UNCHANGED <<proc, active, dispatching, claimed>>
          /\ ~dispatching /\ proc \in {"running", "stopping"}
      BY <1>4, <2>2 DEF Cancel, CancelActive, Transition, Serving, EventLoopFree, TypeOK
    <3>2. claimed = NoJob /\ UnderWay = active /\ j \in active
      BY <3>1 DEF RegistryInv, ActiveJobsAreTracked, UnderWay, InStatus
    <3>3. UnderWay' = UnderWay
      BY <3>1 DEF UnderWay, InStatus, TypeOK, Active
    <3>4. ActiveJobsAreTracked'
      BY <3>1, <3>2, <3>3 DEF ActiveJobsAreTracked
    <3>5. AbortMatchesStatus'
      BY <3>1, <3>2 DEF AbortMatchesStatus, RegistryInv, TypeOK
    <3> QED
      BY <3>1, <3>2, <3>4, <3>5 DEF RegistryInv
  <2> QED
    BY <1>4, <2>1, <2>2 DEF Cancel
<1>5. CASE BeginDispatch
  <2>1. ~dispatching /\ proc # "down" /\ dispatching' = (proc = "running")
        /\ UNCHANGED <<status, proc, active, aborted, claimed>>
    BY <1>5 DEF BeginDispatch, EventLoopFree
  <2>2. claimed = NoJob
    BY <2>1 DEF RegistryInv
  <2> QED
    BY <2>1, <2>2 DEF RegistryInv, ActiveJobsAreTracked, AbortMatchesStatus, UnderWay, InStatus
<1>6. ASSUME NEW j \in JobIds, ClaimNextQueuedJob(j)
      PROVE  RegistryInv'
  <2>1. /\ dispatching /\ claimed = NoJob /\ claimed' = j
        /\ status[j] = "queued" /\ status' = [status EXCEPT ![j] = "starting"]
        /\ UNCHANGED <<proc, active, aborted, dispatching>>
    BY <1>6 DEF ClaimNextQueuedJob, IsNextQueued, Queued, InStatus, Transition
  <2>2. proc = "running" /\ UnderWay = active /\ j \notin active /\ j # NoJob
    BY <2>1, SchedulerAssumption DEF RegistryInv, ActiveJobsAreTracked, UnderWay, InStatus, Active
  <2>3. UnderWay' = UnderWay \union {j}
    BY <2>1 DEF UnderWay, InStatus, TypeOK, Active
  <2>4. ActiveJobsAreTracked'
    BY <2>1, <2>2, <2>3 DEF ActiveJobsAreTracked
  <2>5. AbortMatchesStatus'
    BY <2>1, <2>2 DEF AbortMatchesStatus, RegistryInv, TypeOK
  <2> QED
    BY <2>1, <2>2, <2>4, <2>5 DEF RegistryInv, TypeOK
<1>7. CASE Launch
  <2>1. /\ claimed # NoJob /\ claimed' = NoJob
        /\ status' = [status EXCEPT ![claimed] = "running"]
        /\ active' = active \union {claimed}
        /\ UNCHANGED <<proc, aborted, dispatching>>
    BY <1>7 DEF Launch, Transition
  <2>2. /\ claimed \in JobIds /\ dispatching /\ proc = "running"
        /\ claimed \notin active /\ claimed \notin aborted
        /\ status[claimed] = "starting" /\ UnderWay = active \union {claimed}
    BY <2>1 DEF RegistryInv, ActiveJobsAreTracked, TypeOK
  <2>3. UnderWay' = UnderWay
    BY <2>1, <2>2 DEF UnderWay, InStatus, TypeOK, Active
  <2>4. ActiveJobsAreTracked'
    BY <2>1, <2>2, <2>3 DEF ActiveJobsAreTracked
  <2>5. AbortMatchesStatus'
    BY <2>1, <2>2 DEF AbortMatchesStatus, RegistryInv, TypeOK
  <2> QED
    BY <2>1, <2>2, <2>4, <2>5 DEF RegistryInv
<1>8. CASE EndDispatch
  BY <1>8 DEF EndDispatch, RegistryInv, ActiveJobsAreTracked, AbortMatchesStatus, UnderWay, InStatus
<1>9. ASSUME NEW j \in JobIds, EvaluationStarting(j)
      PROVE  RegistryInv'
  <2>1. /\ j \in active /\ status[j] = "running"
        /\ status' = [status EXCEPT ![j] = "evaluating"]
        /\ UNCHANGED <<proc, active, aborted, dispatching, claimed>>
    BY <1>9 DEF EvaluationStarting, Transition
  <2>2. UnderWay' = UnderWay
    BY <2>1 DEF UnderWay, InStatus, TypeOK, Active
  <2>3. ActiveJobsAreTracked'
    BY <2>1, <2>2 DEF RegistryInv, ActiveJobsAreTracked
  <2>4. AbortMatchesStatus'
    BY <2>1 DEF AbortMatchesStatus, RegistryInv, TypeOK
  <2>5. claimed # NoJob => status'[claimed] = "starting"
    BY <2>1 DEF RegistryInv, TypeOK
  <2> QED
    BY <2>1, <2>3, <2>4, <2>5 DEF RegistryInv
<1>10. ASSUME NEW j \in JobIds, Settle(j)
       PROVE  RegistryInv'
  <2>1. /\ proc # "down" /\ ~dispatching /\ j \in active
        /\ active' = active \ {j} /\ aborted' = aborted \ {j}
        /\ UNCHANGED <<proc, dispatching, claimed>>
    BY <1>10 DEF Settle, EventLoopFree
  <2>2. claimed = NoJob
    BY <2>1 DEF RegistryInv
  <2>3. status'[j] \notin Active /\ \A k \in JobIds \ {j} : status'[k] = status[k]
    BY <1>10 DEF Settle, FinishCancelled, FinishCompleted, FinishFailed, Transition,
                 Active, Terminal, TypeOK
  <2>4. UnderWay' = UnderWay \ {j}
    BY <2>3 DEF UnderWay, InStatus
  <2>5. ActiveJobsAreTracked'
    BY <2>1, <2>2, <2>4 DEF RegistryInv, ActiveJobsAreTracked
  <2>6. AbortMatchesStatus'
    BY <2>1, <2>3 DEF AbortMatchesStatus, RegistryInv, TypeOK
  <2> QED
    BY <2>1, <2>2, <2>5, <2>6 DEF RegistryInv
<1>11. CASE BeginShutdown
  <2>1. /\ proc = "running" /\ proc' = "stopping" /\ ~dispatching
        /\ status' = [j \in JobIds |-> IF j \in {k \in active : status[k] \in Active}
                                       THEN "cancel_requested" ELSE status[j]]
        /\ aborted' = active
        /\ UNCHANGED <<active, dispatching, claimed>>
    BY <1>11 DEF BeginShutdown, TransitionAll, EventLoopFree
  <2>2. claimed = NoJob /\ UnderWay = active
    BY <2>1 DEF RegistryInv, ActiveJobsAreTracked
  <2>3. UnderWay' = UnderWay
    BY <2>1 DEF UnderWay, InStatus, Active
  <2>4. \A j \in active : status'[j] = "cancel_requested"
    BY <2>1, <2>2 DEF UnderWay, InStatus
  <2> QED
    BY <2>1, <2>2, <2>3, <2>4 DEF RegistryInv, ActiveJobsAreTracked, AbortMatchesStatus
<1>12. CASE FinishShutdown
  <2>1. /\ proc = "stopping" /\ proc' = "stopped" /\ ~dispatching
        /\ status' = [j \in JobIds |-> IF j \in {k \in active : status[k] \notin Terminal}
                                       THEN "interrupted" ELSE status[j]]
        /\ UNCHANGED <<active, aborted, dispatching, claimed>>
    BY <1>12 DEF FinishShutdown, TransitionAll, EventLoopFree
  <2>2. claimed = NoJob /\ UnderWay = active
    BY <2>1 DEF RegistryInv, ActiveJobsAreTracked
  <2>3. UnderWay' = {}
    BY <2>1, <2>2 DEF UnderWay, InStatus, Active, Terminal
  <2> QED
    BY <2>1, <2>2, <2>3 DEF RegistryInv, ActiveJobsAreTracked, AbortMatchesStatus
<1>13. CASE CloseDatabase \/ Crash
  BY <1>13 DEF CloseDatabase, Crash, LoseMemory, RegistryInv, ActiveJobsAreTracked,
               AbortMatchesStatus
<1>14. ASSUME NEW c \in Configs, Reconfigure(c)
       PROVE  RegistryInv'
  <2>1. RegistryUnchanged
    BY <1>14 DEF Reconfigure, RegistryUnchanged
  <2> QED
    BY <2>1, RegistryUntouched
<1>15. CASE Boot
  <2>1. /\ proc = "down" /\ proc' \in {"down", "running"}
        /\ status' = [j \in JobIds |-> IF j \in UnderWay THEN "interrupted" ELSE status[j]]
        /\ UNCHANGED <<active, aborted, dispatching, claimed>>
    BY <1>15 DEF Boot, MarkInterruptedJobs, TransitionAll
  <2>2. active = {} /\ aborted = {} /\ claimed = NoJob /\ ~dispatching
    BY <2>1 DEF RegistryInv
  <2>3. UnderWay' = {}
    BY <2>1 DEF UnderWay, InStatus, Active
  <2> QED
    BY <2>1, <2>2, <2>3 DEF RegistryInv, ActiveJobsAreTracked, AbortMatchesStatus
<1>16. CASE UNCHANGED vars
  <2>1. RegistryUnchanged
    BY <1>16 DEF vars, RegistryUnchanged
  <2> QED
    BY <2>1, RegistryUntouched
<1> QED
  BY <1>1, <1>2, <1>3, <1>4, <1>5, <1>6, <1>7, <1>8, <1>9, <1>10, <1>11, <1>12,
     <1>13, <1>14, <1>15, <1>16 DEF Next

LEMMA Registry == Spec => []RegistryInv
BY InitRegistry, NextRegistry, TypeCorrect, PTL DEF Spec

\* The table and the registry agree in every reachable state: no row waits for
\* an execution that does not exist, and every cancellation the table records has
\* been delivered to its execution.
THEOREM RegistryAgrees == Spec => []RegistryMatchesTable
<1>1. RegistryInv => RegistryMatchesTable
  BY DEF RegistryInv, RegistryMatchesTable
<1> QED
  BY <1>1, Registry, PTL
-----------------------------------------------------------------------------
(* Slots *)

\* What the slots are counted by: registered executions and the claimed Job.
Occupied == active \union Launching

SlotInv == proc # "down" => Cardinality(Occupied) <= config.maxConcurrent

\* Fewer or equally many occupied slots under the same configuration.
LEMMA FewerOccupied ==
  ASSUME TypeOK, SlotInv, Occupied' \subseteq Occupied, UNCHANGED config,
         proc' # "down" => proc # "down"
  PROVE  SlotInv'
<1>1. IsFiniteSet(Occupied)
  <2>1. Occupied \subseteq JobIds
    BY DEF Occupied, Launching, TypeOK
  <2> QED
    BY <2>1, SchedulerAssumption, FS_Subset
<1>2. Cardinality(Occupied') <= Cardinality(Occupied)
  BY <1>1, FS_Subset
<1>3. Cardinality(Occupied) \in Nat /\ Cardinality(Occupied') \in Nat
  BY <1>1, FS_Subset, FS_CardinalityType
<1>4. config.maxConcurrent \in Int
  BY SchedulerAssumption DEF TypeOK, ConfigType
<1> QED
  BY <1>2, <1>3, <1>4 DEF SlotInv

LEMMA InitSlots == Init => SlotInv
BY DEF Init, SlotInv

LEMMA NextSlots ==
  ASSUME TypeOK, RegistryInv, SlotInv, [Next]_vars
  PROVE  SlotInv'
<1> USE DEF settings, memory, columns
<1>1. ASSUME NEW j \in JobIds, ClaimNextQueuedJob(j)
      PROVE  SlotInv'
  <2>1. claimed = NoJob /\ claimed' = j /\ UNCHANGED <<active, config, proc>>
        /\ Cardinality(active) < config.maxConcurrent
    BY <1>1 DEF ClaimNextQueuedJob, SlotFree
  <2>2. IsFiniteSet(active)
    BY SchedulerAssumption, FS_Subset DEF TypeOK
  <2>3. Occupied' \in {active, active \union {j}}
    BY <2>1 DEF Occupied, Launching
  <2>4. Cardinality(active) \in Nat
    BY <2>2, FS_CardinalityType
  <2>5. Cardinality(Occupied') \in {Cardinality(active), Cardinality(active) + 1}
    BY <2>2, <2>3, FS_AddElement
  <2>6. config.maxConcurrent \in Int
    BY SchedulerAssumption DEF TypeOK, ConfigType
  <2> QED
    BY <2>1, <2>4, <2>5, <2>6 DEF SlotInv
<1>2. ASSUME NEW c \in Configs, Reconfigure(c)
      PROVE  SlotInv'
  BY <1>2 DEF Reconfigure, SlotInv
<1>3. CASE Boot
  <2>1. active' = {} /\ claimed' = NoJob /\ UNCHANGED config
    BY <1>3 DEF Boot, RegistryInv
  <2>2. Occupied' = {}
    BY <2>1 DEF Occupied, Launching
  <2>3. config.maxConcurrent \in 1..MaxActive
    BY SchedulerAssumption DEF TypeOK, ConfigType
  <2> QED
    BY <2>1, <2>2, <2>3, FS_EmptySet, SchedulerAssumption DEF SlotInv
<1>4. CASE CloseDatabase \/ Crash
  BY <1>4 DEF CloseDatabase, Crash, LoseMemory, SlotInv
<1>5. CASE Launch
  BY <1>5, FewerOccupied DEF Launch, Occupied, Launching
<1>6. ASSUME NEW j \in JobIds, Settle(j)
      PROVE  SlotInv'
  BY <1>6, FewerOccupied DEF Settle, Occupied, Launching
<1>7. CASE /\ UNCHANGED active /\ UNCHANGED claimed /\ UNCHANGED config
           /\ proc' # "down" => proc # "down"
  BY <1>7, FewerOccupied DEF Occupied, Launching
<1>8. ASSUME NEW j \in JobIds, NEW p \in Priorities, NEW n \in AgentCounts,
             Submit(j, p, n)
      PROVE  SlotInv'
  BY <1>7, <1>8 DEF Submit
<1>9. ASSUME NEW j \in JobIds, NEW k \in JobIds, NEW p \in Priorities, Retry(k, j, p)
      PROVE  SlotInv'
  BY <1>7, <1>9 DEF Retry
<1>10. ASSUME NEW j \in JobIds, NEW p \in Priorities, UpdatePriority(j, p)
       PROVE  SlotInv'
  BY <1>7, <1>10 DEF UpdatePriority
<1>11. ASSUME NEW j \in JobIds, Cancel(j) \/ EvaluationStarting(j)
       PROVE  SlotInv'
  BY <1>7, <1>11 DEF Cancel, EvaluationStarting
<1>12. CASE BeginDispatch \/ EndDispatch \/ BeginShutdown \/ FinishShutdown \/ UNCHANGED vars
  BY <1>7, <1>12 DEF BeginDispatch, EndDispatch, BeginShutdown, FinishShutdown, vars
<1> QED
  BY <1>1, <1>2, <1>3, <1>4, <1>5, <1>6, <1>8, <1>9, <1>10, <1>11, <1>12 DEF Next

LEMMA Slots == Spec => []SlotInv
BY InitSlots, NextSlots, TypeCorrect, Registry, PTL DEF Spec

LEMMA UnderWayOccupied ==
  ASSUME TypeOK, RegistryInv, SlotInv
  PROVE  ConcurrencyLimit
<1> SUFFICES ASSUME proc # "down" PROVE Cardinality(UnderWay) <= config.maxConcurrent
  BY DEF ConcurrencyLimit
<1>1. CASE proc \in {"running", "stopping"}
  <2>1. UnderWay = Occupied
    BY <1>1 DEF RegistryInv, ActiveJobsAreTracked, Occupied, Launching
  <2> QED
    BY <2>1 DEF SlotInv
<1>2. CASE proc = "stopped"
  <2>1. UnderWay = {}
    BY <1>2 DEF RegistryInv, ActiveJobsAreTracked
  <2>2. config.maxConcurrent \in 1..MaxActive
    BY SchedulerAssumption DEF TypeOK, ConfigType
  <2> QED
    BY <2>1, <2>2, FS_EmptySet, SchedulerAssumption
<1> QED
  BY <1>1, <1>2 DEF TypeOK

\* JOB_MAX_CONCURRENT bounds the Jobs under way, for every configuration.
THEOREM ConcurrencyBounded == Spec => []ConcurrencyLimit
BY Slots, UnderWayOccupied, TypeCorrect, Registry, PTL
-----------------------------------------------------------------------------
(* Wake-ups *)

\* A step after which either a wake-up is pending or there is no more work, and
\* no fewer dispatches, than before.
LEMMA NextWakeup ==
  ASSUME TypeOK, RegistryInv, NoLostWakeup, [Next]_vars
  PROVE  NoLostWakeup'
<1> USE DEF settings, memory, columns
<1>1. CASE Wake /\ UNCHANGED proc /\ UNCHANGED config
  BY <1>1 DEF Wake, NoLostWakeup
<1>2. ASSUME NEW j \in JobIds, NEW p \in Priorities, NEW n \in AgentCounts,
             Submit(j, p, n)
      PROVE  NoLostWakeup'
  BY <1>1, <1>2 DEF Submit
<1>3. ASSUME NEW j \in JobIds, NEW k \in JobIds, NEW p \in Priorities, Retry(k, j, p)
      PROVE  NoLostWakeup'
  BY <1>1, <1>3 DEF Retry
<1>4. ASSUME NEW j \in JobIds, NEW p \in Priorities, UpdatePriority(j, p)
      PROVE  NoLostWakeup'
  BY <1>1, <1>4 DEF UpdatePriority
<1>5. ASSUME NEW j \in JobIds, Cancel(j)
      PROVE  NoLostWakeup'
  BY <1>1, <1>5 DEF Cancel
<1>6. ASSUME NEW j \in JobIds, Settle(j)
      PROVE  NoLostWakeup'
  BY <1>1, <1>6 DEF Settle
<1>7. CASE BeginDispatch
  BY <1>7 DEF BeginDispatch, NoLostWakeup
<1>8. ASSUME NEW j \in JobIds, ClaimNextQueuedJob(j)
      PROVE  NoLostWakeup'
  BY <1>8 DEF ClaimNextQueuedJob, NoLostWakeup
<1>9. CASE Launch
  BY <1>9 DEF Launch, RegistryInv, NoLostWakeup
<1>10. CASE EndDispatch
  BY <1>10 DEF EndDispatch, NoLostWakeup, SlotFree, Queued, InStatus
<1>11. ASSUME NEW j \in JobIds, EvaluationStarting(j)
      PROVE  NoLostWakeup'
  <2>1. Queued' = Queued
    BY <1>11 DEF EvaluationStarting, Transition, Queued, InStatus, TypeOK
  <2> QED
    BY <1>11, <2>1 DEF EvaluationStarting, NoLostWakeup, SlotFree
<1>12. CASE BeginShutdown \/ FinishShutdown \/ CloseDatabase \/ Crash
  BY <1>12 DEF BeginShutdown, FinishShutdown, CloseDatabase, Crash, LoseMemory, NoLostWakeup
<1>13. ASSUME NEW c \in Configs, Reconfigure(c)
      PROVE  NoLostWakeup'
  BY <1>13 DEF Reconfigure, NoLostWakeup
<1>14. CASE Boot
  BY <1>14 DEF Boot, NoLostWakeup
<1>15. CASE UNCHANGED vars
  BY <1>15 DEF vars, NoLostWakeup, SlotFree, Queued, InStatus
<1> QED
  BY <1>2, <1>3, <1>4, <1>5, <1>6, <1>7, <1>8, <1>9, <1>10, <1>11, <1>12, <1>13, <1>14, <1>15 DEF Next

\* No lost wake-up, whatever the number of Jobs and slots.
THEOREM WakeupsKept == Spec => []NoLostWakeup
<1>1. Init => NoLostWakeup
  BY DEF Init, NoLostWakeup
<1> QED
  BY <1>1, NextWakeup, TypeCorrect, Registry, PTL DEF Spec

-----------------------------------------------------------------------------
(* The position of a Job in the queue *)

Ahead(j) == {k \in Queued : Precedes(k, j)}

\* ORDER BY priority DESC, created_at ASC, id ASC leaves no ties.
LEMMA PrecedesOrder ==
  ASSUME TypeOK, NEW j \in JobIds, NEW k \in JobIds
  PROVE  /\ ~Precedes(j, j)
         /\ ~(Precedes(j, k) /\ Precedes(k, j))
         /\ j # k => Precedes(j, k) \/ Precedes(k, j)
         /\ \A l \in JobIds : Precedes(j, k) /\ Precedes(k, l) => Precedes(j, l)
<1>1. \A l \in JobIds : priority[l] \in Int /\ created[l] \in Int /\ l \in Int
  <2>1. \A l \in JobIds : priority[l] \in Priorities /\ created[l] \in Nat
    BY DEF TypeOK
  <2>2. Priorities \subseteq Int /\ JobIds \subseteq Int
    BY SchedulerAssumption
  <2>3. \A l \in JobIds : l \in Int
    BY <2>2
  <2>4. \A l \in JobIds : priority[l] \in Int
    BY <2>1, <2>2, Zenon
  <2>5. \A l \in JobIds : created[l] \in Int
    BY <2>1
  <2> QED
    BY <2>3, <2>4, <2>5, Zenon
<1> QED
  BY <1>1 DEF Precedes

LEMMA AheadCounts ==
  ASSUME TypeOK, NEW j \in Queued
  PROVE  /\ Queued \in SUBSET JobIds /\ IsFiniteSet(Queued) /\ Cardinality(Queued) \in Nat
         /\ IsFiniteSet(Ahead(j)) /\ Cardinality(Ahead(j)) \in Nat
         /\ QueuePosition(j) = 1 + Cardinality(Ahead(j))
         /\ QueuePosition(j) \in 1..Cardinality(Queued)
<1>1. Queued \in SUBSET JobIds /\ IsFiniteSet(Queued)
  BY SchedulerAssumption, FS_Subset DEF Queued, InStatus
<1>2. Cardinality(Queued) \in Nat
  BY <1>1, FS_CardinalityType
<1>3. Ahead(j) \in SUBSET (Queued \ {j})
  BY <1>1, PrecedesOrder DEF Ahead
<1>4. IsFiniteSet(Queued \ {j}) /\ Cardinality(Queued \ {j}) = Cardinality(Queued) - 1
  BY <1>1, FS_RemoveElement
<1>5. IsFiniteSet(Ahead(j)) /\ Cardinality(Ahead(j)) <= Cardinality(Queued) - 1
  BY <1>3, <1>4, FS_Subset
<1>6. Cardinality(Ahead(j)) \in Nat
  BY <1>5, FS_CardinalityType
<1>7. QueuePosition(j) = 1 + Cardinality(Ahead(j))
  BY DEF QueuePosition, Ahead, Precedes
<1> QED
  BY <1>1, <1>2, <1>5, <1>6, <1>7

\* A Job has a smaller position than one it precedes.
LEMMA PositionsOrdered ==
  ASSUME TypeOK, NEW j \in Queued, NEW k \in Queued, Precedes(j, k)
  PROVE  QueuePosition(j) < QueuePosition(k)
<1>1. Queued \in SUBSET JobIds /\ IsFiniteSet(Ahead(k))
  BY AheadCounts
<1>2. Ahead(j) \in SUBSET Ahead(k)
  BY <1>1, PrecedesOrder DEF Ahead
<1>3. j \in Ahead(k) /\ j \notin Ahead(j)
  BY <1>1, PrecedesOrder DEF Ahead
<1>4. /\ Cardinality(Ahead(j)) <= Cardinality(Ahead(k))
      /\ Cardinality(Ahead(j)) # Cardinality(Ahead(k))
  BY <1>1, <1>2, <1>3, FS_Subset
<1>5. /\ Cardinality(Ahead(j)) \in Nat /\ Cardinality(Ahead(k)) \in Nat
      /\ QueuePosition(j) = 1 + Cardinality(Ahead(j))
      /\ QueuePosition(k) = 1 + Cardinality(Ahead(k))
  BY AheadCounts
<1> QED
  BY <1>4, <1>5

\* The queue can be listed in order: by position.
LEMMA SortedExists ==
  ASSUME TypeOK
  PROVE  \E s \in [1..Cardinality(Queued) -> Queued] : Sorted(s)
<1>1. CASE Queued = {}
  <2>1. Cardinality(Queued) = 0 /\ 1..0 = {}
    BY <1>1, FS_EmptySet
  <2>2. PICK s : s = [i \in 1..Cardinality(Queued) |-> i]
    OBVIOUS
  <2>3. s \in [1..Cardinality(Queued) -> Queued] /\ Sorted(s)
    BY <2>1, <2>2 DEF Sorted
  <2> QED
    BY <2>3
<1>2. CASE Queued # {}
  <2>1. /\ Queued \in SUBSET JobIds /\ IsFiniteSet(Queued) /\ Cardinality(Queued) \in Nat
        /\ \A j \in Queued : QueuePosition(j) \in 1..Cardinality(Queued)
    BY <1>2, AheadCounts
  <2>2. PICK n, pos : n = Cardinality(Queued) /\ pos = [j \in Queued |-> QueuePosition(j)]
    OBVIOUS
  <2>3. pos \in [Queued -> 1..n]
    BY <2>1, <2>2
  <2>4. ASSUME NEW j \in Queued, NEW k \in Queued, pos[j] = pos[k] PROVE j = k
    <3>1. ~(pos[j] < pos[k]) /\ ~(pos[k] < pos[j])
      BY <2>1, <2>2, <2>3, <2>4
    <3>2. ~Precedes(j, k) /\ ~Precedes(k, j)
      BY <2>2, <3>1, PositionsOrdered
    <3> QED
      BY <2>1, <3>2, PrecedesOrder
  <2>5. pos \in Injection(Queued, 1..n)
    BY <2>3, <2>4 DEF Injection, IsInjective
  <2>6. IsFiniteSet(1..n) /\ Cardinality(1..n) = n
    <3>1. IsFiniteSet(1..n) /\ Cardinality(1..n) = IF 1 > n THEN 0 ELSE n - 1 + 1
      BY <2>1, <2>2, FS_Interval
    <3> QED
      BY <2>1, <2>2, <3>1
  <2>7. pos \in Surjection(Queued, 1..n)
    BY <2>2, <2>5, <2>6, FS_Injection
  <2>8. \A i \in 1..n : \E j \in Queued : pos[j] = i
    BY <2>7 DEF Surjection
  <2>9. PICK s : s = [i \in 1..n |-> CHOOSE j \in Queued : pos[j] = i]
    OBVIOUS
  <2>10. s \in [1..n -> Queued] /\ \A i \in 1..n : pos[s[i]] = i
    BY <2>8, <2>9
  <2>11. ASSUME NEW i \in 1..n, NEW j \in 1..n, i < j PROVE Precedes(s[i], s[j])
    <3>1. s[i] \in Queued /\ s[j] \in Queued /\ s[i] # s[j]
      BY <2>10, <2>11
    <3>2. QueuePosition(s[i]) = i /\ QueuePosition(s[j]) = j
      BY <2>2, <2>10, <3>1
    <3>3. ~(QueuePosition(s[j]) < QueuePosition(s[i]))
      BY <2>11, <3>2
    <3>4. ~Precedes(s[j], s[i])
      BY <3>1, <3>3, PositionsOrdered
    <3> QED
      BY <2>1, <3>1, <3>4, PrecedesOrder
  <2> QED
    BY <2>2, <2>10, <2>11 DEF Sorted
<1> QED
  BY <1>1, <1>2

\* Listed in order, every Job stands at its position.
LEMMA SortedPositions ==
  ASSUME TypeOK, NEW s \in [1..Cardinality(Queued) -> Queued], Sorted(s)
  PROVE  /\ \A i \in 1..Cardinality(Queued) : QueuePosition(s[i]) = i
         /\ \A j \in Queued : \E i \in 1..Cardinality(Queued) : j = s[i]
<1>1. PICK n : n = Cardinality(Queued)
  OBVIOUS
<1>2. Queued \in SUBSET JobIds /\ IsFiniteSet(Queued) /\ n \in Nat
  BY <1>1, SchedulerAssumption, FS_Subset, FS_CardinalityType DEF Queued, InStatus
<1>3. s \in [1..n -> Queued] /\ \A i, j \in 1..n : i < j => Precedes(s[i], s[j])
  BY <1>1 DEF Sorted
<1>4. \A i, j \in 1..n : s[i] = s[j] => i = j
  <2> SUFFICES ASSUME NEW i \in 1..n, NEW j \in 1..n, s[i] = s[j] PROVE i = j
    OBVIOUS
  <2>1. s[i] \in JobIds /\ ~Precedes(s[i], s[i])
    BY <1>2, <1>3, PrecedesOrder
  <2> QED
    BY <1>2, <1>3, <2>1
<1>5. s \in Injection(1..n, Queued)
  BY <1>3, <1>4 DEF Injection, IsInjective
<1>6. \A m \in 0..n : IsFiniteSet(1..m) /\ Cardinality(1..m) = m
  <2> SUFFICES ASSUME NEW m \in 0..n PROVE IsFiniteSet(1..m) /\ Cardinality(1..m) = m
    OBVIOUS
  <2>1. IsFiniteSet(1..m) /\ Cardinality(1..m) = IF 1 > m THEN 0 ELSE m - 1 + 1
    BY <1>2, FS_Interval
  <2> QED
    BY <1>2, <2>1
<1>7. Cardinality(1..n) = n
  BY <1>2, <1>6
<1>8. s \in Surjection(1..n, Queued)
  BY <1>1, <1>2, <1>5, <1>7, FS_Injection
<1>9. \A j \in Queued : \E i \in 1..n : j = s[i]
  BY <1>8 DEF Surjection
<1>10. ASSUME NEW i \in 1..n PROVE QueuePosition(s[i]) = i
  <2>1. PICK f : f = [m \in 1..(i - 1) |-> s[m]]
    OBVIOUS
  <2>2. \A m \in 1..(i - 1) : m \in 1..n /\ m < i
    BY <1>2
  <2>3. \A m \in 1..(i - 1) : s[m] \in Ahead(s[i])
    BY <1>3, <2>2 DEF Ahead
  <2>4. ASSUME NEW j \in Ahead(s[i]) PROVE \E m \in 1..(i - 1) : j = s[m]
    <3>1. j \in Queued /\ Precedes(j, s[i])
      BY DEF Ahead
    <3>2. PICK m \in 1..n : j = s[m]
      BY <1>9, <3>1
    <3>3. s[m] \in JobIds /\ s[i] \in JobIds
      BY <1>2, <1>3
    <3>4. ~Precedes(s[i], s[m]) /\ s[m] # s[i]
      BY <3>1, <3>2, <3>3, PrecedesOrder
    <3>5. m < i
      BY <1>2, <1>3, <3>4
    <3>6. m \in 1..(i - 1)
      BY <1>2, <3>5
    <3> QED
      BY <3>2, <3>6
  <2>5. f \in Bijection(1..(i - 1), Ahead(s[i]))
    <3>1. f \in [1..(i - 1) -> Ahead(s[i])]
      BY <2>1, <2>3
    <3>2. \A a, b \in 1..(i - 1) : f[a] = f[b] => a = b
      BY <1>4, <2>1, <2>2
    <3>3. \A j \in Ahead(s[i]) : \E m \in 1..(i - 1) : f[m] = j
      BY <2>1, <2>4
    <3> QED
      BY <3>1, <3>2, <3>3 DEF Bijection, Injection, Surjection, IsInjective
  <2>6. ExistsBijection(1..(i - 1), Ahead(s[i]))
    BY <2>5 DEF ExistsBijection
  <2>7. i - 1 \in 0..n /\ IsFiniteSet(1..(i - 1)) /\ Cardinality(1..(i - 1)) = i - 1
    BY <1>2, <1>6
  <2>8. Cardinality(Ahead(s[i])) = i - 1
    BY <2>6, <2>7, FS_Bijection
  <2>9. QueuePosition(s[i]) = 1 + Cardinality(Ahead(s[i]))
    BY <1>3, AheadCounts
  <2> QED
    BY <2>8, <2>9
<1> QED
  BY <1>1, <1>9, <1>10

\* The index in listQueuedOrdered, the COUNT query of getQueuePosition and the
\* Job that claimNextQueued takes follow one order, although each states it in
\* SQL of its own.
THEOREM PositionsInOneOrder == Spec => []PositionsAgree
<1>1. TypeOK => PositionsAgree
  <2> SUFFICES ASSUME TypeOK PROVE PositionsAgree
    OBVIOUS
  <2>1. PICK n, all, m :
          /\ n = Cardinality(Queued)
          /\ all = CHOOSE s \in [1..Cardinality(Queued) -> Queued] : Sorted(s)
          /\ m = IF n < ListLimit THEN n ELSE ListLimit
    OBVIOUS
  <2>2. all \in [1..n -> Queued] /\ Sorted(all)
    BY <2>1, SortedExists
  <2>3. /\ \A i \in 1..n : QueuePosition(all[i]) = i
        /\ \A j \in Queued : \E i \in 1..n : j = all[i]
    BY <2>1, <2>2, SortedPositions
  <2>4. n \in Nat /\ ListLimit \in Nat /\ m \in 0..n /\ (m = n \/ m = ListLimit)
    <3>1. IsFiniteSet(Queued)
      BY SchedulerAssumption, FS_Subset DEF Queued, InStatus
    <3> QED
      BY <2>1, <3>1, FS_CardinalityType, ListAssumption
  <2>5. all \in Seq(Queued) /\ Len(all) = n
    BY <2>2, <2>4
  <2>6. ListQueuedOrdered = SubSeq(all, 1, m)
    BY <2>1, <2>5 DEF ListQueuedOrdered
  <2>7. SubSeq(all, 1, m) = [i \in 1..m |-> all[i]]
    BY <2>4, <2>5
  <2>8. \A j \in JobIds : IsNextQueued(j) => QueuePosition(j) = 1
    <3> SUFFICES ASSUME NEW j \in JobIds, IsNextQueued(j) PROVE QueuePosition(j) = 1
      OBVIOUS
    <3>1. j \in Queued /\ QueuePosition(j) = 1 + Cardinality(Ahead(j))
      BY AheadCounts DEF IsNextQueued
    <3>2. Ahead(j) = {}
      BY <3>1, PrecedesOrder DEF IsNextQueued, Ahead, Queued, InStatus
    <3> QED
      BY <3>1, <3>2, FS_EmptySet
  <2>9. \A i \in DOMAIN ListQueuedOrdered : QueuePosition(ListQueuedOrdered[i]) = i
    BY <2>3, <2>4, <2>6, <2>7
  <2>10. ASSUME NEW j \in Queued \ Range(ListQueuedOrdered) PROVE QueuePosition(j) > ListLimit
    <3>1. PICK i \in 1..n : j = all[i]
      BY <2>3
    <3>2. i \notin 1..m
      BY <2>6, <2>7, <2>10, <3>1 DEF Range
    <3>3. i > m /\ m = ListLimit
      BY <2>4, <3>2
    <3> QED
      BY <2>3, <2>4, <3>1, <3>3
  <2> QED
    BY <2>8, <2>9, <2>10 DEF PositionsAgree
<1> QED
  BY <1>1, TypeCorrect, PTL

-----------------------------------------------------------------------------
(* What one step may do to one row *)

Working == Active \ {"cancel_requested"}

\* Every way a row can move, whoever moves it.
RowMoves(j) ==
  \/ status'[j] = status[j]
  \/ status[j] = "absent" /\ status'[j] = "queued"
  \/ status[j] = "queued" /\ status'[j] = "cancelled"
  \/ status[j] = "queued" /\ status'[j] = "starting" /\ proc = "running"
  \/ status[j] \in Working /\ status'[j] \in Working
  \/ status[j] \in Working /\ status'[j] \in {"completed", "failed"}
  \/ status[j] \in Working /\ status'[j] = "cancel_requested"
  \/ status[j] \in Active /\ status'[j] = "interrupted"
  \/ status[j] = "cancel_requested" /\ status'[j] = "cancelled"

\* A settling execution finds its row under way exactly as long as the Router
\* has not returned from shutdown(), and has been told to stop exactly when the
\* row says so.
LEMMA SettleSeesStatus ==
  ASSUME TypeOK, RegistryInv, NEW j \in JobIds, Settle(j)
  PROVE  \/ status[j] \in Active /\ (CancellationSeen(j) <=> status[j] = "cancel_requested")
         \/ proc = "stopped" /\ status[j] \notin Active
<1>1. j \in active /\ ~dispatching /\ claimed = NoJob /\ proc # "down"
  BY DEF Settle, EventLoopFree, RegistryInv
<1>2. CASE proc \in {"running", "stopping"}
  <2>1. status[j] \in Active
    BY <1>1, <1>2 DEF RegistryInv, ActiveJobsAreTracked, UnderWay, InStatus
  <2>2. j \in aborted <=> status[j] = "cancel_requested"
    BY <1>1, <1>2 DEF RegistryInv, AbortMatchesStatus
  <2> QED
    BY <2>1, <2>2 DEF CancellationSeen
<1>3. CASE proc = "stopped"
  BY <1>3 DEF RegistryInv, ActiveJobsAreTracked, UnderWay, InStatus
<1> QED
  BY <1>1, <1>2, <1>3 DEF TypeOK

LEMMA NextMovesRows ==
  ASSUME TypeOK, RegistryInv, [Next]_vars, NEW i \in JobIds
  PROVE  RowMoves(i)
<1> USE DEF settings, memory, columns
<1>1. ASSUME NEW j \in JobIds, NEW p \in Priorities, NEW n \in AgentCounts,
             Submit(j, p, n)
      PROVE  RowMoves(i)
  BY <1>1 DEF Submit, CreateJob, TypeOK, RowMoves
<1>2. ASSUME NEW j \in JobIds, NEW k \in JobIds, NEW p \in Priorities, Retry(k, j, p)
      PROVE  RowMoves(i)
  BY <1>2 DEF Retry, CreateJob, TypeOK, RowMoves
<1>3. ASSUME NEW j \in JobIds, NEW p \in Priorities, UpdatePriority(j, p)
      PROVE  RowMoves(i)
  BY <1>3 DEF UpdatePriority, RowMoves
<1>4. ASSUME NEW j \in JobIds, Cancel(j)
      PROVE  RowMoves(i)
  <2>1. CASE CancelQueued(j)
    BY <2>1 DEF CancelQueued, Transition, TypeOK, RowMoves
  <2>2. CASE CancelActive(j)
    <3>1. status' = [status EXCEPT ![j] = "cancel_requested"]
      BY <2>2 DEF CancelActive, Transition, TypeOK
    <3> QED
      BY <2>2, <3>1 DEF CancelActive, TypeOK, Active, Working, RowMoves
  <2>3. CASE CancelCancelled(j)
    BY <2>3 DEF CancelCancelled, RowMoves
  <2> QED
    BY <1>4, <2>1, <2>2, <2>3 DEF Cancel
<1>5. CASE BeginDispatch
  BY <1>5 DEF BeginDispatch, RowMoves
<1>6. ASSUME NEW j \in JobIds, ClaimNextQueuedJob(j)
      PROVE  RowMoves(i)
  <2>1. status[j] = "queued" /\ status' = [status EXCEPT ![j] = "starting"]
    BY <1>6 DEF ClaimNextQueuedJob, IsNextQueued, Queued, InStatus, Transition
  <2>2. proc = "running"
    BY <1>6 DEF ClaimNextQueuedJob, RegistryInv
  <2> QED
    BY <2>1, <2>2 DEF TypeOK, RowMoves
<1>7. CASE Launch
  <2>1. status[claimed] = "starting" /\ status' = [status EXCEPT ![claimed] = "running"]
    BY <1>7 DEF Launch, Transition, RegistryInv
  <2> QED
    BY <2>1 DEF TypeOK, RowMoves, Working, Active
<1>8. CASE EndDispatch
  BY <1>8 DEF EndDispatch, RowMoves
<1>9. ASSUME NEW j \in JobIds, EvaluationStarting(j)
      PROVE  RowMoves(i)
  BY <1>9 DEF EvaluationStarting, Transition, TypeOK, RowMoves, Working, Active
<1>10. ASSUME NEW j \in JobIds, Settle(j)
       PROVE  RowMoves(i)
  <2>1. CASE FinishCancelled(j)
    BY <1>10, <2>1, SettleSeesStatus DEF FinishCancelled, TypeOK, RowMoves
  <2>2. CASE FinishCompleted(j)
    <3>1. /\ status[j] \in {"running", "evaluating"}
          /\ status' = [status EXCEPT ![j] = "completed"]
      BY <2>2 DEF FinishCompleted, Transition, CanTransition, JobTransitions,
                  Statuses, Active, Terminal
    <3> QED
      BY <3>1 DEF TypeOK, RowMoves, Working, Active
  <2>3. CASE FinishFailed(j)
    <3>1. CASE UNCHANGED status
      BY <3>1 DEF RowMoves
    <3>2. CASE Transition(j, "failed")
      <4>1. status[j] \in Active /\ status' = [status EXCEPT ![j] = "failed"]
        BY <3>2 DEF Transition, CanTransition, JobTransitions, Statuses, Active, Terminal
      <4>2. status[j] # "cancel_requested"
        BY <2>3 DEF FinishFailed, CancellationSeen
      <4> QED
        BY <4>1, <4>2 DEF TypeOK, RowMoves, Working
    <3> QED
      BY <2>3, <3>1, <3>2 DEF FinishFailed
  <2> QED
    BY <1>10, <2>1, <2>2, <2>3 DEF Settle
<1>11. CASE BeginShutdown
  BY <1>11 DEF BeginShutdown, TransitionAll, RowMoves, Working, TypeOK
<1>12. CASE FinishShutdown
  <2>1. active = UnderWay
    BY <1>12 DEF FinishShutdown, EventLoopFree, RegistryInv, ActiveJobsAreTracked
  <2> QED
    BY <1>12, <2>1 DEF FinishShutdown, TransitionAll, UnderWay, InStatus, RowMoves
<1>13. CASE CloseDatabase \/ Crash
  BY <1>13 DEF CloseDatabase, Crash, RowMoves
<1>14. ASSUME NEW c \in Configs, Reconfigure(c)
       PROVE  RowMoves(i)
  BY <1>14 DEF Reconfigure, RowMoves
<1>15. CASE Boot
  BY <1>15 DEF Boot, MarkInterruptedJobs, TransitionAll, UnderWay, InStatus, RowMoves
<1>16. CASE UNCHANGED vars
  BY <1>16 DEF vars, RowMoves
<1> QED
  BY <1>1, <1>2, <1>3, <1>4, <1>5, <1>6, <1>7, <1>8, <1>9, <1>10, <1>11, <1>12,
     <1>13, <1>14, <1>15, <1>16 DEF Next

\* The action properties, as predicates of one step.
LEMMA NextKeepsPromises ==
  ASSUME TypeOK, RegistryInv, [Next]_vars
  PROVE  \A j \in JobIds :
           /\ status[j] \in Terminal => status'[j] = status[j]
           /\ status[j] = "cancel_requested" =>
                status'[j] \in {"cancel_requested", "cancelled", "interrupted"}
           /\ status[j] \in Active /\ status'[j] = "cancelled" =>
                status[j] = "cancel_requested"
           /\ status[j] = "queued" =>
                \/ status'[j] \in {"queued", "cancelled"}
                \/ status'[j] = "starting" /\ proc = "running"
<1> TAKE j \in JobIds
<1>1. RowMoves(j)
  BY NextMovesRows
<1> QED
  BY <1>1 DEF RowMoves, Working, Active, Terminal

\* A Job that has ended keeps the status it ended with.
THEOREM TerminalStatusFinal == Spec => TerminalIsFinal
<1>1. TypeOK /\ RegistryInv /\ [Next]_vars =>
        [\A j \in JobIds : status[j] \in Terminal => status'[j] = status[j]]_vars
  BY NextKeepsPromises
<1> QED
  BY <1>1, TypeCorrect, Registry, PTL DEF Spec, TerminalIsFinal

\* No result overtakes an accepted cancellation, and nothing under way is
\* cancelled unasked.
THEOREM CancellationHonoured == Spec => CancellationIsHonoured
<1>1. TypeOK /\ RegistryInv /\ [Next]_vars =>
        [\A j \in JobIds :
           /\ status[j] = "cancel_requested" =>
                status'[j] \in {"cancel_requested", "cancelled", "interrupted"}
           /\ status[j] \in Active /\ status'[j] = "cancelled" =>
                status[j] = "cancel_requested"]_vars
  BY NextKeepsPromises
<1> QED
  BY <1>1, TypeCorrect, Registry, PTL DEF Spec, CancellationIsHonoured

\* Only a claim by a running Router or a cancellation empties the queue.
THEOREM QueueSurvivesRestart == Spec => QueueSurvives
<1>1. TypeOK /\ RegistryInv /\ [Next]_vars =>
        [\A j \in Queued :
           \/ status'[j] \in {"queued", "cancelled"}
           \/ status'[j] = "starting" /\ proc = "running"]_vars
  BY NextKeepsPromises DEF Queued, InStatus
<1> QED
  BY <1>1, TypeCorrect, Registry, PTL DEF Spec, QueueSurvives
-----------------------------------------------------------------------------
(* Retries *)

\* A retry is made no earlier than its parent because no row is younger than
\* the clock.
LineageInv ==
  /\ RetryLineage
  /\ \A j \in JobIds : status[j] # "absent" => created[j] <= clock

\* A step that leaves the columns of every row and every ended row alone.
LEMMA LineageUntouched ==
  ASSUME TypeOK, LineageInv,
         UNCHANGED <<created, agents, attempt, parent, clock>>,
         \A j \in JobIds : /\ status[j] \in Terminal => status'[j] = status[j]
                           /\ status[j] = "absent" => status'[j] = "absent"
  PROVE  LineageInv'
<1>1. ASSUME NEW j \in JobIds, status'[j] # "absent"
      PROVE  status[j] # "absent"
  BY <1>1
<1>2. ASSUME NEW j \in JobIds, status'[j] # "absent", parent[j] # NoJob
      PROVE  status'[parent[j]] \in {"failed", "cancelled", "interrupted"}
  <2>1. parent[j] \in JobIds /\ status[parent[j]] \in {"failed", "cancelled", "interrupted"}
    BY <1>1, <1>2 DEF TypeOK, LineageInv, RetryLineage
  <2> QED
    BY <2>1 DEF Terminal
<1>3. RetryLineage'
  BY <1>1, <1>2 DEF LineageInv, RetryLineage
<1> QED
  BY <1>1, <1>3 DEF LineageInv

LEMMA LineageOfNewRow ==
  ASSUME TypeOK, LineageInv, NEW j \in JobIds, NEW p, NEW n, NEW a,
         NEW par \in JobIds \union {NoJob},
         CreateJob(j, p, n, a, par),
         IF par = NoJob THEN a = 1
         ELSE status[par] \in Retryable /\ a = attempt[par] + 1 /\ n = agents[par]
  PROVE  LineageInv'
<1>1. /\ status[j] = "absent"
      /\ status' = [status EXCEPT ![j] = "queued"]
      /\ agents' = [agents EXCEPT ![j] = n]
      /\ attempt' = [attempt EXCEPT ![j] = a]
      /\ parent' = [parent EXCEPT ![j] = par]
  BY DEF CreateJob
<1>2. PICK now \in {clock, clock + 1} :
        clock' = now /\ created' = [created EXCEPT ![j] = now]
  BY DEF CreateJob
<1>3. par # NoJob => par \in JobIds /\ par # j /\ created[par] <= clock
  BY <1>1 DEF LineageInv, Retryable
<1>4. clock \in Nat /\ now \in Nat /\ clock <= now
  BY <1>2 DEF TypeOK
<1>5. ASSUME NEW k \in JobIds, status'[k] # "absent"
      PROVE  created'[k] <= clock'
  <2>1. CASE k = j
    BY <1>2, <1>4, <2>1 DEF TypeOK
  <2>2. CASE k # j
    <3>1. created[k] <= clock /\ created[k] \in Nat
      BY <1>1, <1>5, <2>2 DEF LineageInv, TypeOK
    <3> QED
      BY <1>2, <1>4, <2>2, <3>1 DEF TypeOK
  <2> QED
    BY <2>1, <2>2
<1>6. ASSUME NEW k \in JobIds, status'[k] # "absent", k # j, parent[k] # NoJob
      PROVE  /\ parent[k] \in JobIds \ {j}
             /\ status[parent[k]] \in {"failed", "cancelled", "interrupted"}
             /\ attempt[k] = attempt[parent[k]] + 1
             /\ agents[k] = agents[parent[k]]
             /\ created[parent[k]] <= created[k]
  BY <1>1, <1>6 DEF LineageInv, RetryLineage, TypeOK
<1>7. ASSUME NEW k \in JobIds, status'[k] # "absent", k # j
      PROVE  IF parent'[k] = NoJob
             THEN attempt'[k] = 1
             ELSE /\ status'[parent'[k]] \in {"failed", "cancelled", "interrupted"}
                  /\ attempt'[k] = attempt'[parent'[k]] + 1
                  /\ agents'[k] = agents'[parent'[k]]
                  /\ created'[parent'[k]] <= created'[k]
  <2>1. CASE parent[k] = NoJob
    BY <1>1, <1>7, <2>1 DEF LineageInv, RetryLineage, TypeOK
  <2>2. CASE parent[k] # NoJob
    BY <1>1, <1>2, <1>6, <1>7, <2>2 DEF TypeOK
  <2> QED
    BY <2>1, <2>2
<1>8. IF parent'[j] = NoJob
      THEN attempt'[j] = 1
      ELSE /\ status'[parent'[j]] \in {"failed", "cancelled", "interrupted"}
           /\ attempt'[j] = attempt'[parent'[j]] + 1
           /\ agents'[j] = agents'[parent'[j]]
           /\ created'[parent'[j]] <= created'[j]
  <2>1. CASE par = NoJob
    BY <1>1, <2>1 DEF TypeOK
  <2>2. CASE par # NoJob
    <3>1. created[par] <= now
      BY <1>3, <1>4, <2>2 DEF TypeOK
    <3> QED
      BY <1>1, <1>2, <1>3, <2>2, <3>1 DEF TypeOK, Retryable
  <2> QED
    BY <2>1, <2>2
<1>9. RetryLineage'
  BY <1>7, <1>8 DEF RetryLineage
<1> QED
  BY <1>5, <1>9 DEF LineageInv

LEMMA NextLineage ==
  ASSUME TypeOK, RegistryInv, LineageInv, [Next]_vars
  PROVE  LineageInv'
<1> USE DEF settings, memory, columns
<1>1. ASSUME NEW j \in JobIds, NEW p \in Priorities, NEW n \in AgentCounts,
             Submit(j, p, n)
      PROVE  LineageInv'
  BY <1>1, LineageOfNewRow DEF Submit
<1>2. ASSUME NEW j \in JobIds, NEW k \in JobIds, NEW p \in Priorities, Retry(k, j, p)
      PROVE  LineageInv'
  <2>1. k # NoJob
    BY SchedulerAssumption
  <2> QED
    BY <1>2, <2>1, LineageOfNewRow DEF Retry
<1>3. CASE /\ \A j \in JobIds : status[j] = "absent" => status'[j] = "absent"
           /\ UNCHANGED <<created, agents, attempt, parent, clock>>
  BY <1>3, NextKeepsPromises, LineageUntouched
<1>4. ASSUME NEW j \in JobIds, NEW p \in Priorities, UpdatePriority(j, p)
      PROVE  LineageInv'
  BY <1>3, <1>4 DEF UpdatePriority
<1>5. ASSUME NEW j \in JobIds, Cancel(j)
      PROVE  LineageInv'
  BY <1>3, <1>5 DEF Cancel, CancelQueued, CancelActive, CancelCancelled, Transition,
                    CanTransition, Statuses, Active, Terminal, TypeOK
<1>6. ASSUME NEW j \in JobIds, ClaimNextQueuedJob(j)
      PROVE  LineageInv'
  BY <1>3, <1>6 DEF ClaimNextQueuedJob, IsNextQueued, Queued, InStatus, Transition, TypeOK
<1>7. CASE Launch
  BY <1>3, <1>7 DEF Launch, Transition, RegistryInv, TypeOK
<1>8. ASSUME NEW j \in JobIds, EvaluationStarting(j)
      PROVE  LineageInv'
  BY <1>3, <1>8 DEF EvaluationStarting, Transition, TypeOK
<1>9. ASSUME NEW j \in JobIds, Settle(j)
      PROVE  LineageInv'
  <2>1. \A to : Transition(j, to) => status[j] # "absent"
    BY DEF Transition, CanTransition, Statuses, Active, Terminal
  <2>2. \A k \in JobIds : status[k] = "absent" => status'[k] = "absent"
    <3>1. CASE FinishCancelled(j)
      BY <3>1 DEF FinishCancelled, Active, TypeOK
    <3>2. CASE FinishCompleted(j) \/ FinishFailed(j)
      BY <2>1, <3>2 DEF FinishCompleted, FinishFailed, Transition, TypeOK
    <3> QED
      BY <1>9, <3>1, <3>2 DEF Settle
  <2> QED
    BY <1>3, <1>9, <2>2 DEF Settle
<1>10. CASE BeginShutdown \/ FinishShutdown \/ Boot
  BY <1>3, <1>10 DEF BeginShutdown, FinishShutdown, Boot, MarkInterruptedJobs, TransitionAll, UnderWay, InStatus,
                     Active, RegistryInv, ActiveJobsAreTracked, EventLoopFree
<1>11. CASE BeginDispatch \/ EndDispatch \/ CloseDatabase \/ Crash \/ UNCHANGED vars
  BY <1>3, <1>11 DEF BeginDispatch, EndDispatch, CloseDatabase, Crash, vars
<1>12. ASSUME NEW c \in Configs, Reconfigure(c)
       PROVE  LineageInv'
  BY <1>3, <1>12 DEF Reconfigure
<1> QED
  BY <1>1, <1>2, <1>4, <1>5, <1>6, <1>7, <1>8, <1>9, <1>10, <1>11, <1>12 DEF Next

\* Every retry is one attempt after a parent that has ended, however long the
\* chain of retries grows.
THEOREM RetriesHaveLineage == Spec => []RetryLineage
<1>1. Init => LineageInv
  BY DEF Init, LineageInv, RetryLineage
<1>2. LineageInv => RetryLineage
  BY DEF LineageInv
<1> QED
  BY <1>1, <1>2, NextLineage, TypeCorrect, Registry, PTL DEF Spec
-----------------------------------------------------------------------------
(* Refinement of JobLifecycle *)

LEMMA PhaseOfOneRow ==
  ASSUME TypeOK, NEW j \in JobIds, NEW to, status' = [status EXCEPT ![j] = to]
  PROVE  phases[j] = Phase(status[j]) /\ phases' = [phases EXCEPT ![j] = Phase(to)]
BY DEF phases, TypeOK

LEMMA SamePhases ==
  ASSUME \A j \in JobIds : Phase(status'[j]) = Phase(status[j])
  PROVE  UNCHANGED phases
BY DEF phases

\* Phase, as a table.
LEMMA PhaseTable ==
  /\ Phase("absent") = "absent" /\ Phase("queued") = "queued"
  /\ Phase("starting") = "active" /\ Phase("running") = "active"
  /\ Phase("evaluating") = "active" /\ Phase("cancel_requested") = "cancelling"
  /\ Phase("completed") = "completed" /\ Phase("failed") = "failed"
  /\ Phase("cancelled") = "cancelled" /\ Phase("interrupted") = "interrupted"
BY DEF Phase

LEMMA PhaseUnderWay == TypeOK => Lifecycle!UnderWay = UnderWay
<1> SUFFICES ASSUME TypeOK, NEW j \in JobIds
             PROVE  phases[j] \in {"active", "cancelling"} <=> status[j] \in Active
  BY DEF Lifecycle!UnderWay, UnderWay, InStatus
<1>1. phases[j] = Phase(status[j])
  BY DEF phases
<1>2. status[j] \in Statuses \union {"absent"}
  BY DEF TypeOK
<1> QED
  BY <1>1, <1>2, PhaseTable DEF Statuses, Active, Terminal

\* Rows that move together in the table move together in the abstract step.
LEMMA PhaseOfManyRows ==
  ASSUME TypeOK, NEW S \in SUBSET JobIds, NEW T \in SUBSET JobIds, NEW to, TransitionAll(S, to),
         T \subseteq S, \A j \in S \ T : Phase(status[j]) = Phase(to)
  PROVE  Lifecycle!MoveJobs(T, Phase(to))
BY DEF TransitionAll, phases, Lifecycle!MoveJobs

\* The instance counts as this module does.
LEMMA SameCardinality == \A S : Lifecycle!Cardinality(S) = Cardinality(S)
BY DEF Lifecycle!Cardinality, Cardinality

LEMMA NextRefines ==
  ASSUME TypeOK, RegistryInv, [Next]_vars
  PROVE  [Lifecycle!Next]_phases
<1> USE DEF settings, memory, columns
<1>1. ASSUME NEW j \in JobIds, NEW p, NEW n, NEW a, NEW par, CreateJob(j, p, n, a, par)
      PROVE  Lifecycle!Next
  <2>1. phases[j] = "absent" /\ phases' = [phases EXCEPT ![j] = "queued"]
    <3>1. status[j] = "absent" /\ status' = [status EXCEPT ![j] = "queued"]
      BY <1>1 DEF CreateJob
    <3>2. phases[j] = Phase(status[j]) /\ phases' = [phases EXCEPT ![j] = Phase("queued")]
      BY <3>1, PhaseOfOneRow
    <3> QED
      BY <3>1, <3>2, PhaseTable
  <2> QED
    BY <2>1 DEF Lifecycle!Next, Lifecycle!Accept, Lifecycle!MoveJob
<1>2. ASSUME NEW j \in JobIds, Cancel(j)
      PROVE  [Lifecycle!Next]_phases
  <2>1. CASE CancelQueued(j)
    <3>1. phases[j] = "queued" /\ phases' = [phases EXCEPT ![j] = "cancelled"]
      <4>1. status[j] = "queued" /\ status' = [status EXCEPT ![j] = "cancelled"]
        BY <2>1 DEF CancelQueued, Transition
      <4>2. phases[j] = Phase(status[j]) /\ phases' = [phases EXCEPT ![j] = Phase("cancelled")]
        BY <4>1, PhaseOfOneRow
      <4> QED
        BY <4>1, <4>2, PhaseTable
    <3> QED
      BY <3>1 DEF Lifecycle!Next, Lifecycle!Withdraw, Lifecycle!MoveJob
  <2>2. CASE CancelActive(j) /\ status[j] \in Working
    <3>1. TransitionAll({j}, "cancel_requested")
      BY <2>2 DEF CancelActive, Transition, TransitionAll, TypeOK, Working
    <3>2. Lifecycle!MoveJobs({j}, "cancelling")
      BY <3>1, PhaseOfManyRows, PhaseTable
    <3>3. phases[j] = "active"
      BY <2>2, PhaseTable DEF phases, Working, Active
    <3> QED
      BY <3>2, <3>3 DEF Lifecycle!Next, Lifecycle!AskToStop
  <2>3. CASE (CancelActive(j) /\ status[j] \notin Working) \/ CancelCancelled(j)
    <3>1. UNCHANGED status
      BY <2>3 DEF CancelActive, CancelCancelled, Working, Transition, TypeOK
    <3> QED
      BY <3>1, SamePhases
  <2> QED
    BY <1>2, <2>1, <2>2, <2>3 DEF Cancel
<1>3. ASSUME NEW j \in JobIds, ClaimNextQueuedJob(j)
      PROVE  Lifecycle!Next
  <2>1. /\ status[j] = "queued" /\ status' = [status EXCEPT ![j] = "starting"]
        /\ claimed = NoJob /\ dispatching /\ Cardinality(active) < config.maxConcurrent
    BY <1>3 DEF ClaimNextQueuedJob, IsNextQueued, Queued, InStatus, Transition, SlotFree
  <2>2. phases[j] = "queued" /\ phases' = [phases EXCEPT ![j] = "active"]
    <3>1. phases[j] = Phase(status[j]) /\ phases' = [phases EXCEPT ![j] = Phase("starting")]
      BY <2>1, PhaseOfOneRow
    <3> QED
      BY <2>1, <3>1, PhaseTable
  <2>3. Lifecycle!UnderWay = active
    BY <2>1, PhaseUnderWay DEF RegistryInv, ActiveJobsAreTracked
  <2>4. IsFiniteSet(active)
    BY SchedulerAssumption, FS_Subset DEF TypeOK
  <2>5. Cardinality(active) < MaxActive
    <3>1. config.maxConcurrent \in 1..MaxActive /\ MaxActive \in Nat
      BY SchedulerAssumption DEF TypeOK, ConfigType
    <3> QED
      BY <2>1, <2>4, <3>1, FS_CardinalityType
  <2> QED
    <3>1. Cardinality(Lifecycle!UnderWay) < MaxActive
      BY <2>3, <2>5
    <3>2. Lifecycle!Begin(j)
      BY <2>2, <3>1, SameCardinality DEF Lifecycle!Begin, Lifecycle!MoveJob, Lifecycle!UnderWay
    <3> QED
      BY <3>2 DEF Lifecycle!Next
<1>4. CASE Launch
  <2>1. status[claimed] = "starting" /\ status' = [status EXCEPT ![claimed] = "running"]
    BY <1>4 DEF Launch, Transition, RegistryInv
  <2> QED
    BY <2>1, SamePhases, PhaseTable DEF TypeOK
<1>5. ASSUME NEW j \in JobIds, EvaluationStarting(j)
      PROVE  UNCHANGED phases
  BY <1>5, SamePhases, PhaseTable DEF EvaluationStarting, Transition, TypeOK
<1>6. ASSUME NEW j \in JobIds, Settle(j)
      PROVE  [Lifecycle!Next]_phases
  <2>1. CASE UNCHANGED status
    BY <2>1, SamePhases
  <2>2. CASE FinishCancelled(j) /\ status[j] \in Active
    <3>1. status[j] = "cancel_requested" /\ status' = [status EXCEPT ![j] = "cancelled"]
      BY <1>6, <2>2, SettleSeesStatus DEF FinishCancelled
    <3>2. phases[j] = "cancelling" /\ phases' = [phases EXCEPT ![j] = "cancelled"]
      <4>1. phases[j] = Phase(status[j]) /\ phases' = [phases EXCEPT ![j] = Phase("cancelled")]
        BY <3>1, PhaseOfOneRow
      <4> QED
        BY <3>1, <4>1, PhaseTable
    <3> QED
      BY <3>2 DEF Lifecycle!Next, Lifecycle!Stop, Lifecycle!MoveJob
  <2>3. ASSUME NEW to \in {"completed", "failed"}, Transition(j, to), ~CancellationSeen(j)
        PROVE  Lifecycle!Next
    <3>1. status[j] \in Working /\ status' = [status EXCEPT ![j] = to]
      BY <2>3 DEF Transition, CanTransition, JobTransitions, Statuses, Active, Terminal,
                  CancellationSeen, Working
    <3>2. phases[j] = "active" /\ phases' = [phases EXCEPT ![j] = to]
      <4>1. phases[j] = Phase(status[j]) /\ phases' = [phases EXCEPT ![j] = Phase(to)]
        BY <3>1, PhaseOfOneRow
      <4>2. Phase(status[j]) = "active" /\ Phase(to) = to
        BY <3>1, PhaseTable DEF Working, Active
      <4> QED
        BY <4>1, <4>2
    <3> QED
      BY <3>2 DEF Lifecycle!Next, Lifecycle!Conclude, Lifecycle!MoveJob
  <2> QED
    BY <1>6, <2>1, <2>2, <2>3 DEF Settle, FinishCancelled, FinishCompleted, FinishFailed
<1>7. CASE BeginShutdown
  <2> DEFINE S == {j \in active : status[j] \in Active}
             T == {j \in active : status[j] \in Working}
  <2>1. TransitionAll(S, "cancel_requested")
    BY <1>7 DEF BeginShutdown
  <2>2. S \in SUBSET JobIds /\ T \in SUBSET JobIds /\ T \subseteq S
    BY DEF TypeOK, Working
  <2>3. \A j \in S \ T : Phase(status[j]) = Phase("cancel_requested")
    BY DEF Working
  <2> HIDE DEF S
  <2>4. Lifecycle!MoveJobs(T, "cancelling")
    BY <2>1, <2>2, <2>3, PhaseOfManyRows, PhaseTable
  <2>5. \A j \in T : phases[j] = "active"
    BY PhaseTable DEF phases, Working, Active, TypeOK
  <2> QED
    BY <2>2, <2>4, <2>5 DEF Lifecycle!Next, Lifecycle!AskToStop
<1>8. CASE FinishShutdown \/ Boot
  <2>1. PICK S \in SUBSET UnderWay : TransitionAll(S, "interrupted")
    <3>1. CASE FinishShutdown
      <4>1. active = UnderWay
        BY <3>1 DEF FinishShutdown, EventLoopFree, RegistryInv, ActiveJobsAreTracked
      <4> QED
        BY <3>1, <4>1 DEF FinishShutdown
    <3>2. CASE Boot
      BY <3>2 DEF Boot, MarkInterruptedJobs
    <3> QED
      BY <1>8, <3>1, <3>2
  <2>2. S \in SUBSET JobIds
    BY DEF UnderWay, InStatus
  <2>3. Lifecycle!MoveJobs(S, "interrupted")
    BY <2>1, <2>2, PhaseOfManyRows, PhaseTable
  <2> QED
    BY <2>1, <2>2, <2>3, PhaseUnderWay DEF Lifecycle!Next, Lifecycle!Abandon
<1>9. ASSUME NEW j \in JobIds, NEW p \in Priorities, UpdatePriority(j, p)
      PROVE  UNCHANGED phases
  BY <1>9, SamePhases DEF UpdatePriority
<1>10. CASE BeginDispatch \/ EndDispatch \/ CloseDatabase \/ Crash \/ UNCHANGED vars
  BY <1>10, SamePhases DEF BeginDispatch, EndDispatch, CloseDatabase, Crash, vars
<1>11. ASSUME NEW c \in Configs, Reconfigure(c)
       PROVE  UNCHANGED phases
  BY <1>11, SamePhases DEF Reconfigure
<1> QED
  BY <1>1, <1>2, <1>3, <1>4, <1>5, <1>6, <1>7, <1>8, <1>9, <1>10, <1>11
     DEF Next, Submit, Retry

\* The scheduler, with its claims, wake-ups, shutdowns and crashes, implements
\* the abstract life cycle of a Job.
THEOREM RefinesLifecycle == Spec => ImplementsLifecycle
<1>1. Init => Lifecycle!Init
  BY PhaseTable DEF Init, Lifecycle!Init, phases
<1>2. TypeOK /\ RegistryInv /\ [Next]_vars => [Lifecycle!Next]_phases
  BY NextRefines
<1> QED
  BY <1>1, <1>2, TypeCorrect, Registry, PTL DEF Spec, ImplementsLifecycle, Lifecycle!Spec
=============================================================================
