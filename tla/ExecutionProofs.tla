-------------------------- MODULE ExecutionProofs --------------------------
(***************************************************************************)
(* What one execution leaves behind and records, for any Agents, any plans *)
(* of checks, whatever fails and wherever it is cancelled.                 *)
(***************************************************************************)
EXTENDS Execution, FiniteSetTheorems, TLAPS

Early    == {"start", "backend", "routing", "repository"}
InCall   == {"process", "remove", "exited"}
Settling == {"inspect", "static", "package", "image", "snapshot", "mount", "cleanup",
             "evaluated", "capture"}
Begun    == {"prepare", "assert"} \cup InCall \cup Settling
AtWork   == {"available", "worktree"} \cup Begun

\* The Agent's own end has been reported.
Evaluating == pc \in Settling \/ (pc \in InCall /\ call \in Checks \cup {"syntax"})

Results == [agent : Agents, status : Statuses, tracked : BOOLEAN, known : BOOLEAN]

Types ==
  /\ signal \in BOOLEAN /\ worked \in BOOLEAN
  /\ selected \in Seq(Agents) /\ index \in Nat /\ index <= Len(selected)
  /\ candidates \in Seq(Results)
  /\ terminals \in [Agents -> Nat]
  /\ checks \in Seq(Checks)
  /\ pc \in Early \cup AtWork \cup {"next", "rank", "done"}

\* Where the execution stands: nothing is recorded before its end, one result
\* is stored for each Agent in turn, and a cancelled competition is not ranked.
Control ==
  /\ outcome = "pending" <=> pc # "done"
  /\ pc = "start" => ~signal
  /\ pc # "done" => /\ runs = {} /\ winner = NoAgent /\ lost = FALSE
                    /\ task = IF pc \in Early THEN "none" ELSE "running"
  /\ pc \in Early => /\ index = 0 /\ worktrees = {}
                     /\ \A a \in Agents : terminals[a] = 0
  /\ pc \in Early \cup {"next", "rank"} => Len(candidates) = index
  /\ pc \in AtWork => index = Len(candidates) + 1
  /\ pc = "rank" => ~signal /\ index = Len(selected)
  /\ Single => Len(selected) <= 1
  /\ \A i, j \in DOMAIN selected : selected[i] = selected[j] => i = j

\* What has no removal before it any more was left behind.
Quiet ==
  /\ running \subseteq leftover
  /\ snapshot => "snapshot" \in leftover

Machine ==
  /\ running \subseteq leftover \cup (IF pc \in {"process", "remove"} THEN {call} ELSE {})
  /\ snapshot => \/ "snapshot" \in leftover \/ pc \in {"mount", "cleanup"}
                 \/ pc \in InCall /\ call \in Checks

\* What the Agent's process was found to be: a success has ended.
Work ==
  /\ pc \in Begun => Agent \in worktrees
  /\ pc \in InCall => call \in Checks \cup {"ollama", "syntax", Agent}
  /\ pc \in {"remove", "exited"} /\ ended = "success" => call \notin running
  /\ Evaluating /\ worked => Agent \notin running
  /\ pc = "capture" => worked /\ status \in Eligible
  /\ pc \in {"image", "snapshot", "mount"} \/ (pc \in InCall /\ call \in Checks) => checks # <<>>

\* The i-th candidate is the result of the i-th Agent, whose end was reported
\* and whose worktree is named by it.
CandidateOk(i) ==
  /\ candidates[i].agent = selected[i]
  /\ candidates[i].known => terminals[selected[i]] = 1
  /\ candidates[i].status \in Eligible =>
       /\ candidates[i].tracked /\ candidates[i].known
       /\ selected[i] \in worktrees \ running

Records ==
  /\ \A i \in DOMAIN candidates : CandidateOk(i)
  /\ \A a \in worktrees : \/ \E i \in DOMAIN candidates : selected[i] = a /\ candidates[i].known
                          \/ pc \in Begun /\ a = Agent
  /\ \A a \in Agents : terminals[a] <= 1
  /\ \A i \in DOMAIN selected : i > index => terminals[selected[i]] = 0
  /\ pc \in AtWork => terminals[Agent] = IF Evaluating THEN 1 ELSE 0

Promises ==
  /\ NothingLeftRunning /\ WinnerIsReviewable /\ CancelledLeavesNoResult
  /\ HistoryIsClosed /\ RunsMatchCandidates /\ AgentEndsOnce

ExecutionInv ==
  /\ Types
  /\ Control
  /\ pc # "done" => Machine /\ Work /\ Records
  /\ pc = "done" => Promises

-----------------------------------------------------------------------------
LEMMA InitExecution == Init => ExecutionInv
<1> SUFFICES ASSUME Init PROVE ExecutionInv
  OBVIOUS
<1>1. Types
  <2>1. <<>> \in Seq(Agents) /\ <<>> \in Seq(Results) /\ <<>> \in Seq(Checks) /\ Len(<<>>) = 0
    OBVIOUS
  <2>2. terminals \in [Agents -> Nat] /\ pc \in Early
    BY DEF Init, Early
  <2>3. signal \in BOOLEAN /\ worked \in BOOLEAN
    BY DEF Init
  <2>4. index \in Nat /\ index <= Len(selected)
    BY <2>1 DEF Init
  <2> QED
    BY <2>1, <2>2, <2>3, <2>4, Zenon DEF Init, Types
<1>2. Control
  BY DEF Init, Control, Early, AtWork, Begun, InCall, Settling, Single
<1>3. Machine /\ Work /\ Records
  BY DEF Init, Machine, Work, Records, Early, AtWork, Begun, InCall, Settling, Evaluating
<1> QED
  BY <1>1, <1>2, <1>3 DEF ExecutionInv, Init

\* The Agent at work is one of the Agents, and none of the earlier ones.
LEMMA AgentAtWork ==
  ASSUME ExecutionInv, pc \in AtWork
  PROVE  /\ index \in DOMAIN selected /\ Agent \in Agents
         /\ DOMAIN candidates = 1..(index - 1)
         /\ \A i \in DOMAIN candidates : i \in DOMAIN selected /\ selected[i] # Agent
         /\ Single => index = 1 /\ Len(selected) = 1
         /\ "snapshot" # Agent /\ "ollama" # Agent /\ "syntax" # Agent /\ Agent \notin Checks
<1>1. /\ index = Len(candidates) + 1 /\ index <= Len(selected)
      /\ selected \in Seq(Agents) /\ candidates \in Seq(Results) /\ index \in Nat
      /\ Single => Len(selected) <= 1
      /\ \A i, j \in DOMAIN selected : selected[i] = selected[j] => i = j
  BY DEF ExecutionInv, Types, Control
<1>2. index \in DOMAIN selected /\ Agent \in Agents /\ DOMAIN candidates = 1..(index - 1)
  BY <1>1 DEF Agent
<1>3. \A i \in DOMAIN candidates : i \in DOMAIN selected /\ selected[i] # Agent
  BY <1>1, <1>2 DEF Agent
<1>4. ASSUME Single PROVE index = 1 /\ Len(selected) = 1
  <2>1. Len(candidates) \in Nat /\ Len(selected) \in Nat /\ Len(selected) <= 1
    BY <1>1, <1>4
  <2>2. index = Len(candidates) + 1 /\ index <= Len(selected)
    BY <1>1
  <2>3. \A m, n \in Nat : m + 1 <= n /\ n <= 1 => m + 1 = 1 /\ n = 1
    OBVIOUS
  <2> QED
    BY <2>1, <2>2, <2>3, Zenon
<1>5. "snapshot" # Agent /\ "ollama" # Agent /\ "syntax" # Agent /\ Agent \notin Checks
  BY <1>2, ExecutionAssumption
<1> QED
  BY <1>2, <1>3, <1>4, <1>5

-----------------------------------------------------------------------------
(* How an Agent's turn can go on.                                          *)

Others ==
  /\ worked \in BOOLEAN
  /\ checks \in Seq(Checks)
  /\ terminals \in [Agents -> Nat]

\* Only the Agent at work is reported, and once.
Told ==
  /\ \A a \in Agents \ {Agent} : terminals'[a] = terminals[a]
  /\ terminals'[Agent] \in {0, 1}

LEMMA ToldOnce ==
  ASSUME ExecutionInv, pc \in AtWork, Told
  PROVE  /\ \A a \in Agents : terminals'[a] <= 1
         /\ \A i \in DOMAIN candidates :
               /\ candidates[i].agent = selected[i] /\ selected[i] \in Agents
               /\ candidates[i].known => terminals'[selected[i]] = 1
         /\ \A i \in DOMAIN selected : i > index => terminals'[selected[i]] = 0
<1>1. Records /\ pc # "done" /\ selected \in Seq(Agents) /\ index \in Nat
  BY DEF ExecutionInv, AtWork, Begun, InCall, Settling, Types
<1>2. \A i \in DOMAIN selected : selected[i] \in Agents
  BY <1>1
<1>3. \A a \in Agents : terminals'[a] <= 1
  BY <1>1 DEF Records, Told
<1>4. ASSUME NEW i \in DOMAIN candidates
      PROVE  /\ candidates[i].agent = selected[i] /\ selected[i] \in Agents
             /\ candidates[i].known => terminals'[selected[i]] = 1
  <2>1. selected[i] # Agent /\ selected[i] \in Agents
    BY AgentAtWork, <1>2
  <2>2. CandidateOk(i)
    BY <1>1 DEF Records
  <2> QED
    BY <2>1, <2>2 DEF CandidateOk, Told
<1>5. ASSUME NEW i \in DOMAIN selected, i > index PROVE terminals'[selected[i]] = 0
  <2>1. index \in DOMAIN selected /\ i # index /\ selected[i] \in Agents
    BY <1>2, <1>5, <1>1, AgentAtWork
  <2>2. selected[i] # Agent
    BY <2>1 DEF ExecutionInv, Control, Agent
  <2> QED
    BY <2>1, <2>2, <1>1, <1>5 DEF Records, Told
<1> QED
  BY <1>3, <1>4, <1>5

\* To the next await of the same Agent.
LEMMA Moved ==
  ASSUME ExecutionInv, pc \in AtWork, pc' \in AtWork,
         UNCHANGED <<history, candidates, outcome, plan, index>>, Others', Told,
         worktrees' = worktrees \/ (pc' \in Begun /\ worktrees' = worktrees \cup {Agent}),
         pc \in Begun => pc' \in Begun,
         running' \subseteq running \cup Checks \cup {"ollama", "syntax", Agent},
         terminals'[Agent] = IF Evaluating' THEN 1 ELSE 0,
         Machine', Work'
  PROVE  ExecutionInv'
<1>1. pc # "done" /\ pc' # "done" /\ pc' \notin Early \cup {"next", "rank"} /\ pc \notin Early \cup {"next", "rank"}
  BY DEF AtWork, Begun, InCall, Settling, Early
<1>2. Types'
  BY <1>1 DEF ExecutionInv, Types, plan, Others
<1>3. Control'
  BY <1>1 DEF ExecutionInv, Control, plan, history, Single, Early
<1>4. Records'
  <2>1. Records /\ Agent' = Agent
    BY <1>1 DEF ExecutionInv, plan, Agent
  <2>2. ASSUME NEW i \in DOMAIN candidates PROVE CandidateOk(i)'
    <3>1. CandidateOk(i) /\ selected[i] \in Agents /\ selected[i] # Agent
      BY <2>1, ToldOnce, AgentAtWork DEF Records
    <3>2. selected[i] \notin Checks /\ selected[i] # "ollama" /\ selected[i] # "syntax"
      BY <3>1, ExecutionAssumption
    <3> QED
      BY <3>1, <3>2, ToldOnce DEF CandidateOk, plan
  <2>3. ASSUME NEW a \in worktrees'
        PROVE  \/ \E i \in DOMAIN candidates : selected[i] = a /\ candidates[i].known
               \/ pc' \in Begun /\ a = Agent
    BY <2>1 DEF Records
  <2> QED
    BY <2>1, <2>2, <2>3, ToldOnce DEF Records, plan
<1> QED
  BY <1>1, <1>2, <1>3, <1>4 DEF ExecutionInv

LEMMA CancelledEnds ==
  ASSUME ExecutionInv, pc # "done", signal, Cancelled, Quiet', AgentEndsOnce', Others',
         UNCHANGED <<plan, index, candidates>>
  PROVE  ExecutionInv'
<1>1. /\ pc' = "done" /\ outcome' = "cancelled" /\ signal' = signal
      /\ winner' = NoAgent /\ runs' = {}
      /\ lost' = TRUE \/ task' = "cancelled"
  BY DEF Cancelled, End, plan, ExecutionInv, Control
<1>2. Types'
  BY <1>1 DEF ExecutionInv, Types, plan, Others
<1>3. Control'
  BY <1>1 DEF ExecutionInv, Control, plan, Single, Early, AtWork, Begun, InCall, Settling
<1>4. NothingLeftRunning' /\ WinnerIsReviewable' /\ CancelledLeavesNoResult' /\ HistoryIsClosed'
  BY <1>1 DEF NothingLeftRunning, WinnerIsReviewable, CancelledLeavesNoResult, HistoryIsClosed, Quiet
<1>5. RunsMatchCandidates'
  <2>1. lost' = FALSE => task' \notin Statuses \cup {"no_valid_candidate"}
    BY <1>1 DEF Statuses, Eligible
  <2> QED
    BY <1>1, <2>1 DEF RunsMatchCandidates
<1> QED
  BY <1>1, <1>2, <1>3, <1>4, <1>5 DEF ExecutionInv, Promises

LEMMA Persisted ==
  ASSUME NEW cands \in Seq(Results), NEW s, NEW w, NEW how, Persist(cands, s, w, how)
  PROVE  /\ pc' = "done" /\ outcome' = how
         /\ \A r \in runs' : \E i \in DOMAIN cands : r = [agent |-> selected[i], result |-> cands[i]]
         /\ task' \in {s, task} /\ winner' \in {w, winner}
         /\ ~lost' => /\ task' = s
                      /\ \A i \in DOMAIN cands : [agent |-> selected[i], result |-> cands[i]] \in runs'
<1>1. PICK unwritten \in SUBSET DOMAIN cands, closed \in BOOLEAN :
        /\ runs' = {[agent |-> selected[i], result |-> cands[i]] : i \in DOMAIN cands \ unwritten}
        /\ task' = IF closed THEN s ELSE task
        /\ winner' = IF closed THEN w ELSE winner
        /\ lost' = (lost \/ unwritten # {} \/ ~closed)
        /\ pc' = "done" /\ outcome' = how
  BY DEF Persist, End
<1>2. ASSUME ~lost' PROVE unwritten = {} /\ closed
  BY <1>1, <1>2
<1> QED
  BY <1>1, <1>2

LEMMA SingleEnds ==
  ASSUME ExecutionInv, pc \in AtWork, Single,
         NEW s \in Statuses, NEW tracked \in BOOLEAN, NEW known \in BOOLEAN,
         NEW w \in {NoAgent, Agent}, NEW how \in {"returned", "failed"},
         Persist(<<Candidate(s, tracked, known)>>, s, w, how),
         UNCHANGED <<plan, index, worktrees, candidates>>, Others', Told, Quiet',
         known \/ pc \notin Begun,
         w = Agent => s \in Eligible /\ tracked /\ known /\ Agent \in worktrees \ running'
  PROVE  ExecutionInv'
<1> DEFINE cand == Candidate(s, tracked, known)
<1>1. index = 1 /\ Len(selected) = 1 /\ Agent = selected[1] /\ Agent \in Agents
      /\ DOMAIN selected = {1} /\ DOMAIN candidates = 1..0
  BY AgentAtWork DEF Agent, ExecutionInv, Types
<1>2. cand \in Results /\ <<cand>> \in Seq(Results) /\ DOMAIN <<cand>> = {1} /\ <<cand>>[1] = cand
  BY <1>1 DEF Candidate, Results
<1>3. /\ cand.agent = Agent /\ cand.status = s /\ cand.tracked = tracked /\ cand.known = known
  BY DEF Candidate
<1>4. /\ pc' = "done" /\ outcome' = how
      /\ \A r \in runs' : r = [agent |-> Agent, result |-> cand]
      /\ task' \in {s, task} /\ winner' \in {w, winner}
      /\ ~lost' => task' = s /\ [agent |-> Agent, result |-> cand] \in runs'
  BY Persisted, <1>1, <1>2
<1>5. pc # "done" /\ pc \notin Early /\ winner = NoAgent /\ task = "running" /\ NoAgent # Agent
  BY ExecutionAssumption, <1>1 DEF ExecutionInv, Control, AtWork, Begun, InCall, Settling, Early
<1>6. Types'
  BY <1>1, <1>4 DEF ExecutionInv, Types, plan, Others
<1>7. Control'
  BY <1>4 DEF ExecutionInv, Control, plan, Single, Early, AtWork, Begun, InCall, Settling
<1>8. NothingLeftRunning'
  BY DEF NothingLeftRunning, Quiet
<1>9. WinnerIsReviewable'
  BY <1>3, <1>4, <1>5 DEF WinnerIsReviewable
<1>10. CancelledLeavesNoResult'
  BY <1>4 DEF CancelledLeavesNoResult, plan, Single
<1>11. HistoryIsClosed'
  <2>1. \A a \in worktrees : pc \in Begun /\ a = Agent
    BY <1>1, <1>5 DEF ExecutionInv, Records
  <2>2. s # "running"
    BY DEF Statuses, Eligible
  <2> QED
    BY <1>3, <1>4, <2>1, <2>2 DEF HistoryIsClosed
<1>12. RunsMatchCandidates'
  BY <1>1, <1>3, <1>4, <1>5 DEF RunsMatchCandidates, plan, Statuses, Eligible
<1>13. AgentEndsOnce'
  BY <1>1, ToldOnce DEF AgentEndsOnce
<1> QED
  BY <1>4, <1>6, <1>7, <1>8, <1>9, <1>10, <1>11, <1>12, <1>13 DEF ExecutionInv, Promises

LEMMA Pushed ==
  ASSUME ExecutionInv, pc \in AtWork,
         NEW s \in Statuses, NEW tracked \in BOOLEAN, NEW known \in BOOLEAN,
         Push(Candidate(s, tracked, known)),
         UNCHANGED <<plan, index, worktrees>>, Others', Told, Quiet', running' \subseteq running,
         known => pc \in Begun /\ terminals'[Agent] = 1,
         known \/ pc \notin Begun,
         s \in Eligible => tracked /\ known /\ Agent \in worktrees \ running'
  PROVE  ExecutionInv'
<1> DEFINE cand == Candidate(s, tracked, known)
<1>1. /\ index \in DOMAIN selected /\ Agent \in Agents /\ index = Len(candidates) + 1
      /\ DOMAIN candidates = 1..(index - 1) /\ index \in Nat /\ Agent = selected[index]
      /\ candidates \in Seq(Results)
  BY AgentAtWork DEF ExecutionInv, Control, Types, Agent
<1>2. /\ pc' = "next" /\ candidates' = Append(candidates, cand)
      /\ UNCHANGED <<history, outcome>>
  BY DEF Push
<1>3. cand \in Results /\ cand.agent = Agent /\ cand.status = s /\ cand.tracked = tracked
      /\ cand.known = known
  BY <1>1 DEF Candidate, Results
<1>4. /\ candidates' \in Seq(Results) /\ Len(candidates') = index
      /\ DOMAIN candidates' = 1..index /\ candidates'[index] = cand
      /\ \A i \in DOMAIN candidates : candidates'[i] = candidates[i] /\ i \in DOMAIN candidates'
  BY <1>1, <1>2, <1>3
<1>5. pc # "done" /\ pc \notin Early \cup {"next", "rank"}
  BY DEF AtWork, Begun, InCall, Settling, Early
<1>6. Types'
  BY <1>2, <1>4 DEF ExecutionInv, Types, plan, Others
<1>7. Control'
  BY <1>2, <1>4, <1>5 DEF ExecutionInv, Control, plan, history, Single, Early, AtWork, Begun, InCall, Settling
<1>8. Machine' /\ Work'
  BY <1>2 DEF Machine, Work, Quiet, Evaluating, AtWork, Begun, InCall, Settling
<1>9. Records'
  <2>1. Records
    BY <1>5 DEF ExecutionInv
  <2>2. ASSUME NEW i \in DOMAIN candidates' PROVE CandidateOk(i)'
    <3>1. CASE i = index
      BY <3>1, <1>1, <1>3, <1>4 DEF CandidateOk, plan
    <3>2. CASE i # index
      <4>1. i \in DOMAIN candidates /\ candidates'[i] = candidates[i] /\ CandidateOk(i)
        BY <3>2, <1>1, <1>4, <2>1 DEF Records
      <4> QED
        BY <4>1, ToldOnce DEF CandidateOk, plan
    <3> QED
      BY <3>1, <3>2
  <2>3. ASSUME NEW a \in worktrees
        PROVE  \E i \in DOMAIN candidates' : selected[i] = a /\ candidates'[i].known
    BY <1>1, <1>3, <1>4, <2>1 DEF Records
  <2>4. pc' \notin AtWork
    BY <1>2 DEF AtWork, Begun, InCall, Settling
  <2> QED
    BY <2>2, <2>3, <2>4, ToldOnce DEF Records, plan
<1> QED
  BY <1>2, <1>6, <1>7, <1>8, <1>9 DEF ExecutionInv

\* The end of an Agent's turn that has a result.
LEMMA Concluded ==
  ASSUME ExecutionInv, pc \in Begun, NEW s \in Statuses, NEW tracked \in BOOLEAN,
         Conclude(s, tracked), UNCHANGED <<plan, index, worktrees>>, Others', Told, Quiet',
         running' \subseteq running, terminals'[Agent] = 1,
         s \in Eligible => tracked /\ Agent \in worktrees \ running'
  PROVE  ExecutionInv'
<1>1. pc \in AtWork
  BY DEF AtWork
<1>2. CASE Single
  <2>1. /\ Persist(<<Candidate(s, tracked, TRUE)>>, s, WinnerOf(s, Agent), "returned")
        /\ candidates' = candidates
    BY <1>2 DEF Conclude
  <2>2. WinnerOf(s, Agent) \in {NoAgent, Agent}
    BY DEF WinnerOf
  <2>3. WinnerOf(s, Agent) = Agent => s \in Eligible
    BY <1>1, AgentAtWork, ExecutionAssumption DEF WinnerOf
  <2> QED
    BY <1>1, <1>2, <2>1, <2>2, <2>3, SingleEnds
<1>3. CASE ~Single
  <2>1. Push(Candidate(s, tracked, TRUE))
    BY <1>3 DEF Conclude
  <2> QED
    BY <1>1, <2>1, Pushed
<1> QED
  BY <1>2, <1>3

\* The end of an Agent's turn by an error.
LEMMA FailedKeeps ==
  ASSUME ExecutionInv, pc \in AtWork, NEW known \in BOOLEAN, Failed(known),
         UNCHANGED <<plan, index>>, worktrees' = worktrees \/ signal,
         Others', Told, Quiet', running' \subseteq running,
         known => pc \in Begun /\ (signal \/ terminals'[Agent] = 1),
         known \/ pc \notin Begun
  PROVE  ExecutionInv'
<1>1. pc # "done" /\ signal \in BOOLEAN
  BY DEF AtWork, Begun, InCall, Settling, ExecutionInv, Types
<1>2. "failed" \in Statuses /\ "failed" \notin Eligible
  BY DEF Statuses, Eligible
<1>3. CASE signal
  <2>1. Cancelled /\ candidates' = candidates
    BY <1>3 DEF Failed
  <2>2. AgentEndsOnce'
    BY <2>1, ToldOnce DEF AgentEndsOnce
  <2> QED
    BY <1>1, <1>3, <2>1, <2>2, CancelledEnds
<1>4. CASE ~signal /\ Single
  <2>1. /\ Persist(<<Candidate("failed", FALSE, known)>>, "failed", NoAgent, "failed")
        /\ candidates' = candidates
    BY <1>4 DEF Failed
  <2>2. NoAgent # Agent
    BY AgentAtWork, ExecutionAssumption
  <2> QED
    BY <1>2, <1>4, <2>1, <2>2, SingleEnds
<1>5. CASE ~signal /\ ~Single
  <2>1. Push(Candidate("failed", FALSE, known))
    BY <1>5 DEF Failed
  <2> QED
    BY <1>2, <1>5, <2>1, Pushed
<1> QED
  BY <1>1, <1>3, <1>4, <1>5

\* An error once there is a worktree.
LEMMA FailedInTryKeeps ==
  ASSUME ExecutionInv, pc \in Begun, FailedInTry, UNCHANGED <<plan, index, worktrees>>,
         worked' \in BOOLEAN, checks' \in Seq(Checks), Quiet', running' \subseteq running
  PROVE  ExecutionInv'
<1>1. pc \in AtWork /\ pc # "done" /\ signal \in BOOLEAN
  BY DEF AtWork, Begun, InCall, Settling, ExecutionInv, Types
<1>2. terminals[Agent] \in {0, 1} /\ terminals \in [Agents -> Nat] /\ Agent \in Agents
  BY <1>1, AgentAtWork DEF ExecutionInv, Records, Types
<1>3. /\ terminals' \in [Agents -> Nat] /\ Told
      /\ signal \/ terminals'[Agent] = 1
  <2>1. CASE signal \/ terminals[Agent] > 0
    BY <2>1, <1>1, <1>2 DEF FailedInTry, Told
  <2>2. CASE ~(signal \/ terminals[Agent] > 0)
    BY <2>2, <1>1, <1>2 DEF FailedInTry, Told, Emit
  <2> QED
    BY <2>1, <2>2
<1>4. Failed(TRUE)
  BY DEF FailedInTry
<1> QED
  BY <1>1, <1>3, <1>4, FailedKeeps DEF Others

-----------------------------------------------------------------------------
(* The steps of an Agent's turn.                                           *)

LEMMA Untold ==
  ASSUME ExecutionInv, pc \in AtWork, UNCHANGED terminals
  PROVE  /\ Told /\ terminals' \in [Agents -> Nat]
         /\ terminals'[Agent] = IF Evaluating THEN 1 ELSE 0
  BY AgentAtWork DEF ExecutionInv, Types, Records, Told, AtWork, Begun, InCall, Settling

LEMMA QuietAt ==
  ASSUME ExecutionInv, pc \in AtWork \ {"process", "remove", "mount", "cleanup"},
         pc = "exited" => call \notin Checks
  PROVE  Quiet
  BY DEF ExecutionInv, Machine, Quiet, AtWork, Begun, InCall, Settling

\* On to another await of the evaluation.
LEMMA Evaluates ==
  ASSUME ExecutionInv, pc \in Begun, Evaluating, pc' \in Settling \ {"capture"},
         UNCHANGED <<history, candidates, outcome, plan, index, worktrees, running, terminals>>,
         worked' \in {worked, FALSE}, checks' \in Seq(Checks),
         pc' \in {"image", "snapshot", "mount"} => checks' # <<>>,
         running \subseteq leftover',
         snapshot' => "snapshot" \in leftover' \/ pc' \in {"mount", "cleanup"}
  PROVE  ExecutionInv'
<1>1. pc \in AtWork /\ pc # "done" /\ pc' \in AtWork /\ pc' \in Begun /\ pc' \notin InCall
      /\ Evaluating' /\ Agent' = Agent
  BY DEF AtWork, Begun, InCall, Settling, Evaluating, Agent, plan
<1>2. Told /\ terminals' \in [Agents -> Nat] /\ terminals'[Agent] = 1
  BY <1>1, Untold
<1>3. Machine'
  BY <1>1 DEF Machine, InCall
<1>4. Work'
  <2>1. Work
    BY <1>1 DEF ExecutionInv
  <2>2. worked' => worked
    OBVIOUS
  <2>3. pc' # "capture" /\ pc' \notin {"remove", "exited"}
    BY DEF Settling
  <2> QED
    BY <1>1, <2>1, <2>2, <2>3 DEF Work
<1>5. Others'
  BY <1>2 DEF Others, ExecutionInv, Types
<1> QED
  BY <1>1, <1>2, <1>3, <1>4, <1>5, Moved

LEMMA Spawned ==
  ASSUME ExecutionInv, pc \in Begun, NEW name \in Checks \cup {"ollama", Agent}, Spawn(name),
         UNCHANGED <<plan, index, worktrees, snapshot, leftover, worked, checks, terminals>>,
         running \subseteq leftover,
         name \in Checks <=> Evaluating,
         name \in Checks => checks # <<>>,
         name \notin Checks => Quiet
  PROVE  ExecutionInv'
<1>1. pc \in AtWork /\ pc # "done" /\ Agent' = Agent /\ Agent \notin Checks
      /\ name # "syntax"
  BY AgentAtWork, ExecutionAssumption DEF AtWork, Begun, InCall, Settling, Agent, plan
<1>2. /\ UNCHANGED <<history, candidates, outcome>> /\ call' = name
      /\ \/ ended' = "failure" /\ pc' \in {"remove", "exited"} /\ running' = running
         \/ ended' = "none" /\ pc' = "process" /\ running' = running \cup {name}
  BY DEF Spawn, AfterRun
<1>3. pc' \in InCall /\ pc' \in Begun /\ pc' \in AtWork /\ pc' \notin Settling
  BY <1>2 DEF InCall, Begun, AtWork, Settling
<1>4. Evaluating' <=> Evaluating
  BY <1>1, <1>2, <1>3 DEF Evaluating
<1>5. Told /\ terminals' \in [Agents -> Nat] /\ terminals'[Agent] = IF Evaluating' THEN 1 ELSE 0
  BY <1>1, <1>4, Untold
<1>6. Machine'
  BY <1>2, <1>3 DEF Machine, Quiet
<1>7. Work'
  BY <1>1, <1>2, <1>3, <1>4 DEF Work, ExecutionInv, Settling
<1>8. Others'
  BY <1>5 DEF Others, ExecutionInv, Types
<1> QED
  BY <1>1, <1>2, <1>3, <1>5, <1>6, <1>7, <1>8, Moved

LEMMA AssertAgentBackendKeeps == ASSUME ExecutionInv, AssertAgentBackend PROVE ExecutionInv'
<1>1. /\ pc = "available" /\ pc \in AtWork /\ pc \notin Begun /\ ~Evaluating /\ Quiet
      /\ UNCHANGED <<plan, index, machine, work, terminals>>
  BY QuietAt DEF AssertAgentBackend, AtWork, Begun, InCall, Settling, Evaluating
<1>2. Told /\ Others' /\ Quiet' /\ terminals'[Agent] = 0
  BY <1>1, Untold DEF Others, Quiet, machine, work, ExecutionInv, Types
<1>3. CASE Failed(FALSE)
  BY <1>1, <1>2, <1>3, FailedKeeps DEF machine
<1>4. CASE pc' = "worktree" /\ UNCHANGED <<history, candidates, outcome>>
  <2>1. pc' \in AtWork /\ pc' \notin Begun /\ ~Evaluating' /\ Machine'
    BY <1>1, <1>2, <1>4 DEF AtWork, Begun, InCall, Settling, Evaluating, Machine, Quiet
  <2>2. Work'
    BY <1>4, <2>1 DEF Work, Begun, InCall, Settling
  <2> QED
    BY <1>1, <1>2, <1>4, <2>1, <2>2, Moved DEF machine
<1> QED
  BY <1>3, <1>4 DEF AssertAgentBackend

LEMMA CreateWorktreeKeeps == ASSUME ExecutionInv, CreateWorktree PROVE ExecutionInv'
<1>1. /\ pc = "worktree" /\ pc \in AtWork /\ pc \notin Begun /\ ~Evaluating /\ Quiet
      /\ UNCHANGED <<plan, index, running, snapshot, work, terminals>>
  BY QuietAt DEF CreateWorktree, AtWork, Begun, InCall, Settling, Evaluating
<1>2. Told /\ Others' /\ terminals'[Agent] = 0 /\ signal \in BOOLEAN
  BY <1>1, Untold DEF Others, work, ExecutionInv, Types
<1>3. leftover \subseteq leftover' /\ Quiet'
  <2>1. leftover' \in {leftover, leftover \cup {Agent}} \/ leftover' = leftover
    BY DEF CreateWorktree
  <2>2. leftover \subseteq leftover' /\ running' = running /\ snapshot' = snapshot
    BY <1>1, <2>1
  <2> QED
    BY <1>1, <2>2 DEF Quiet
<1>4. CASE UNCHANGED worktrees /\ Failed(FALSE)
  BY <1>1, <1>2, <1>3, <1>4, FailedKeeps
<1>5. CASE signal /\ Failed(FALSE)
  BY <1>1, <1>2, <1>3, <1>5, FailedKeeps
<1>6. CASE worktrees' = worktrees \cup {Agent} /\ pc' = "prepare" /\ UNCHANGED <<history, candidates, outcome>>
  <2>1. pc' \in AtWork /\ pc' \in Begun /\ ~Evaluating' /\ Machine'
    BY <1>1, <1>3, <1>6 DEF AtWork, Begun, InCall, Settling, Evaluating, Machine, Quiet
  <2>2. Work'
    BY <1>1, <1>6, <2>1 DEF Work, Begun, InCall, Settling, Agent, plan
  <2> QED
    BY <1>1, <1>2, <1>6, <2>1, <2>2, Moved
<1> QED
  BY <1>2, <1>4, <1>5, <1>6 DEF CreateWorktree

LEMMA PrepareKeeps == ASSUME ExecutionInv, Prepare PROVE ExecutionInv'
<1>1. /\ pc = "prepare" /\ pc \in Begun /\ pc \in AtWork /\ ~Evaluating /\ Quiet
      /\ UNCHANGED <<plan, index, machine, work>>
  BY QuietAt DEF Prepare, AtWork, Begun, InCall, Settling, Evaluating
<1>2. Quiet' /\ worked' \in BOOLEAN /\ checks' \in Seq(Checks)
  BY <1>1 DEF Quiet, machine, work, ExecutionInv, Types
<1>3. CASE FailedInTry
  BY <1>1, <1>2, <1>3, FailedInTryKeeps DEF machine
<1>4. CASE pc' = "assert" /\ UNCHANGED <<history, candidates, terminals, outcome>>
  <2>1. Told /\ Others' /\ terminals'[Agent] = 0
    BY <1>1, <1>2, <1>4, Untold DEF Others
  <2>2. pc' \in AtWork /\ pc' \in Begun /\ ~Evaluating' /\ Machine'
    BY <1>1, <1>2, <1>4 DEF AtWork, Begun, InCall, Settling, Evaluating, Machine, Quiet
  <2>3. Work'
    BY <1>1, <1>4, <2>2 DEF Work, Begun, InCall, Settling, Agent, plan, machine, ExecutionInv
  <2> QED
    BY <1>1, <1>4, <2>1, <2>2, <2>3, Moved DEF machine
<1> QED
  BY <1>3, <1>4 DEF Prepare, Proceed

LEMMA RunBackendKeeps == ASSUME ExecutionInv, RunBackend PROVE ExecutionInv'
<1>1. /\ pc = "assert" /\ pc \in Begun /\ pc \in AtWork /\ ~Evaluating /\ Quiet
      /\ UNCHANGED <<plan, index, worktrees, snapshot, leftover, worked, checks>>
  BY QuietAt DEF RunBackend, AtWork, Begun, InCall, Settling, Evaluating
<1>2. CASE FailedInTry /\ UNCHANGED running
  <2>1. Quiet' /\ worked' \in BOOLEAN /\ checks' \in Seq(Checks)
    BY <1>1, <1>2 DEF Quiet, ExecutionInv, Types
  <2> QED
    BY <1>1, <1>2, <2>1, FailedInTryKeeps
<1>3. CASE Spawn(IF conf.docker THEN "ollama" ELSE Agent) /\ UNCHANGED terminals
  <2>1. "ollama" \notin Checks /\ Agent \notin Checks
    BY <1>1, AgentAtWork, ExecutionAssumption
  <2>2. running \subseteq leftover
    BY <1>1 DEF Quiet
  <2>3. CASE conf.docker
    BY <1>1, <1>3, <2>1, <2>2, <2>3, Spawned
  <2>4. CASE ~conf.docker
    BY <1>1, <1>3, <2>1, <2>2, <2>4, Spawned
  <2> QED
    BY <2>3, <2>4
<1> QED
  BY <1>2, <1>3 DEF RunBackend

LEMMA ProcessEndsKeeps == ASSUME ExecutionInv, ProcessEnds PROVE ExecutionInv'
<1>1. /\ pc = "process" /\ pc \in Begun /\ pc \in AtWork /\ Machine /\ Work
      /\ UNCHANGED <<plan, results, history, worktrees, snapshot, leftover, call, worked,
                     checks, terminals, outcome>>
      /\ pc' = AfterRun(call)
  BY DEF ProcessEnds, AtWork, Begun, InCall, ExecutionInv
<1>2. pc' = (IF Contained(call) THEN "remove" ELSE "exited") /\ pc' \in InCall
      /\ pc' \in Begun /\ pc' \in AtWork /\ pc' \notin Settling /\ pc \notin Settling
  BY <1>1 DEF AfterRun, InCall, Begun, AtWork, Settling
<1>3. /\ running' \in {running, running \ {call}}
      /\ ended' = "success" \/ ~Contained(call) => running' = running \ {call}
  BY DEF ProcessEnds
<1>4. Evaluating' <=> Evaluating
  BY <1>1, <1>2 DEF Evaluating, InCall
<1>5. Told /\ Others' /\ terminals'[Agent] = IF Evaluating' THEN 1 ELSE 0
  BY <1>1, <1>4, Untold DEF Others, ExecutionInv, Types
<1>6. Machine'
  <2>1. running' \subseteq leftover \cup {call} /\ (~Contained(call) => running' \subseteq leftover)
    BY <1>1, <1>3 DEF Machine
  <2>2. snapshot => "snapshot" \in leftover \/ call \in Checks
    BY <1>1 DEF Machine
  <2> QED
    BY <1>1, <1>2, <2>1, <2>2 DEF Machine
<1>7. Work'
  <2>1. Agent' = Agent
    BY <1>1 DEF Agent, plan, results
  <2>2. pc' # "capture" /\ pc' \notin {"image", "snapshot", "mount"} /\ pc \in InCall
    BY <1>1, <1>2, Zenon DEF InCall, Settling
  <2>3. ended' = "success" => call \notin running'
    BY <1>3
  <2>4. Evaluating /\ worked => Agent \notin running'
    BY <1>1, <1>3 DEF Work
  <2> QED
    BY <1>1, <1>2, <1>4, <2>1, <2>2, <2>3, <2>4 DEF Work
<1>8. running' \subseteq running
  BY <1>3
<1> QED
  BY <1>1, <1>2, <1>5, <1>6, <1>7, <1>8, Moved DEF results

LEMMA RemoveKeeps == ASSUME ExecutionInv, Remove PROVE ExecutionInv'
<1>1. /\ pc = "remove" /\ pc \in Begun /\ pc \in AtWork /\ Machine /\ Work
      /\ UNCHANGED <<plan, results, history, worktrees, snapshot, work, terminals, outcome>>
      /\ pc' = "exited"
  BY DEF Remove, AtWork, Begun, InCall, ExecutionInv
<1>2. pc' \in InCall /\ pc' \in Begun /\ pc' \in AtWork /\ pc' \notin Settling /\ pc \notin Settling
      /\ pc \in InCall
  BY <1>1 DEF InCall, Begun, AtWork, Settling
<1>3. /\ running' \subseteq running /\ leftover \subseteq leftover'
      /\ running' \subseteq leftover'
  BY <1>1 DEF Remove, Machine
<1>4. Evaluating' <=> Evaluating
  BY <1>1, <1>2 DEF Evaluating, work
<1>5. Told /\ Others' /\ terminals'[Agent] = IF Evaluating' THEN 1 ELSE 0
  BY <1>1, <1>4, Untold DEF Others, ExecutionInv, Types, work
<1>6. Machine'
  BY <1>1, <1>2, <1>3 DEF Machine, work
<1>7. Work'
  BY <1>1, <1>2, <1>3, <1>4 DEF Work, work, Agent, plan, results
<1> QED
  BY <1>1, <1>2, <1>3, <1>5, <1>6, <1>7, Moved DEF results

LEMMA OllamaVerifiedKeeps == ASSUME ExecutionInv, OllamaVerified PROVE ExecutionInv'
<1>1. /\ pc = "exited" /\ call = "ollama" /\ "ollama" \notin Checks
      /\ UNCHANGED <<plan, index, worktrees, snapshot, leftover, worked, checks>>
  BY ExecutionAssumption DEF OllamaVerified
<1>2. pc \in Begun /\ pc \in AtWork /\ ~Evaluating /\ Quiet
  BY <1>1, QuietAt DEF AtWork, Begun, InCall, Settling, Evaluating
<1>3. CASE FailedInTry /\ UNCHANGED running
  <2>1. Quiet' /\ worked' \in BOOLEAN /\ checks' \in Seq(Checks)
    BY <1>1, <1>2, <1>3 DEF Quiet, ExecutionInv, Types
  <2> QED
    BY <1>1, <1>2, <1>3, <2>1, FailedInTryKeeps
<1>4. CASE Spawn(Agent) /\ UNCHANGED terminals
  <2>1. Agent \notin Checks /\ running \subseteq leftover
    BY <1>2, AgentAtWork DEF Quiet
  <2> QED
    BY <1>1, <1>2, <1>4, <2>1, Spawned
<1> QED
  BY <1>3, <1>4 DEF OllamaVerified

LEMMA AgentEndedKeeps == ASSUME ExecutionInv, AgentEnded PROVE ExecutionInv'
<1>1. /\ pc = "exited" /\ call \in Agents /\ call \notin Checks /\ call # "ollama" /\ call # "syntax"
      /\ UNCHANGED <<plan, index, machine, call, ended, checks, status>>
  BY ExecutionAssumption DEF AgentEnded
<1>2. pc \in Begun /\ pc \in InCall /\ pc \in AtWork /\ pc # "done" /\ ~Evaluating /\ Quiet
  BY <1>1, QuietAt DEF AtWork, Begun, InCall, Settling, Evaluating
<1>3. Quiet' /\ checks' \in Seq(Checks) /\ signal \in BOOLEAN
  BY <1>1, <1>2 DEF Quiet, machine, ExecutionInv, Types
<1>4. CASE FailedInTry /\ UNCHANGED worked
  BY <1>1, <1>2, <1>3, <1>4, FailedInTryKeeps DEF machine, ExecutionInv, Types
<1>5. CASE /\ Emit /\ worked' = (ended = "success") /\ pc' = "inspect"
           /\ UNCHANGED <<history, candidates, outcome>>
  <2>1. Work /\ Machine /\ call = Agent /\ Agent \in Agents /\ Agent' = Agent
    BY <1>1, <1>2, AgentAtWork DEF ExecutionInv, Work, Agent, plan
  <2>2. pc' \in AtWork /\ pc' \in Begun /\ pc' \in Settling /\ pc' \notin InCall /\ Evaluating'
    BY <1>5 DEF AtWork, Begun, InCall, Settling, Evaluating
  <2>3. Told /\ Others' /\ terminals'[Agent] = 1
    <3>1. terminals \in [Agents -> Nat] /\ terminals[Agent] = 0
      BY <1>2 DEF ExecutionInv, Types, Records
    <3> QED
      BY <1>3, <1>5, <2>1, <3>1 DEF Emit, Told, Others
  <2>4. Machine'
    BY <1>3, <1>5 DEF Machine, Quiet
  <2>5. Work'
    BY <1>1, <1>2, <1>5, <2>1, <2>2 DEF Work, machine
  <2> QED
    BY <1>1, <1>2, <1>5, <2>2, <2>3, <2>4, <2>5, Moved DEF machine
<1> QED
  BY <1>3, <1>4, <1>5 DEF AgentEnded

-----------------------------------------------------------------------------
(* The steps of an evaluation.                                             *)

LEMMA EvaluationAt ==
  ASSUME ExecutionInv, pc \in Settling
  PROVE  /\ pc \in Begun /\ pc \in AtWork /\ pc # "done" /\ Evaluating /\ signal \in BOOLEAN
         /\ pc \notin {"process", "remove"} /\ running \subseteq leftover
         /\ checks \in Seq(Checks) /\ worked \in BOOLEAN
  BY DEF Settling, Begun, AtWork, Evaluating, ExecutionInv, Machine, Types

LEMMA InspectChangesKeeps == ASSUME ExecutionInv, InspectChanges PROVE ExecutionInv'
<1>1. /\ pc = "inspect" /\ pc \in Settling /\ UNCHANGED <<plan, index, machine, checks>>
  BY DEF InspectChanges, Settling
<1>2. Quiet /\ Quiet'
  BY <1>1, EvaluationAt, QuietAt DEF Quiet, machine
<1>3. CASE FailedInTry /\ UNCHANGED worked
  BY <1>1, <1>2, <1>3, EvaluationAt, FailedInTryKeeps DEF machine
<1>4. CASE worked' \in {worked, FALSE} /\ Goto("static")
  <2>1. pc' = "static" /\ UNCHANGED <<history, candidates, terminals, outcome>>
    BY <1>4 DEF Goto
  <2>2. pc' \in Settling \ {"capture"} /\ pc' \notin {"image", "snapshot", "mount"}
    BY <2>1 DEF Settling
  <2> QED
    BY <1>1, <1>2, <1>4, <2>1, <2>2, EvaluationAt, Evaluates DEF machine, Quiet
<1> QED
  BY <1>3, <1>4 DEF InspectChanges

\* A syntax check is a process of the host, which has ended when it settles.
LEMMA CheckSyntaxKeeps ==
  ASSUME ExecutionInv, pc = "static", CheckSyntax,
         UNCHANGED <<plan, index, worktrees, snapshot, leftover, worked, checks>>
  PROVE  ExecutionInv'
<1>1. /\ call' = "syntax" /\ pc' = "process" /\ running' = running \cup {"syntax"}
      /\ UNCHANGED <<history, candidates, terminals, outcome>>
  BY DEF CheckSyntax, Goto
<1>2. /\ pc \in Settling /\ pc' \in InCall /\ pc' \in Begun /\ pc' \in AtWork /\ pc' \notin Settling
      /\ Evaluating' /\ Agent' = Agent
  BY <1>1 DEF Settling, InCall, Begun, AtWork, Evaluating, Agent, plan
<1>3. /\ pc \in Begun /\ pc \in AtWork /\ pc # "done" /\ Evaluating /\ running \subseteq leftover
      /\ Agent # "syntax" /\ "syntax" \notin Checks /\ Quiet
  BY <1>2, EvaluationAt, AgentAtWork, QuietAt, ExecutionAssumption
<1>4. Told /\ Others' /\ terminals'[Agent] = 1
  BY <1>1, <1>2, <1>3, EvaluationAt, Untold DEF Others
<1>5. Machine'
  BY <1>1, <1>3 DEF Machine, Quiet
<1>6. Work'
  <2>1. Agent \in worktrees /\ (worked => Agent \notin running)
    BY <1>3 DEF ExecutionInv, Work
  <2> QED
    BY <1>1, <1>2, <1>3, <2>1 DEF Work
<1> QED
  BY <1>1, <1>2, <1>3, <1>4, <1>5, <1>6, Moved

LEMMA StaticChecksKeeps == ASSUME ExecutionInv, StaticChecks PROVE ExecutionInv'
<1>1. /\ pc = "static" /\ pc \in Settling
      /\ UNCHANGED <<plan, index, worktrees, snapshot, leftover, worked, checks>>
  BY DEF StaticChecks, Settling
<1>2. Quiet
  BY <1>1, EvaluationAt, QuietAt
<1>3. CASE FailedInTry /\ UNCHANGED running
  BY <1>1, <1>2, <1>3, EvaluationAt, FailedInTryKeeps DEF Quiet
<1>4. CASE pc' = "package" /\ UNCHANGED <<history, candidates, terminals, outcome, running>>
  <2>1. pc' \in Settling \ {"capture"} /\ pc' \notin {"image", "snapshot", "mount"}
    BY <1>4 DEF Settling
  <2> QED
    BY <1>1, <1>2, <1>4, <2>1, EvaluationAt, Evaluates DEF Quiet
<1>5. CASE CheckSyntax
  BY <1>1, <1>5, CheckSyntaxKeeps
<1> QED
  BY <1>3, <1>4, <1>5 DEF StaticChecks, Proceed

LEMMA SyntaxCheckedKeeps == ASSUME ExecutionInv, SyntaxChecked PROVE ExecutionInv'
<1>1. /\ pc = "exited" /\ call = "syntax" /\ pc' = "static"
      /\ UNCHANGED <<plan, index, machine, worked, checks, history, candidates, terminals, outcome>>
  BY DEF SyntaxChecked, Goto, work
<1>2. pc \in Begun /\ pc \in InCall /\ Evaluating /\ pc \in AtWork /\ pc' \in Settling \ {"capture"}
      /\ "syntax" \notin Checks
  BY <1>1, ExecutionAssumption DEF Begun, AtWork, InCall, Settling, Evaluating
<1>3. Quiet /\ checks \in Seq(Checks)
  BY <1>1, <1>2, QuietAt DEF ExecutionInv, Types
<1> QED
  BY <1>1, <1>2, <1>3, Evaluates DEF Quiet, machine

LEMMA ReadPackageKeeps == ASSUME ExecutionInv, ReadPackage PROVE ExecutionInv'
<1>1. /\ pc = "package" /\ pc \in Settling /\ UNCHANGED <<plan, index, machine, worked>>
  BY DEF ReadPackage, Settling
<1>2. Quiet /\ Quiet'
  BY <1>1, EvaluationAt, QuietAt DEF Quiet, machine
<1>3. checks' = checks \/ checks' \in CheckPlans
  BY DEF ReadPackage
<1>4. checks' \in Seq(Checks)
  BY <1>1, <1>3, EvaluationAt, ExecutionAssumption
<1>5. CASE FailedInTry
  BY <1>1, <1>2, <1>4, <1>5, EvaluationAt, FailedInTryKeeps DEF machine
<1>6. CASE Goto("evaluated")
  <2>1. pc' = "evaluated" /\ UNCHANGED <<history, candidates, terminals, outcome>>
    BY <1>6 DEF Goto
  <2>2. pc' \in Settling \ {"capture"} /\ pc' \notin {"image", "snapshot", "mount"}
    BY <2>1 DEF Settling
  <2> QED
    BY <1>1, <1>2, <1>4, <2>1, <2>2, EvaluationAt, Evaluates DEF machine, Quiet
<1>7. CASE pc' = "image" /\ UNCHANGED <<history, candidates, terminals, outcome>> /\ checks' \in CheckPlans
  <2>1. pc' \in Settling \ {"capture"} /\ checks' # <<>>
    BY <1>7, ExecutionAssumption DEF Settling
  <2> QED
    BY <1>1, <1>2, <1>4, <1>7, <2>1, EvaluationAt, Evaluates DEF machine, Quiet
<1> QED
  BY <1>5, <1>6, <1>7 DEF ReadPackage, Proceed

LEMMA InspectImageKeeps == ASSUME ExecutionInv, InspectImage PROVE ExecutionInv'
<1>1. /\ pc = "image" /\ pc \in Settling /\ UNCHANGED <<plan, index, machine, worked, checks>>
  BY DEF InspectImage, Settling, work
<1>2. Quiet /\ Quiet'
  BY <1>1, EvaluationAt, QuietAt DEF Quiet, machine
<1>3. pc' \in {"snapshot", "evaluated"} /\ UNCHANGED <<history, candidates, terminals, outcome>>
  BY DEF InspectImage, Goto
<1>4. pc' \in Settling \ {"capture"} /\ checks' # <<>>
  BY <1>1, <1>3, EvaluationAt DEF Settling, ExecutionInv, Work
<1> QED
  BY <1>1, <1>2, <1>3, <1>4, EvaluationAt, Evaluates DEF machine, Quiet

LEMMA CreateSnapshotKeeps == ASSUME ExecutionInv, CreateSnapshot PROVE ExecutionInv'
<1>1. /\ pc = "snapshot" /\ pc \in Settling
      /\ UNCHANGED <<plan, index, worktrees, running, worked, checks>>
  BY DEF CreateSnapshot, Settling, work
<1>2. Quiet /\ running \subseteq leftover /\ checks # <<>>
  BY <1>1, EvaluationAt, QuietAt DEF Quiet, ExecutionInv, Work
<1>3. CASE /\ \/ UNCHANGED <<snapshot, leftover>>
              \/ snapshot' = TRUE /\ leftover' = leftover \cup {"snapshot"}
           /\ Proceed("evaluated")
  <2>1. Quiet'
    BY <1>1, <1>2, <1>3 DEF Quiet
  <2>2. CASE signal
    BY <1>1, <1>3, <2>1, <2>2, EvaluationAt, FailedInTryKeeps DEF Proceed
  <2>3. CASE ~signal
    <3>1. pc' = "evaluated" /\ UNCHANGED <<history, candidates, terminals, outcome>>
      BY <1>3, <2>3 DEF Proceed
    <3>2. pc' \in Settling \ {"capture"} /\ pc' \notin {"image", "snapshot", "mount"}
      BY <3>1 DEF Settling
    <3> QED
      BY <1>1, <2>1, <3>1, <3>2, EvaluationAt, Evaluates DEF Quiet
  <2> QED
    BY <2>2, <2>3
<1>4. CASE /\ snapshot' = TRUE /\ UNCHANGED leftover
           /\ Goto(IF signal THEN "cleanup" ELSE "mount")
  <2>1. pc' \in {"cleanup", "mount"} /\ UNCHANGED <<history, candidates, terminals, outcome>>
    BY <1>4 DEF Goto
  <2>2. pc' \in Settling \ {"capture"}
    BY <2>1 DEF Settling
  <2> QED
    BY <1>1, <1>2, <1>4, <2>1, <2>2, EvaluationAt, Evaluates
<1> QED
  BY <1>3, <1>4 DEF CreateSnapshot

LEMMA RunCheckKeeps == ASSUME ExecutionInv, RunCheck PROVE ExecutionInv'
<1>1. /\ pc = "mount" /\ pc \in Settling
      /\ UNCHANGED <<plan, index, worktrees, snapshot, leftover, worked, checks>>
  BY DEF RunCheck, Settling
<1>2. running \subseteq leftover /\ checks # <<>> /\ checks \in Seq(Checks)
  BY <1>1, EvaluationAt DEF ExecutionInv, Work
<1>3. CASE Goto("cleanup") /\ UNCHANGED running
  <2>1. pc' = "cleanup" /\ UNCHANGED <<history, candidates, terminals, outcome>>
    BY <1>3 DEF Goto
  <2>2. pc' \in Settling \ {"capture"}
    BY <2>1 DEF Settling
  <2> QED
    BY <1>1, <1>2, <1>3, <2>1, <2>2, EvaluationAt, Evaluates
<1>4. CASE Spawn(Head(checks)) /\ UNCHANGED terminals
  <2>1. Head(checks) \in Checks
    BY <1>2
  <2> QED
    BY <1>1, <1>2, <1>4, <2>1, EvaluationAt, Spawned
<1> QED
  BY <1>3, <1>4 DEF RunCheck

LEMMA CheckEndedKeeps == ASSUME ExecutionInv, CheckEnded PROVE ExecutionInv'
<1>1. /\ pc = "exited" /\ call \in Checks
      /\ UNCHANGED <<plan, index, machine, worked>>
      /\ UNCHANGED <<history, candidates, terminals, outcome>>
      /\ checks' = Tail(checks)
      /\ pc' \in {"cleanup", "mount"} /\ (pc' = "mount" => Len(checks) # 1)
  BY DEF CheckEnded, Goto
<1>2. pc \in Begun /\ pc \in InCall /\ Evaluating /\ pc' \in Settling \ {"capture"}
  BY <1>1 DEF Begun, InCall, Settling, Evaluating
<1>3. checks \in Seq(Checks) /\ checks # <<>> /\ running \subseteq leftover
  BY <1>1, <1>2 DEF ExecutionInv, Types, Work, Machine, InCall
<1>4. Tail(checks) \in Seq(Checks) /\ (Tail(checks) = <<>> => Len(checks) = 1)
  <2>1. Tail(checks) \in Seq(Checks) /\ Len(Tail(checks)) = Len(checks) - 1 /\ Len(checks) \in Nat
    BY <1>3
  <2> QED
    BY <2>1
<1> QED
  BY <1>1, <1>2, <1>3, <1>4, Evaluates DEF machine

LEMMA CleanupKeeps == ASSUME ExecutionInv, Cleanup PROVE ExecutionInv'
<1>1. /\ pc = "cleanup" /\ pc \in Settling
      /\ UNCHANGED <<plan, index, worktrees, running, worked, checks>>
      /\ pc' = "evaluated" /\ UNCHANGED <<history, candidates, terminals, outcome>>
  BY DEF Cleanup, Settling, work, Goto
<1>2. running \subseteq leftover' /\ (snapshot' => "snapshot" \in leftover')
  BY <1>1, EvaluationAt DEF Cleanup
<1>3. pc' \in Settling \ {"capture"} /\ pc' \notin {"image", "snapshot", "mount"}
  BY <1>1 DEF Settling
<1> QED
  BY <1>1, <1>2, <1>3, EvaluationAt, Evaluates

LEMMA EvaluatedKeeps == ASSUME ExecutionInv, Evaluated PROVE ExecutionInv'
<1>1. /\ pc = "evaluated" /\ pc \in Settling /\ UNCHANGED <<plan, index, machine, worked, checks>>
  BY DEF Evaluated, Settling
<1>2. Quiet /\ Quiet' /\ Work
  BY <1>1, EvaluationAt, QuietAt DEF Quiet, machine, ExecutionInv
<1>3. CASE signal /\ FailedInTry
  BY <1>1, <1>2, <1>3, EvaluationAt, FailedInTryKeeps DEF machine
<1>4. ASSUME NEW verdict \in {"pass", "warning", "fail"}, UNCHANGED terminals,
             ExecutionStatus(verdict) \in Eligible, status' = ExecutionStatus(verdict),
             pc' = "capture", UNCHANGED <<history, candidates, outcome>>
      PROVE  ExecutionInv'
  <2>1. worked
    BY <1>4, <1>1, EvaluationAt DEF ExecutionStatus, Eligible
  <2>2. pc' \in AtWork /\ pc' \in Begun /\ pc' \in Settling /\ pc' \notin InCall /\ Evaluating'
    BY <1>4 DEF AtWork, Begun, InCall, Settling, Evaluating
  <2>3. Told /\ Others' /\ terminals'[Agent] = 1
    BY <1>1, <1>4, EvaluationAt, Untold DEF Others
  <2>4. Machine'
    BY <1>2, <1>4 DEF Machine, Quiet
  <2>5. Agent' = Agent
    BY <1>1 DEF Agent, plan
  <2>6. Work'
    BY <1>1, <1>2, <1>4, <2>1, <2>2, <2>5, EvaluationAt DEF Work, machine
  <2> QED
    BY <1>1, <1>4, <2>2, <2>3, <2>4, <2>6, EvaluationAt, Moved DEF machine
<1>5. ASSUME NEW verdict \in {"pass", "warning", "fail"}, UNCHANGED terminals,
             ExecutionStatus(verdict) \notin Eligible, Conclude(ExecutionStatus(verdict), FALSE)
      PROVE  ExecutionInv'
  <2>1. ExecutionStatus(verdict) \in Statuses
    BY DEF ExecutionStatus, Statuses, Eligible
  <2>2. Told /\ Others' /\ terminals'[Agent] = 1
    BY <1>1, <1>5, EvaluationAt, Untold DEF Others
  <2> QED
    BY <1>1, <1>2, <1>5, <2>1, <2>2, EvaluationAt, Concluded DEF machine
<1> QED
  BY <1>3, <1>4, <1>5 DEF Evaluated

LEMMA CaptureKeeps == ASSUME ExecutionInv, Capture PROVE ExecutionInv'
<1>1. /\ pc = "capture" /\ pc \in Settling
      /\ UNCHANGED <<plan, index, machine, worked, checks, terminals>>
  BY DEF Capture, Settling, work
<1>2. Quiet /\ Quiet' /\ Work
  BY <1>1, EvaluationAt, QuietAt DEF Quiet, machine, ExecutionInv
<1>3. Told /\ Others' /\ terminals'[Agent] = 1
  BY <1>1, EvaluationAt, Untold DEF Others
<1>4. status \in Eligible /\ Agent \in worktrees \ running
  BY <1>1, <1>2, EvaluationAt DEF Work
<1>5. "evaluation_failed" \in Statuses \ Eligible /\ Eligible \subseteq Statuses
  BY DEF Statuses, Eligible
<1>6. CASE Conclude(status, TRUE)
  BY <1>1, <1>2, <1>3, <1>4, <1>5, <1>6, EvaluationAt, Concluded DEF machine
<1>7. CASE Conclude("evaluation_failed", FALSE)
  BY <1>1, <1>2, <1>3, <1>5, <1>7, EvaluationAt, Concluded DEF machine
<1> QED
  BY <1>6, <1>7 DEF Capture

-----------------------------------------------------------------------------
(* The steps before, between and after the Agents, and the signal.         *)

LEMMA EarlyAt ==
  ASSUME ExecutionInv, pc \in Early
  PROVE  /\ pc # "done" /\ pc \notin AtWork \cup {"next", "rank"} /\ Quiet /\ Records
         /\ runs = {} /\ winner = NoAgent /\ task = "none" /\ index = 0 /\ worktrees = {}
         /\ \A a \in Agents : terminals[a] = 0
         /\ candidates \in Seq(Results) /\ Len(candidates) = 0 /\ DOMAIN candidates = 1..0
<1>1. pc # "done" /\ pc \notin AtWork \cup {"next", "rank"} /\ pc \notin {"process", "remove", "mount", "cleanup"}
      /\ pc \notin InCall
  BY DEF Early, AtWork, Begun, InCall, Settling
<1> QED
  BY <1>1 DEF ExecutionInv, Control, Machine, Quiet, Types

LEMMA EarlyEnds ==
  ASSUME ExecutionInv, pc \in Early, UNCHANGED <<plan, results, machine, work, terminals>>,
         UNCHANGED <<task, winner, runs>>, pc' = "done",
         outcome' \in {"cancelled", "failed", "returned"},
         signal => outcome' # "returned"
  PROVE  ExecutionInv'
<1>1. /\ pc # "done" /\ Quiet' /\ runs' = {} /\ winner' = NoAgent /\ task' = "none"
      /\ worktrees' = {} /\ outcome' # "pending"
  BY EarlyAt DEF machine, Quiet
<1>2. Types'
  BY DEF ExecutionInv, Types, plan, results, work
<1>3. Control'
  BY <1>1 DEF ExecutionInv, Control, plan, results, Single, Early, AtWork, Begun, InCall, Settling
<1>4. NothingLeftRunning' /\ WinnerIsReviewable' /\ CancelledLeavesNoResult' /\ HistoryIsClosed'
  BY <1>1 DEF NothingLeftRunning, WinnerIsReviewable, CancelledLeavesNoResult, HistoryIsClosed,
              Quiet, plan
<1>5. RunsMatchCandidates'
  BY <1>1 DEF RunsMatchCandidates, Statuses, Eligible
<1>6. AgentEndsOnce'
  BY EarlyAt DEF AgentEndsOnce, results
<1> QED
  BY <1>1, <1>2, <1>3, <1>4, <1>5, <1>6 DEF ExecutionInv, Promises

\* On to the next label before there is an Agent at work.
LEMMA EarlyMoves ==
  ASSUME ExecutionInv, pc \in Early, pc' \in (Early \ {"start"}) \cup {"next"},
         UNCHANGED <<conf, signal, results, machine, work, terminals, winner, runs, lost, outcome>>,
         selected' \in Seq(Agents), Single => Len(selected') <= 1,
         \A i, j \in DOMAIN selected' : selected'[i] = selected'[j] => i = j,
         task' = IF pc' \in Early THEN "none" ELSE "running"
  PROVE  ExecutionInv'
<1>1. /\ pc' # "done" /\ pc' # "start" /\ pc' # "rank" /\ pc' \notin AtWork
      /\ pc' \notin {"process", "remove", "mount", "cleanup", "capture", "image", "snapshot"}
      /\ pc' \notin InCall /\ pc' \notin Settling /\ pc' \notin Begun
  BY DEF Early, AtWork, Begun, InCall, Settling
<1>2. Types'
  BY EarlyAt DEF ExecutionInv, Types, results, work
<1>3. Control'
  BY <1>1, EarlyAt DEF ExecutionInv, Control, results, machine, Single
<1>4. Machine' /\ Work'
  BY <1>1, EarlyAt DEF Machine, Work, Quiet, machine, Evaluating, InCall
<1>5. Records'
  <2>1. \A i \in DOMAIN selected' : selected'[i] \in Agents
    OBVIOUS
  <2>2. \A i \in DOMAIN candidates' : CandidateOk(i)'
    BY EarlyAt DEF results
  <2> QED
    BY <1>1, <2>1, <2>2, EarlyAt DEF Records, results, machine
<1> QED
  BY <1>1, <1>2, <1>3, <1>4, <1>5 DEF ExecutionInv

LEMMA StartKeeps == ASSUME ExecutionInv, Start PROVE ExecutionInv'
<1>1. /\ pc = "start" /\ pc \in Early /\ ~signal
      /\ UNCHANGED <<plan, results, machine, work, terminals>>
  BY DEF Start, Early, ExecutionInv, Control
<1>2. CASE Raise
  BY <1>1, <1>2, EarlyEnds DEF Raise, End, history
<1>3. CASE End("returned") /\ UNCHANGED history
  BY <1>1, <1>3, EarlyEnds DEF End, history
<1>4. CASE /\ pc' = IF conf.enabled THEN "backend" ELSE "routing"
           /\ UNCHANGED <<history, outcome>>
  <2>1. pc' \in Early \ {"start"}
    BY <1>4 DEF Early
  <2>2. selected \in Seq(Agents) /\ (Single => Len(selected) <= 1)
        /\ \A i, j \in DOMAIN selected : selected[i] = selected[j] => i = j
    BY DEF ExecutionInv, Types, Control
  <2> QED
    BY <1>1, <1>4, <2>1, <2>2, EarlyAt, EarlyMoves DEF history, plan
<1> QED
  BY <1>2, <1>3, <1>4 DEF Start

LEMMA AssertBackendKeeps == ASSUME ExecutionInv, AssertBackend PROVE ExecutionInv'
<1>1. /\ pc = "backend" /\ pc \in Early
      /\ UNCHANGED <<plan, results, machine, work, terminals>>
  BY DEF AssertBackend, Early
<1>2. CASE Raise
  BY <1>1, <1>2, EarlyEnds DEF Raise, End, history
<1>3. CASE pc' = "routing" /\ UNCHANGED <<history, outcome>>
  <2>1. pc' \in Early \ {"start"}
    BY <1>3 DEF Early
  <2>2. selected \in Seq(Agents) /\ (Single => Len(selected) <= 1)
        /\ \A i, j \in DOMAIN selected : selected[i] = selected[j] => i = j
    BY DEF ExecutionInv, Types, Control
  <2> QED
    BY <1>1, <1>3, <2>1, <2>2, EarlyAt, EarlyMoves DEF history, plan
<1> QED
  BY <1>2, <1>3 DEF AssertBackend

\* A selection names every Agent once.
LEMMA SelectionsAreDistinct ==
  ASSUME NEW s \in Selections
  PROVE  /\ s \in Seq(Agents) /\ (Single => Len(s) <= 1)
         /\ \A i, j \in DOMAIN s : s[i] = s[j] => i = j
<1>1. PICK n \in IF Single THEN {1} ELSE 2..MaxAgents : s \in [1..n -> Agents] /\ Distinct(s)
  BY DEF Selections
<1>2. n \in Nat /\ (Single => n = 1)
  BY <1>1, ExecutionAssumption
<1>3. s \in Seq(Agents) /\ Len(s) = n /\ DOMAIN s = 1..n
  BY <1>1, <1>2
<1> DEFINE T == {s[i] : i \in DOMAIN s}
<1>4. Cardinality(T) = n
  BY <1>1, <1>3 DEF Distinct
<1>5. IsFiniteSet(1..n) /\ Cardinality(1..n) = n
  BY <1>2, FS_Interval
<1>6. s \in Surjection(1..n, T)
  BY <1>1, <1>3 DEF Surjection
<1>7. s \in Injection(1..n, T)
  <2> HIDE DEF T
  <2> QED
    BY <1>4, <1>5, <1>6, FS_SurjSameCardinalityImpliesInj
<1>8. \A i, j \in 1..n : s[i] = s[j] => i = j
  BY <1>7, <1>3 DEF Injection, IsInjective
<1> QED
  BY <1>2, <1>3, <1>8

LEMMA RouteKeeps == ASSUME ExecutionInv, Route PROVE ExecutionInv'
<1>1. /\ pc = "routing" /\ pc \in Early /\ signal \in BOOLEAN
      /\ UNCHANGED <<conf, signal, results, machine, work, terminals>>
  BY DEF Route, Early, ExecutionInv, Types
<1>2. CASE Raise /\ UNCHANGED selected
  BY <1>1, <1>2, EarlyEnds DEF Raise, End, history, plan
<1>3. CASE ~signal /\ End("returned") /\ UNCHANGED <<history, selected>>
  BY <1>1, <1>3, EarlyEnds DEF End, history, plan
<1>4. CASE selected' \in Selections /\ pc' = "repository" /\ UNCHANGED <<history, outcome>>
  <2>1. pc' \in Early \ {"start"}
    BY <1>4 DEF Early
  <2> QED
    BY <1>1, <1>4, <2>1, SelectionsAreDistinct, EarlyAt, EarlyMoves DEF history
<1> QED
  BY <1>2, <1>3, <1>4 DEF Route

LEMMA OpenTaskKeeps == ASSUME ExecutionInv, OpenTask PROVE ExecutionInv'
<1>1. /\ pc = "repository" /\ pc \in Early
      /\ UNCHANGED <<plan, results, machine, work, terminals>>
  BY DEF OpenTask, Early
<1>2. CASE Raise
  BY <1>1, <1>2, EarlyEnds DEF Raise, End, history
<1>3. CASE /\ task' = "running" /\ pc' = "next" /\ UNCHANGED <<winner, runs, lost, outcome>>
  <2>1. selected \in Seq(Agents) /\ (Single => Len(selected) <= 1)
        /\ \A i, j \in DOMAIN selected : selected[i] = selected[j] => i = j
    BY DEF ExecutionInv, Types, Control
  <2>2. pc' \notin Early
    BY <1>3 DEF Early
  <2> QED
    BY <1>1, <1>3, <2>1, <2>2, EarlyAt, EarlyMoves DEF plan
<1>4. CASE ~signal /\ End("failed") /\ UNCHANGED <<task, winner, runs>>
  BY <1>1, <1>4, EarlyEnds DEF End
<1> QED
  BY <1>2, <1>3, <1>4 DEF OpenTask

LEMMA BetweenAt ==
  ASSUME ExecutionInv, pc \in {"next", "rank"}
  PROVE  /\ pc # "done" /\ pc \notin Early /\ pc \notin AtWork /\ pc \notin Begun /\ Quiet /\ Records
         /\ runs = {} /\ winner = NoAgent /\ task = "running" /\ lost = FALSE
         /\ Len(candidates) = index /\ candidates \in Seq(Results) /\ selected \in Seq(Agents)
         /\ index \in Nat /\ index <= Len(selected) /\ DOMAIN candidates = 1..index
         /\ \A i \in DOMAIN candidates : i \in DOMAIN selected /\ CandidateOk(i)
<1>1. pc # "done" /\ pc \notin Early /\ pc \notin AtWork /\ pc \notin Begun
      /\ pc \notin InCall /\ pc \notin {"process", "remove", "mount", "cleanup"}
  BY DEF Early, AtWork, Begun, InCall, Settling
<1>2. Quiet /\ Records
  BY <1>1 DEF ExecutionInv, Machine, Quiet
<1>3. /\ runs = {} /\ winner = NoAgent /\ task = "running" /\ lost = FALSE
      /\ Len(candidates) = index /\ candidates \in Seq(Results) /\ selected \in Seq(Agents)
      /\ index \in Nat /\ index <= Len(selected)
  BY <1>1 DEF ExecutionInv, Control, Types
<1>4. DOMAIN candidates = 1..index /\ \A i \in DOMAIN candidates : i \in DOMAIN selected
  BY <1>3
<1> QED
  BY <1>1, <1>2, <1>3, <1>4 DEF Records

LEMMA BetweenOnce ==
  ASSUME ExecutionInv, pc \in {"next", "rank"}, UNCHANGED <<candidates, terminals>>
  PROVE  AgentEndsOnce'
<1>1. \A a \in Agents : terminals'[a] <= 1
  BY BetweenAt DEF Records
<1>2. ASSUME NEW i \in DOMAIN candidates, candidates[i].known
      PROVE  terminals'[candidates[i].agent] = 1
  BY <1>2, BetweenAt DEF CandidateOk
<1> QED
  BY <1>1, <1>2 DEF AgentEndsOnce

LEMMA NextAgentKeeps == ASSUME ExecutionInv, NextAgent PROVE ExecutionInv'
<1>1. /\ pc = "next" /\ pc # "done" /\ signal \in BOOLEAN
      /\ UNCHANGED <<plan, candidates, machine, work, terminals>>
  BY DEF NextAgent, ExecutionInv, Types
<1>2. Quiet' /\ Others'
  BY <1>1, BetweenAt DEF Quiet, machine, work, Others, ExecutionInv, Types
<1>3. CASE signal
  BY <1>1, <1>2, <1>3, BetweenOnce, CancelledEnds DEF NextAgent
<1>4. CASE ~signal /\ index < Len(selected)
  <2>1. pc' = "available" /\ index' = index + 1 /\ UNCHANGED <<history, outcome>>
    BY <1>4 DEF NextAgent
  <2>2. /\ pc' \in AtWork /\ pc' \notin Begun /\ pc' # "done" /\ pc' \notin Early \cup {"next", "rank"}
        /\ pc' \notin InCall /\ ~Evaluating'
    BY <2>1 DEF AtWork, Begun, InCall, Settling, Early, Evaluating
  <2>3. index' \in Nat /\ index' <= Len(selected) /\ index' \in DOMAIN selected
    BY <1>1, <1>4, <2>1, BetweenAt
  <2>4. Types'
    BY <1>1, <2>2, <2>3 DEF ExecutionInv, Types, plan, work
  <2>5. Control'
    BY <1>1, <2>1, <2>2, BetweenAt DEF ExecutionInv, Control, plan, machine, history, Single
  <2>6. Machine' /\ Work'
    BY <1>2, <2>1, <2>2 DEF Machine, Work, Quiet
  <2>7. Agent' = selected[index']
    BY <1>1 DEF Agent, plan
  <2>8. Records'
    <3>1. \A i \in DOMAIN candidates : CandidateOk(i)'
      BY <1>1, BetweenAt DEF CandidateOk, plan, machine
    <3>2. \A a \in worktrees : \E i \in DOMAIN candidates : selected[i] = a /\ candidates[i].known
      BY <1>1, BetweenAt DEF Records
    <3>3. \A i \in DOMAIN selected : i > index' => terminals[selected[i]] = 0
      BY <1>1, <2>1, BetweenAt DEF Records
    <3>4. terminals[selected[index']] = 0
      BY <1>1, <2>1, <2>3, BetweenAt DEF Records
    <3>5. \A a \in Agents : terminals[a] <= 1
      BY <1>1, BetweenAt DEF Records
    <3> QED
      BY <1>1, <2>2, <2>7, <3>1, <3>2, <3>3, <3>4, <3>5 DEF Records, plan, machine
  <2> QED
    BY <2>2, <2>4, <2>5, <2>6, <2>8 DEF ExecutionInv
<1>5. CASE ~signal /\ ~(index < Len(selected))
  <2>1. pc' = "rank" /\ index' = index /\ index = Len(selected) /\ UNCHANGED <<history, outcome>>
    BY <1>1, <1>5, BetweenAt DEF NextAgent
  <2>2. /\ pc' \notin AtWork /\ pc' \notin Begun /\ pc' # "done" /\ pc' \notin Early
        /\ pc' \notin InCall /\ ~Evaluating'
    BY <2>1 DEF AtWork, Begun, InCall, Settling, Early, Evaluating
  <2>3. Types'
    BY <1>1, <2>1 DEF ExecutionInv, Types, plan, work
  <2>4. Control'
    BY <1>1, <1>5, <2>1, <2>2, BetweenAt DEF ExecutionInv, Control, plan, machine, history, Single
  <2>5. Machine' /\ Work'
    BY <1>2, <2>1, <2>2 DEF Machine, Work, Quiet
  <2>6. Records'
    <3>1. \A i \in DOMAIN candidates : CandidateOk(i)'
      BY <1>1, BetweenAt DEF CandidateOk, plan, machine
    <3> QED
      BY <1>1, <2>1, <2>2, <3>1, BetweenAt DEF Records, plan, machine
  <2> QED
    BY <2>2, <2>3, <2>4, <2>5, <2>6 DEF ExecutionInv
<1> QED
  BY <1>1, <1>3, <1>4, <1>5

LEMMA RankKeeps == ASSUME ExecutionInv, Rank PROVE ExecutionInv'
<1>1. /\ pc = "rank" /\ pc # "done" /\ ~signal /\ index = Len(selected)
      /\ UNCHANGED <<plan, results, machine, work, terminals>>
      /\ \A i, j \in DOMAIN selected : selected[i] = selected[j] => i = j
  BY DEF Rank, ExecutionInv, Control
<1>2. PICK w \in Winners :
        Persist(candidates, IF w = NoAgent THEN "no_valid_candidate" ELSE "completed", w, "returned")
  BY DEF Rank
<1> DEFINE s == IF w = NoAgent THEN "no_valid_candidate" ELSE "completed"
<1>3. w # NoAgent => \E j \in DOMAIN candidates : w = candidates[j].agent /\ candidates[j].status \in Eligible
  BY <1>2 DEF Winners
<1>4. /\ pc' = "done" /\ outcome' = "returned"
      /\ \A r \in runs' : \E i \in DOMAIN candidates :
            r = [agent |-> selected[i], result |-> candidates[i]]
      /\ task' \in {s, "running"} /\ winner' \in {w, NoAgent}
      /\ ~lost' => /\ task' = s
                   /\ \A i \in DOMAIN candidates :
                         [agent |-> selected[i], result |-> candidates[i]] \in runs'
  BY <1>1, <1>2, BetweenAt, Persisted
<1>5. DOMAIN candidates = DOMAIN selected
  BY <1>1, BetweenAt
<1>6. \A i \in DOMAIN candidates : candidates[i].agent = selected[i] /\ CandidateOk(i)
  BY <1>1, BetweenAt DEF CandidateOk
<1>7. Types'
  BY <1>1, <1>4 DEF ExecutionInv, Types, plan, results, work
<1>8. Control'
  BY <1>1, <1>4 DEF ExecutionInv, Control, plan, Single, Early, AtWork, Begun, InCall, Settling
<1>9. NothingLeftRunning'
  BY <1>1, BetweenAt DEF NothingLeftRunning, Quiet, machine
<1>10. WinnerIsReviewable'
  <2>1. SUFFICES ASSUME winner' # NoAgent
                 PROVE  /\ w \in worktrees \ running
                        /\ \A r \in runs' : r.agent = w =>
                              r.result.status \in Eligible /\ r.result.tracked /\ r.result.known
    BY <1>1, <1>4 DEF WinnerIsReviewable, machine
  <2>2. PICK j \in DOMAIN candidates : w = candidates[j].agent /\ candidates[j].status \in Eligible
    BY <2>1, <1>3, <1>4
  <2>3. /\ w = selected[j] /\ candidates[j].tracked /\ candidates[j].known
        /\ selected[j] \in worktrees \ running
    BY <2>2, <1>6 DEF CandidateOk
  <2>4. ASSUME NEW r \in runs', r.agent = w PROVE r.result = candidates[j]
    <3>1. PICK i \in DOMAIN candidates : r = [agent |-> selected[i], result |-> candidates[i]]
      BY <1>4
    <3>2. r.agent = selected[i] /\ r.result = candidates[i]
      BY <3>1
    <3>3. i = j
      BY <3>2, <2>3, <2>4, <1>1, <1>5
    <3> QED
      BY <3>2, <3>3
  <2> QED
    BY <2>2, <2>3, <2>4
<1>11. CancelledLeavesNoResult'
  BY <1>1, <1>4 DEF CancelledLeavesNoResult, plan
<1>12. HistoryIsClosed'
  <2>1. s # "running"
    OBVIOUS
  <2>2. ASSUME ~lost', NEW a \in worktrees
        PROVE  \E r \in runs' : r.agent = a /\ r.result.known
    <3>1. PICK i \in DOMAIN candidates : selected[i] = a /\ candidates[i].known
      BY <1>1, BetweenAt DEF Records
    <3>2. [agent |-> selected[i], result |-> candidates[i]] \in runs'
      BY <1>4, <2>2
    <3> QED
      BY <3>1, <3>2
  <2> QED
    BY <1>1, <1>4, <2>1, <2>2 DEF HistoryIsClosed, machine
<1>13. RunsMatchCandidates'
  <2>1. \A r \in runs' : r.result.agent = r.agent /\ \E i \in DOMAIN selected : r.agent = selected[i]
    BY <1>4, <1>5, <1>6
  <2>2. ASSUME ~lost', NEW i \in DOMAIN selected PROVE \E r \in runs' : r.agent = selected[i]
    <3>1. [agent |-> selected[i], result |-> candidates[i]] \in runs'
      BY <2>2, <1>4, <1>5
    <3> QED
      BY <3>1
  <2>3. ~lost' => {r.agent : r \in runs'} = {selected[i] : i \in DOMAIN selected}
    BY <2>1, <2>2
  <2> QED
    BY <1>1, <2>1, <2>3 DEF RunsMatchCandidates, plan
<1>14. AgentEndsOnce'
  BY <1>1, BetweenOnce DEF results
<1> QED
  BY <1>4, <1>7, <1>8, <1>9, <1>10, <1>11, <1>12, <1>13, <1>14 DEF ExecutionInv, Promises

LEMMA AbortKeeps == ASSUME ExecutionInv, Abort PROVE ExecutionInv'
<1>1. /\ pc # "start" /\ pc # "rank" /\ pc # "done" /\ signal' = TRUE
      /\ UNCHANGED <<conf, pc, selected, results, history, machine, work, terminals, outcome>>
  BY DEF Abort, Synchronous
<1>2. Types'
  BY <1>1 DEF ExecutionInv, Types, results, work
<1>3. Control'
  BY <1>1 DEF ExecutionInv, Control, results, history, machine, Single
<1>4. Machine' /\ Work' /\ Records'
  BY <1>1 DEF ExecutionInv, Machine, Work, Records, CandidateOk, Evaluating, Agent, results, machine, work
<1> QED
  BY <1>1, <1>2, <1>3, <1>4 DEF ExecutionInv

LEMMA StutterKeeps == ASSUME ExecutionInv, UNCHANGED vars PROVE ExecutionInv'
<1>1. Types' /\ Control'
  BY DEF ExecutionInv, Types, Control, Single, vars, history, plan, results, machine, work
<1>2. pc # "done" => Machine' /\ Work' /\ Records'
  BY DEF ExecutionInv, Machine, Work, Records, CandidateOk, Evaluating, Agent, vars
<1>3. pc = "done" => Promises'
  BY DEF ExecutionInv, Promises, NothingLeftRunning, WinnerIsReviewable, CancelledLeavesNoResult,
         HistoryIsClosed, RunsMatchCandidates, AgentEndsOnce, Single, vars
<1> QED
  BY <1>1, <1>2, <1>3 DEF ExecutionInv, vars

LEMMA ExecutionStays == ASSUME ExecutionInv, [Next]_vars PROVE ExecutionInv'
<1>1. CASE Start \/ AssertBackend \/ Route \/ OpenTask \/ NextAgent \/ Rank
  BY <1>1, StartKeeps, AssertBackendKeeps, RouteKeeps, OpenTaskKeeps, NextAgentKeeps, RankKeeps
<1>2. CASE AssertAgentBackend \/ CreateWorktree \/ Prepare \/ RunBackend \/ ProcessEnds \/ Remove
           \/ OllamaVerified \/ AgentEnded
  BY <1>2, AssertAgentBackendKeeps, CreateWorktreeKeeps, PrepareKeeps, RunBackendKeeps,
     ProcessEndsKeeps, RemoveKeeps, OllamaVerifiedKeeps, AgentEndedKeeps
<1>3. CASE InspectChanges \/ StaticChecks \/ SyntaxChecked \/ ReadPackage \/ InspectImage
           \/ CreateSnapshot \/ RunCheck \/ CheckEnded \/ Cleanup \/ Evaluated \/ Capture
  BY <1>3, InspectChangesKeeps, StaticChecksKeeps, SyntaxCheckedKeeps, ReadPackageKeeps,
     InspectImageKeeps, CreateSnapshotKeeps, RunCheckKeeps, CheckEndedKeeps, CleanupKeeps, EvaluatedKeeps, CaptureKeeps
<1>4. CASE Abort
  BY <1>4, AbortKeeps
<1>5. CASE Finished \/ UNCHANGED vars
  BY <1>5, StutterKeeps DEF Finished
<1> QED
  BY <1>1, <1>2, <1>3, <1>4, <1>5 DEF Next, Step

LEMMA ExecutionInvariant == Spec => []ExecutionInv
<1>1. ExecutionInv /\ [Next]_vars => ExecutionInv'
  BY ExecutionStays
<1> QED
  BY InitExecution, <1>1, PTL DEF Spec

-----------------------------------------------------------------------------
(* What the history, the machine and the followers of a run may rely on.   *)

\* However an execution ends, whatever failed on the way, no process, container
\* or snapshot outlives it but those whose removal failed.
THEOREM NothingOutlives == Spec => []NothingLeftRunning
<1>1. ExecutionInv => NothingLeftRunning
  BY DEF ExecutionInv, Control, Promises, NothingLeftRunning
<1> QED
  BY ExecutionInvariant, <1>1, PTL

\* The winner that a reviewer is offered passed its evaluation, has a fingerprint
\* and a worktree, and nothing runs there any more.
THEOREM WinnersAreReviewable == Spec => []WinnerIsReviewable
<1>1. ExecutionInv => WinnerIsReviewable
  BY DEF ExecutionInv, Control, Promises, WinnerIsReviewable
<1> QED
  BY ExecutionInvariant, <1>1, PTL

\* A cancelled execution, and an aborted competition, records nothing.
THEOREM CancellationRecordsNothing == Spec => []CancelledLeavesNoResult
<1>1. ExecutionInv => CancelledLeavesNoResult
  BY DEF ExecutionInv, Control, Promises, CancelledLeavesNoResult
<1> QED
  BY ExecutionInvariant, <1>1, PTL

\* The task row is closed and names every worktree, unless the database refused or
\* the Job was cancelled.
THEOREM HistoryCloses == Spec => []HistoryIsClosed
<1>1. ExecutionInv => HistoryIsClosed
  BY DEF ExecutionInv, Control, Promises, HistoryIsClosed
<1> QED
  BY ExecutionInvariant, <1>1, PTL

\* Rows written by position belong to the Agents they name, and a finished task
\* has one for each.
THEOREM RunsAreMatched == Spec => []RunsMatchCandidates
<1>1. ASSUME ExecutionInv, pc # "done" PROVE RunsMatchCandidates
  <2>1. runs = {} /\ task \in {"none", "running"}
    BY <1>1 DEF ExecutionInv, Control
  <2> QED
    BY <2>1 DEF RunsMatchCandidates, Statuses, Eligible
<1>2. ASSUME ExecutionInv, pc = "done" PROVE RunsMatchCandidates
  BY <1>2 DEF ExecutionInv, Promises
<1>3. ExecutionInv => RunsMatchCandidates
  BY <1>1, <1>2
<1> QED
  BY ExecutionInvariant, <1>3, PTL

\* The end of an Agent is reported to the followers of the run once.
THEOREM AgentsEndOnce == Spec => []AgentEndsOnce
<1>1. ASSUME ExecutionInv, pc # "done" PROVE AgentEndsOnce
  BY <1>1 DEF ExecutionInv, Records, CandidateOk, AgentEndsOnce
<1>2. ASSUME ExecutionInv, pc = "done" PROVE AgentEndsOnce
  BY <1>2 DEF ExecutionInv, Promises
<1>3. ExecutionInv => AgentEndsOnce
  BY <1>1, <1>2
<1> QED
  BY ExecutionInvariant, <1>3, PTL

LEMMA NoneStarted ==
  ASSUME [Next]_vars, signal
  PROVE  running' \ running \subseteq {"syntax"} /\ index' = index
<1>1. CASE Start \/ AssertBackend \/ Route \/ OpenTask \/ NextAgent \/ AssertAgentBackend
           \/ CreateWorktree \/ Prepare \/ AgentEnded
  BY <1>1 DEF Start, AssertBackend, Route, OpenTask, NextAgent, AssertAgentBackend,
              CreateWorktree, Prepare, AgentEnded, machine, results
<1>2. CASE InspectChanges \/ SyntaxChecked \/ ReadPackage \/ InspectImage \/ CreateSnapshot
           \/ CheckEnded \/ Cleanup \/ Evaluated \/ Capture \/ Rank
  BY <1>2 DEF InspectChanges, SyntaxChecked, ReadPackage, InspectImage, CreateSnapshot,
              CheckEnded, Cleanup, Evaluated, Capture, Rank, machine, results
<1>3. ASSUME NEW name, Spawn(name) PROVE running' = running
  BY <1>3 DEF Spawn
<1>4. CASE RunBackend \/ OllamaVerified \/ RunCheck
  BY <1>3, <1>4 DEF RunBackend, OllamaVerified, RunCheck
<1>5. CASE StaticChecks
  BY <1>5 DEF StaticChecks, CheckSyntax
<1>6. CASE ProcessEnds \/ Remove
  BY <1>6 DEF ProcessEnds, Remove, results
<1>7. CASE Abort \/ Finished \/ UNCHANGED vars
  BY <1>7 DEF Abort, Finished, machine, results, vars
<1> QED
  BY <1>1, <1>2, <1>4, <1>5, <1>6, <1>7 DEF Next, Step

\* Once the Job is cancelled, no further Agent has its turn and nothing is started
\* any more, at whichever await the execution stands, but the syntax checks that
\* the evaluation under way still makes.
THEOREM CancelledStartsNothing == Spec => AbortStartsNothing
<1>1. [Next]_vars => [signal => running' \ running \subseteq {"syntax"} /\ index' = index]_vars
  BY NoneStarted
<1> QED
  BY <1>1, PTL DEF Spec, AbortStartsNothing
=============================================================================
