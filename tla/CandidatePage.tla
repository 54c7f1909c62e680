---------------------------- MODULE CandidatePage ----------------------------
(***************************************************************************)
(* The page on which a candidate is reviewed and decided                   *)
(* (CandidatePage.jsx, with ConfirmDialog), before the Router, of which    *)
(* Decision is what Approval is shown to implement, and before others who  *)
(* decide and edit at the same time.                                       *)
(*                                                                         *)
(* The id that is typed, the review that is shown, the dialog and what is  *)
(* under way are separate states: the id can be typed and Load pressed at  *)
(* any time (nothing keeps the keyboard in the dialog), and answers arrive *)
(* in any order, or not at all.                                            *)
(***************************************************************************)
EXTENDS Decision, FiniteSets, Integers

CONSTANTS
  Fingerprint,  \* the stored fingerprint of the candidate of each task
  Nothing,      \* no review shown, no answer yet, nothing under way
  Error,        \* the answer of a load that failed
  MaxRequests,  \* bound: decisions the Router has not answered
  MaxExtras     \* bound: what others do, and loads beside another

ASSUME PageAssumption ==
  /\ Tasks # {} /\ Nothing \notin Tasks
  /\ DOMAIN Fingerprint = Tasks
  /\ MaxRequests \in Nat /\ MaxExtras \in Nat

VARIABLES
  content,   \* evaluated, or edited since
  \* the page
  taskId,    \* the id in the input
  review,    \* what is shown, or Nothing
  confirm,   \* the open dialog: approve, reject or none
  conflict,  \* the error shown offers to load again
  loading,
  loads,     \* loads under way: the id and the answer so far
  deciding,  \* decide(): the request it waits for, then the load after it
  \* the Router
  requests,  \* decisions sent and not yet answered; `shown' is history
  effect,    \* the one that took effect last
  extras     \* bound

others == <<content, extras>>
page == <<taskId, review, confirm, conflict>>
vars == <<decisionVars, others, page, loading, loads, deciding, requests, effect>>

-----------------------------------------------------------------------------
(* Loading *)

Approvable(t) == decision[t] = "pending" /\ merge[t] = "none" /\ content[t] = "evaluated"

\* What getCandidate() answers: a review, with the decisions it lets the page
\* offer, or an error.
Review(t) == [task |-> t, offers |-> IF decision[t] # "pending" THEN {}
                                     ELSE IF Approvable(t) THEN {"approve", "reject"}
                                     ELSE {"reject"}]
Answers(t) == {Review(t), Error}

Type(t) ==
  /\ taskId' = t
  /\ UNCHANGED <<decisionVars, others, review, confirm, conflict, loading, loads, deciding,
                 requests, effect>>

\* The button is disabled while loading; the one of a conflict is not.
LoadCandidate ==
  /\ \/ ~loading /\ UNCHANGED extras
     \/ conflict /\ loading /\ extras < MaxExtras /\ extras' = extras + 1
  /\ loading' = TRUE /\ conflict' = FALSE
  /\ loads' = loads \union {[task |-> taskId, answer |-> Nothing]}
  /\ UNCHANGED <<decisionVars, content, taskId, review, confirm, deciding, requests, effect>>

Serve(l) ==
  /\ l.answer = Nothing
  /\ \E a \in Answers(l.task) : loads' = (loads \ {l}) \union {[l EXCEPT !.answer = a]}
  /\ UNCHANGED <<decisionVars, others, page, loading, deciding, requests, effect>>

Arrive(l) ==
  /\ l.answer # Nothing
  /\ loads' = loads \ {l} /\ loading' = FALSE
  /\ IF l.answer = Error
     THEN review' = Nothing /\ conflict' = FALSE
     ELSE review' = l.answer /\ UNCHANGED conflict
  /\ UNCHANGED <<decisionVars, others, taskId, confirm, deciding, requests, effect>>

-----------------------------------------------------------------------------
(* Deciding *)

Busy == deciding # Nothing

Ask(kind) ==
  /\ review # Nothing /\ kind \in review.offers /\ ~Busy
  /\ confirm' = kind
  /\ UNCHANGED <<decisionVars, others, taskId, review, conflict, loading, loads, deciding,
                 requests, effect>>

Cancel ==
  /\ confirm # "none" /\ ~Busy
  /\ confirm' = "none"
  /\ UNCHANGED <<decisionVars, others, taskId, review, conflict, loading, loads, deciding,
                 requests, effect>>

\* The request names the id in the input.  Only an approval carries what is
\* shown: without a review reading its fingerprint throws, and nothing is sent.
Decide ==
  /\ confirm # "none" /\ ~Busy
  /\ conflict' = FALSE
  /\ IF confirm = "approve" /\ review = Nothing
     THEN confirm' = "none" /\ UNCHANGED <<deciding, requests>>
     ELSE LET shown == IF review = Nothing THEN Nothing ELSE review.task
              sent  == [kind |-> confirm, task |-> taskId,
                        fingerprint |-> IF confirm = "approve" THEN Fingerprint[shown] ELSE Nothing,
                        shown |-> shown, step |-> "received"]
          IN  /\ Cardinality(requests) < MaxRequests
              /\ requests' = requests \union {sent}
              /\ deciding' = [step |-> "sent", request |-> sent, answer |-> Nothing]
              /\ UNCHANGED confirm
  /\ effect' = Nothing
  /\ UNCHANGED <<decisionVars, others, taskId, review, loading, loads>>

Waiting(r) ==
  /\ Busy /\ deciding.step = "sent" /\ deciding.answer = Nothing
  /\ deciding.request = [r EXCEPT !.step = "received"]

\* An answer that nobody waits for is lost.
Reply(r, answer) ==
  /\ requests' = requests \ {r}
  /\ deciding' = IF Waiting(r) THEN [deciding EXCEPT !.answer = answer] ELSE deciding

\* Mutant: the fingerprint of the request is not compared.
FingerprintGiven(r) == r.fingerprint # Nothing

FingerprintMatches(r) == r.fingerprint = Fingerprint[r.task]

\* approve(): a conflict with what was reviewed or another error, or the merge.
ServeApproval(r) ==
  /\ r.kind = "approve" /\ r.step = "received"
  /\ \/ /\ FingerprintMatches(r) /\ Approvable(r.task)
        /\ Merge(r.task)
        /\ requests' = (requests \ {r}) \union {[r EXCEPT !.step = "merged"]}
        /\ effect' = r
        /\ UNCHANGED deciding
     \/ /\ \/ decision[r.task] = "approved" /\ Reply(r, "done")
           \/ \E a \in {"conflict", "failed"} : Reply(r, a)
        /\ UNCHANGED <<decisionVars, effect>>
  /\ UNCHANGED <<others, page, loading, loads>>

\* Once merged the answer is a success, even if the decision cannot be stored.
RecordApproval(r) ==
  /\ r.step = "merged"
  /\ Approve(r.task) \/ UNCHANGED decisionVars
  /\ Reply(r, "done")
  /\ UNCHANGED <<others, page, loading, loads, effect>>

\* reject() asks for no fingerprint.
ServeRejection(r) ==
  /\ r.kind = "reject"
  /\ \/ /\ Reject(r.task)
        /\ effect' = r /\ Reply(r, "done")
     \/ /\ decision[r.task] = "rejected"
        /\ Reply(r, "done") /\ UNCHANGED <<decisionVars, effect>>
     \/ Reply(r, "failed") /\ UNCHANGED <<decisionVars, effect>>
  /\ UNCHANGED <<others, page, loading, loads>>

\* After a success the review is loaded again; after an error, or when the
\* connection fails, nothing is.
Settle ==
  /\ Busy /\ deciding.step = "sent"
  /\ confirm' = "none"
  /\ \/ /\ deciding.answer = "done"
        /\ deciding' = [step |-> "refresh", task |-> deciding.request.task, answer |-> Nothing]
        /\ UNCHANGED conflict
     \/ /\ conflict' = (deciding.answer = "conflict")
        /\ deciding' = Nothing
  /\ UNCHANGED <<decisionVars, others, taskId, review, loading, loads, requests, effect>>

ServeRefresh ==
  /\ Busy /\ deciding.step = "refresh" /\ deciding.answer = Nothing
  /\ \E a \in Answers(deciding.task) : deciding' = [deciding EXCEPT !.answer = a]
  /\ UNCHANGED <<decisionVars, others, page, loading, loads, requests, effect>>

\* A refresh that fails leaves the old review.
Refreshed ==
  /\ Busy /\ deciding.step = "refresh" /\ deciding.answer # Nothing
  /\ review' = IF deciding.answer = Error THEN review ELSE deciding.answer
  /\ deciding' = Nothing
  /\ UNCHANGED <<decisionVars, others, taskId, confirm, conflict, loading, loads, requests,
                 effect>>

-----------------------------------------------------------------------------
(* Others, who decide and edit, also where no check of the Router sees it.  A *)
(* clean-up shows nothing on the page.                                        *)

Elsewhere ==
  /\ extras < MaxExtras /\ extras' = extras + 1
  /\ \/ /\ \E t \in Tasks : Merge(t) \/ Approve(t) \/ Reject(t) \/ Meddle({t})
        /\ UNCHANGED content
     \/ \E t \in Tasks : content' = [content EXCEPT ![t] = "edited"] /\ UNCHANGED decisionVars
  /\ UNCHANGED <<page, loading, loads, deciding, requests, effect>>

-----------------------------------------------------------------------------
\* The page is opened on a task, which it loads at once.
Init ==
  /\ InitDecision
  /\ content = [t \in Tasks |-> "evaluated"]
  /\ taskId \in Tasks
  /\ review = Nothing /\ confirm = "none" /\ conflict = FALSE
  /\ loading = TRUE /\ loads = {[task |-> taskId, answer |-> Nothing]}
  /\ deciding = Nothing
  /\ requests = {} /\ effect = Nothing /\ extras = 0

Answering ==
  \/ \E l \in loads : Serve(l) \/ Arrive(l)
  \/ \E r \in requests : ServeApproval(r) \/ RecordApproval(r) \/ ServeRejection(r)
  \/ Settle \/ ServeRefresh \/ Refreshed

Next ==
  \/ \E t \in Tasks : Type(t)
  \/ LoadCandidate
  \/ \E kind \in {"approve", "reject"} : Ask(kind)
  \/ Cancel \/ Decide
  \/ Answering
  \/ Elsewhere

Spec == Init /\ [][Next]_vars

-----------------------------------------------------------------------------
(* Properties *)

\* Whatever is typed, loaded or answered late: the candidate that an approval of
\* this page merges has the fingerprint of the review that was shown when it was
\* confirmed. (What the merge may bring in of it is Decision's promise.)
ApprovedAsDisplayed ==
  effect # Nothing /\ effect.kind = "approve" =>
    effect.shown \in Tasks /\ Fingerprint[effect.shown] = Fingerprint[effect.task]

\* What a rejection of this page throws away is what was shown when it was
\* confirmed.
RejectedAsDisplayed ==
  effect # Nothing /\ effect.kind = "reject" => effect.shown = effect.task
=============================================================================
