------------------------- MODULE CandidatePageProofs -------------------------
(***************************************************************************)
(* What the page approves is what it shows, for any number of tasks,       *)
(* loads, requests and other people.                                       *)
(***************************************************************************)
EXTENDS CandidatePage, TLAPS

Reviews == [task : Tasks, offers : SUBSET {"approve", "reject"}]

Loaded == Reviews \union {Nothing, Error}

Loads == [task : Tasks, answer : Loaded]

Requests ==
  [kind : {"approve", "reject"}, task : Tasks,
   fingerprint : {Fingerprint[t] : t \in Tasks} \union {Nothing},
   shown : Tasks \union {Nothing}, step : {"received", "merged"}]

Sent == [step : {"sent"}, request : Requests, answer : {Nothing, "done", "conflict", "failed"}]

Refreshing == [step : {"refresh"}, task : Tasks, answer : Loaded]

PageTypes ==
  /\ taskId \in Tasks
  /\ review \in Reviews \union {Nothing}
  /\ confirm \in {"none", "approve", "reject"}
  /\ loads \in SUBSET Loads
  /\ deciding \in {Nothing} \union Sent \union Refreshing
  /\ requests \in SUBSET Requests

\* An approval carries the fingerprint of what was shown.
AsShown(r) ==
  r.kind = "approve" => r.shown \in Tasks /\ r.fingerprint = Fingerprint[r.shown]

\* ApprovedAsDisplayed is not inductive: it needs the requests under way to
\* carry what was shown, and that what is shown is a review of some task.
PageInv == PageTypes /\ (\A r \in requests : AsShown(r)) /\ ApprovedAsDisplayed

LEMMA ReviewIsReview == ASSUME NEW t \in Tasks PROVE Answers(t) \subseteq Loaded
BY DEF Answers, Review, Reviews, Loaded

LEMMA InitPage == Init => PageInv
<1> SUFFICES ASSUME Init PROVE PageInv
  OBVIOUS
<1>1. loads \in SUBSET Loads
  BY DEF Init, Loads, Loaded
<1> QED
  BY <1>1 DEF Init, PageInv, PageTypes, ApprovedAsDisplayed

\* Steps that neither send nor serve a decision.
LEMMA NothingSent ==
  ASSUME PageInv, PageTypes', UNCHANGED <<requests, effect>>
  PROVE  PageInv'
BY DEF PageInv, AsShown, ApprovedAsDisplayed

LEMMA ReplyTypes ==
  ASSUME PageInv, NEW r \in requests, NEW a \in {"done", "conflict", "failed"}, Reply(r, a)
  PROVE  /\ deciding' \in {Nothing} \union Sent \union Refreshing
         /\ requests' \subseteq requests
<1>1. CASE Waiting(r)
  <2>1. deciding \in Sent
    BY <1>1 DEF Waiting, Busy, PageInv, PageTypes, Refreshing
  <2>2. deciding' = [deciding EXCEPT !.answer = a]
    BY <1>1 DEF Reply
  <2> QED
    BY <2>1, <2>2 DEF Sent, Reply
<1>2. CASE ~Waiting(r)
  BY <1>2 DEF Reply, PageInv, PageTypes
<1> QED
  BY <1>1, <1>2

LEMMA NextPage == PageInv /\ [Next]_vars => PageInv'
<1> SUFFICES ASSUME PageInv, [Next]_vars PROVE PageInv'
  OBVIOUS
<1> USE DEF PageInv
<1>1. ASSUME NEW t \in Tasks, Type(t) PROVE PageInv'
  BY <1>1, NothingSent DEF Type, PageTypes
<1>2. CASE LoadCandidate
  <2>1. loads' \in SUBSET Loads
    BY <1>2 DEF LoadCandidate, PageTypes, Loads, Loaded
  <2> QED
    BY <1>2, <2>1, NothingSent DEF LoadCandidate, PageTypes
<1>3. ASSUME NEW l \in loads, Serve(l) PROVE PageInv'
  <2>1. l \in Loads
    BY DEF PageTypes
  <2>2. PICK a \in Answers(l.task) : loads' = (loads \ {l}) \union {[l EXCEPT !.answer = a]}
    BY <1>3 DEF Serve
  <2>3. a \in Loaded
    BY <2>1, ReviewIsReview DEF Loads
  <2>4. [l EXCEPT !.answer = a] \in Loads
    BY <2>1, <2>3 DEF Loads
  <2> QED
    BY <1>3, <2>2, <2>4, NothingSent DEF Serve, PageTypes, page
<1>4. ASSUME NEW l \in loads, Arrive(l) PROVE PageInv'
  <2>1. l.answer \in Loaded
    BY DEF PageTypes, Loads
  <2>2. review' \in Reviews \union {Nothing}
    BY <1>4, <2>1 DEF Arrive, Loaded
  <2> QED
    BY <1>4, <2>2, NothingSent DEF Arrive, PageTypes
<1>5. ASSUME NEW kind \in {"approve", "reject"}, Ask(kind) PROVE PageInv'
  BY <1>5, NothingSent DEF Ask, PageTypes
<1>6. CASE Cancel
  BY <1>6, NothingSent DEF Cancel, PageTypes
<1>7. CASE Decide
  <2>1. CASE confirm = "approve" /\ review = Nothing
    BY <1>7, <2>1 DEF Decide, PageTypes, ApprovedAsDisplayed, AsShown
  <2>2. CASE ~(confirm = "approve" /\ review = Nothing)
    <3> DEFINE shown == IF review = Nothing THEN Nothing ELSE review.task
               sent  == [kind |-> confirm, task |-> taskId,
                         fingerprint |-> IF confirm = "approve" THEN Fingerprint[shown] ELSE Nothing,
                         shown |-> shown, step |-> "received"]
    <3>1. /\ requests' = requests \union {sent}
          /\ deciding' = [step |-> "sent", request |-> sent, answer |-> Nothing]
          /\ effect' = Nothing
          /\ UNCHANGED <<taskId, review, confirm, loads>>
      BY <1>7, <2>2 DEF Decide
    <3>2. confirm \in {"approve", "reject"} /\ taskId \in Tasks
      BY <1>7 DEF Decide, PageTypes
    <3>3. shown \in Tasks \union {Nothing} /\ (confirm = "approve" => shown \in Tasks)
      BY <2>2, <3>2 DEF PageTypes, Reviews
    <3>4. sent \in Requests /\ AsShown(sent)
      BY <3>2, <3>3 DEF Requests, AsShown
    <3>5. deciding' \in Sent
      BY <3>1, <3>4 DEF Sent
    <3> HIDE DEF sent
    <3> QED
      BY <3>1, <3>4, <3>5 DEF PageTypes, ApprovedAsDisplayed, AsShown
  <2> QED
    BY <2>1, <2>2
<1>8. ASSUME NEW r \in requests, ServeApproval(r) PROVE PageInv'
  <2>1. r \in Requests /\ AsShown(r) /\ UNCHANGED <<taskId, review, confirm, loads>>
    BY <1>8 DEF PageTypes, ServeApproval, page
  <2>2. ASSUME UNCHANGED effect, NEW a \in {"done", "conflict", "failed"}, Reply(r, a)
        PROVE  PageInv'
    BY <2>1, <2>2, ReplyTypes DEF PageTypes, ApprovedAsDisplayed, AsShown
  <2>3. CASE /\ FingerprintMatches(r) /\ effect' = r /\ UNCHANGED deciding
             /\ requests' = (requests \ {r}) \union {[r EXCEPT !.step = "merged"]}
    <3>1. [r EXCEPT !.step = "merged"] \in Requests /\ AsShown([r EXCEPT !.step = "merged"])
      BY <2>1 DEF Requests, AsShown
    <3>2. ApprovedAsDisplayed'
      BY <2>1, <2>3, <1>8 DEF ApprovedAsDisplayed, AsShown, FingerprintMatches, ServeApproval
    <3> QED
      BY <2>1, <2>3, <3>1, <3>2 DEF PageTypes, AsShown
  <2> QED
    BY <1>8, <2>2, <2>3 DEF ServeApproval
<1>9. ASSUME NEW r \in requests, RecordApproval(r) PROVE PageInv'
  BY <1>9, ReplyTypes DEF RecordApproval, page, PageTypes, ApprovedAsDisplayed, AsShown
<1>10. ASSUME NEW r \in requests, ServeRejection(r) PROVE PageInv'
  <2>1. UNCHANGED <<taskId, review, confirm, loads>>
    BY <1>10 DEF ServeRejection, page
  <2>2. PICK a \in {"done", "conflict", "failed"} : Reply(r, a)
    BY <1>10 DEF ServeRejection
  <2>3. ApprovedAsDisplayed'
    BY <1>10 DEF ServeRejection, ApprovedAsDisplayed
  <2> QED
    BY <2>1, <2>2, <2>3, ReplyTypes DEF PageTypes, AsShown
<1>11. CASE Settle
  <2>1. deciding \in Sent
    BY <1>11 DEF Settle, Busy, PageTypes, Refreshing
  <2>2. deciding' \in {Nothing} \union Refreshing
    BY <1>11, <2>1 DEF Settle, Sent, Requests, Refreshing, Loaded
  <2> QED
    BY <1>11, <2>2, NothingSent DEF Settle, PageTypes
<1>12. CASE ServeRefresh
  <2>1. deciding \in Refreshing
    BY <1>12 DEF ServeRefresh, Busy, PageTypes, Sent
  <2>2. PICK a \in Answers(deciding.task) : deciding' = [deciding EXCEPT !.answer = a]
    BY <1>12 DEF ServeRefresh
  <2>3. a \in Loaded
    BY <2>1, ReviewIsReview DEF Refreshing
  <2>4. deciding' \in Refreshing
    BY <2>1, <2>2, <2>3 DEF Refreshing
  <2> QED
    BY <1>12, <2>4, NothingSent DEF ServeRefresh, PageTypes, page
<1>13. CASE Refreshed
  <2>1. deciding \in Refreshing
    BY <1>13 DEF Refreshed, Busy, PageTypes, Sent
  <2>2. review' \in Reviews \union {Nothing}
    BY <1>13, <2>1 DEF Refreshed, Refreshing, Loaded, PageTypes
  <2> QED
    BY <1>13, <2>2, NothingSent DEF Refreshed, PageTypes
<1>14. CASE Elsewhere
  BY <1>14, NothingSent DEF Elsewhere, page, PageTypes
<1>15. CASE UNCHANGED vars
  BY <1>15, NothingSent DEF vars, page, PageTypes
<1> QED
  BY <1>1, <1>2, <1>3, <1>4, <1>5, <1>6, <1>7, <1>8, <1>9, <1>10, <1>11, <1>12, <1>13,
     <1>14, <1>15 DEF Next, Answering

\* Whatever is typed, loaded or answered late, the candidate that an approval of the
\* page merges has the fingerprint of the review that was shown when it was confirmed.
THEOREM ApprovesWhatIsShown == Spec => []ApprovedAsDisplayed
<1>1. Spec => []PageInv
  BY InitPage, NextPage, PTL DEF Spec
<1> QED
  BY <1>1, PTL DEF PageInv
=============================================================================
