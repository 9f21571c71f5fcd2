-------------------------- MODULE CandidateReviews ---------------------------
(***************************************************************************)
(* The private questionnaires that one candidate gets for one role.  The   *)
(* owner asks, the candidate answers and corrects the answers through a    *)
(* private link, and the owner adopts them, completes the review or asks   *)
(* again.  Every command is one transaction under the workspace lock.      *)
(* Deadlines are jobs of the automation queue; a worker that lost its lease*)
(* may still process one.                                                  *)
(*                                                                         *)
(* The fingerprints of the candidate's evidence and of the requirement are *)
(* one version; a command repeated under its request key changes nothing.  *)
(* Questions, answers, consents, matches, reminders (FollowUpDelivery) and *)
(* failing transactions are left out.                                      *)
(***************************************************************************)
EXTENDS Naturals, FiniteSets

CONSTANTS
  Review,        \* requests
  MaxAnswers,    \* responses and corrections of one request: 5 in the code
  MaxDepth,      \* rounds of clarification: 3 in the code
  MaxSource      \* bound: versions of the evidence and the requirement

ASSUME ReviewAssumption == MaxAnswers \in Nat /\ MaxDepth \in Nat /\ MaxSource \in Nat \ {0}

VARIABLES
  source,        \* version of the evidence and the requirement
  open,          \* the role is open and the candidate is not suppressed
  review,        \* each request with its events
  activity,      \* candidate.review_activity: the request and the answer it is about
  task,          \* candidate_review_deadline jobs
  held           \* what the worker that took each job knows

reviewVars == <<source, open, review, activity, task, held>>

Deadline == [of : Review, kind : {"expiry", "review"}, answer : 0..MaxAnswers]
Expiry(r) == [of |-> r, kind |-> "expiry", answer |-> 0]
Owed(r, n) == [of |-> r, kind |-> "review", answer |-> n]
Nothing == [of |-> "nothing", answer |-> 0]

Incident == {"none", "detected", "resolved"}
Asked(depth) ==
  [status |-> "asked", source |-> source, depth |-> depth, live |-> TRUE, expired |-> FALSE,
   answer |-> 0, aged |-> FALSE, outcomes |-> {}, reviewed |-> 0,
   closed |-> "no", escalated |-> 0, missing |-> "none", overdue |-> "none",
   mail |-> "none"]
NoReview == [Asked(0) EXCEPT !.status = "none", !.source = 0, !.live = FALSE]

ReviewInit ==
  /\ source = 1 /\ open = TRUE
  /\ review = [r \in Review |-> NoReview] /\ activity = Nothing
  /\ task = [d \in Deadline |-> "none"] /\ held = [d \in Deadline |-> "nothing"]
-----------------------------------------------------------------------------
(* What the commands share.                                                *)

IsAsked(r) == review[r].status = "asked"
\* reviewScope, apart from the expiry.
InScope(r) == open /\ review[r].source = source
\* The link opens the review: its holder is let in and the scope is as it was.
LinkOpens(r) == IsAsked(r) /\ review[r].live /\ InScope(r) /\ ~review[r].expired

\* stopCandidateReviewWork: a mail that is not on its way is cancelled.
Stopped(row) == [row EXCEPT !.mail = IF @ = "waiting" THEN "cancelled" ELSE @]
\* resolveCandidateReviewIncidents.
Cleared(i) == IF i = "detected" THEN "resolved" ELSE i
CasesResolved(row) == [row EXCEPT !.missing = Cleared(@), !.overdue = Cleared(@)]
\* revokeCandidateReviewInTransaction (mutant: the link stays open).
Unlinked(row) == Stopped(row)
Revoked(row) == [Stopped(row) EXCEPT !.live = FALSE]

\* The jobs of a review that no worker has taken.
Waiting == {"queued", "retried", "blocked"}
TasksDropped(r) ==
  [d \in Deadline |-> IF d.of = r /\ task[d] \in Waiting THEN "cancelled" ELSE task[d]]
Enqueued(tasks, d) == IF tasks[d] = "none" THEN [tasks EXCEPT ![d] = "queued"] ELSE tasks
-----------------------------------------------------------------------------
(* Asking and answering.                                                   *)

Create(r) ==
  /\ ~IsAsked(r) /\ open
  /\ review' = [review EXCEPT ![r] = Asked(0)]
  /\ task' = Enqueued(task, Expiry(r))
  /\ UNCHANGED <<source, open, activity, held>>

\* The prepared mail brings a link of its own; the earlier one no longer opens.
PrepareMail(r) ==
  /\ LinkOpens(r) /\ review[r].answer = 0 /\ review[r].mail = "none"
  /\ review' = [review EXCEPT ![r].mail = "waiting"]
  /\ UNCHANGED <<source, open, activity, task, held>>

\* The owner approved it, and the delivery finds the review as it was.
SendMail(r) ==
  /\ review[r].mail = "waiting" /\ LinkOpens(r) /\ review[r].answer = 0
  /\ review' = [review EXCEPT ![r].mail = "sent"]
  /\ UNCHANGED <<source, open, activity, task, held>>

RejectMail(r) ==
  /\ review[r].mail = "waiting"
  /\ review' = [review EXCEPT ![r] = Revoked([@ EXCEPT !.mail = "cancelled"])]
  /\ UNCHANGED <<source, open, activity, task, held>>

AnswerRecorded(row) ==
  CasesResolved([Stopped(row) EXCEPT !.answer = row.answer + 1, !.aged = FALSE])

Respond(r) ==
  /\ LinkOpens(r) /\ review[r].answer < MaxAnswers
  /\ review' = [review EXCEPT ![r] = AnswerRecorded(@)]
  /\ activity' = [of |-> r, answer |-> review'[r].answer]
  /\ task' = Enqueued(task, Owed(r, review'[r].answer))
  /\ UNCHANGED <<source, open, held>>

Revoke(r) ==
  /\ IsAsked(r) /\ review' = [review EXCEPT ![r] = Revoked(@)]
  /\ UNCHANGED <<source, open, activity, task, held>>
-----------------------------------------------------------------------------
(* Reviewing.                                                              *)

\* The owner decides about the answer that was shown.
Reviewable(r, n) ==
  /\ IsAsked(r) /\ InScope(r) /\ n > 0 /\ review[r].answer = n
  /\ review[r].outcomes = {} /\ activity.of = r
CurrentResponse(r, n) == Reviewable(r, n) /\ activity.answer = n

Outcome(row, kind, n) ==
  CasesResolved([Stopped(row) EXCEPT !.outcomes = @ \cup {kind}, !.reviewed = n])

\* The adopted fields are new evidence; the link stays, but it opens nothing then.
Adopt(r, n) ==
  /\ Reviewable(r, n) /\ source < MaxSource
  /\ source' = source + 1
  /\ review' = [review EXCEPT ![r] = Outcome(@, "adopted", n)]
  /\ activity' = [of |-> r, answer |-> n]
  /\ task' = TasksDropped(r)
  /\ UNCHANGED <<open, held>>

Complete(r, n) ==
  /\ CurrentResponse(r, n)
  /\ review' = [review EXCEPT ![r] = Revoked(Outcome(@, "completed", n))]
  /\ activity' = [of |-> r, answer |-> n]
  /\ task' = TasksDropped(r)
  /\ UNCHANGED <<source, open, held>>

Clarify(r, n, child) ==
  /\ CurrentResponse(r, n) /\ review[r].depth < MaxDepth /\ ~IsAsked(child)
  /\ review' = [review EXCEPT ![r] = Revoked(Outcome(@, "clarified", n)),
                              ![child] = Asked(review[r].depth + 1)]
  /\ activity' = [of |-> child, answer |-> 0]
  /\ task' = Enqueued(TasksDropped(r), Expiry(child))
  /\ UNCHANGED <<source, open, held>>
-----------------------------------------------------------------------------
(* Deadlines.                                                              *)

HasPassed(d) == IF d.kind = "expiry" THEN review[d.of].expired
          ELSE review[d.of].answer > d.answer \/ review[d.of].aged

\* A job the owner put back is taken at once.
Claim(d) ==
  /\ task[d] = "retried" \/ (task[d] = "queued" /\ HasPassed(d))
  /\ held[d] = "nothing"
  /\ task' = [task EXCEPT ![d] = "running"] /\ held' = [held EXCEPT ![d] = "claimed"]
  /\ UNCHANGED <<source, open, review, activity>>

Processed(d) ==
  IF d.kind = "expiry" THEN review[d.of].closed # "no"
  ELSE review[d.of].escalated = d.answer
\* The job is about what is no longer asked, answered or open.
Superseded(d) ==
  LET row == review[d.of] IN
  \/ Processed(d) \/ row.outcomes # {}
  \/ d.kind = "review" /\ row.answer # d.answer
  \/ d.kind = "expiry" /\ ~row.live

Learn(d, what) == held' = [held EXCEPT ![d] = what]
SkipDeadline(d) ==
  /\ held[d] = "claimed" /\ Superseded(d) /\ Learn(d, "done")
  /\ UNCHANGED <<source, open, review, activity, task>>
\* Not due, or the worker was paused or stopped meanwhile.
DeferDeadline(d) ==
  /\ held[d] = "claimed" /\ Learn(d, "deferred")
  /\ UNCHANGED <<source, open, review, activity, task>>

Calls(d) == InScope(d.of) /\ (d.kind = "review" \/ review[d.of].answer = 0)
Escalated(d, row) ==
  IF ~Calls(d) THEN CasesResolved(row)
  ELSE IF d.kind = "expiry" THEN [row EXCEPT !.missing = "detected"]
  ELSE [row EXCEPT !.overdue = "detected"]
Recorded(d, row) ==
  IF d.kind = "expiry"
  THEN [row EXCEPT !.live = FALSE, !.closed = IF InScope(d.of) THEN "current" ELSE "stale"]
  ELSE [row EXCEPT !.escalated = d.answer]
\* Jobs are cancelled only for a source that changed (mutant: with every deadline).
DroppedAnyway(r) == TasksDropped(r)
DroppedIfStale(r) == IF InScope(r) THEN task ELSE TasksDropped(r)

EscalateDeadline(d) ==
  /\ held[d] = "claimed" /\ ~Superseded(d) /\ HasPassed(d) /\ Learn(d, "done")
  /\ review' = [review EXCEPT ![d.of] = Recorded(d, Escalated(d, Stopped(@)))]
  /\ task' = DroppedIfStale(d.of)
  /\ UNCHANGED <<source, open, activity>>

Settle(d) ==
  /\ held[d] \in {"done", "deferred"} /\ Learn(d, "nothing")
  /\ task' = [task EXCEPT ![d] = IF @ # "running" THEN @
                                 ELSE IF held[d] = "done" THEN "completed" ELSE "queued"]
  /\ UNCHANGED <<source, open, review, activity>>

\* The lease runs out; the owner retries; the process dies.
LeaseExpires(d) ==
  /\ task[d] = "running" /\ task' = [task EXCEPT ![d] = "blocked"]
  /\ UNCHANGED <<source, open, review, activity, held>>
Retry(d) ==
  /\ task[d] = "blocked" /\ task' = [task EXCEPT ![d] = "retried"]
  /\ UNCHANGED <<source, open, review, activity, held>>
Die(d) ==
  /\ held[d] # "nothing" /\ Learn(d, "nothing")
  /\ UNCHANGED <<source, open, review, activity, task>>
-----------------------------------------------------------------------------
(* The world.                                                              *)

SourceChanges ==
  /\ source < MaxSource /\ source' = source + 1
  /\ UNCHANGED <<open, review, activity, task, held>>
RoleChanges == open' = ~open /\ UNCHANGED <<source, review, activity, task, held>>
LinkExpires(r) ==
  /\ IsAsked(r) /\ ~review[r].expired /\ review' = [review EXCEPT ![r].expired = TRUE]
  /\ UNCHANGED <<source, open, activity, task, held>>
AnswerAges(r) ==
  /\ review[r].answer > 0 /\ ~review[r].aged
  /\ review' = [review EXCEPT ![r].aged = TRUE]
  /\ UNCHANGED <<source, open, activity, task, held>>
\* updateIncidentState: the owner resolves an incident by hand.
ResolveByHand(r) ==
  /\ "detected" \in {review[r].missing, review[r].overdue}
  /\ \/ review' = [review EXCEPT ![r].missing = Cleared(@)]
     \/ review' = [review EXCEPT ![r].overdue = Cleared(@)]
  /\ UNCHANGED <<source, open, activity, task, held>>
-----------------------------------------------------------------------------
ReviewNext ==
  \/ \E r \in Review :
       \/ Create(r) \/ PrepareMail(r) \/ SendMail(r) \/ RejectMail(r) \/ Respond(r)
       \/ Revoke(r) \/ LinkExpires(r) \/ AnswerAges(r) \/ ResolveByHand(r)
       \/ \E n \in 1..MaxAnswers :
            Adopt(r, n) \/ Complete(r, n) \/ \E c \in Review : Clarify(r, n, c)
  \/ \E d \in Deadline :
       \/ Claim(d) \/ SkipDeadline(d) \/ DeferDeadline(d) \/ EscalateDeadline(d)
       \/ Settle(d) \/ LeaseExpires(d) \/ Retry(d) \/ Die(d)
  \/ SourceChanges \/ RoleChanges

ReviewSpec == ReviewInit /\ [][ReviewNext]_reviewVars
-----------------------------------------------------------------------------
ReviewTypeOK ==
  /\ source \in 1..MaxSource /\ open \in BOOLEAN
  /\ review \in [Review ->
       [status : {"none", "asked"}, source : 0..MaxSource, depth : 0..MaxDepth,
        live : BOOLEAN, expired : BOOLEAN, answer : 0..MaxAnswers, aged : BOOLEAN,
        outcomes : SUBSET {"adopted", "completed", "clarified"}, reviewed : 0..MaxAnswers,
        closed : {"no", "current", "stale"}, escalated : 0..MaxAnswers,
        missing : Incident, overdue : Incident,
        mail : {"none", "waiting", "sent", "cancelled"}]]
  /\ activity \in [of : Review \cup {"nothing"}, answer : 0..MaxAnswers]
  /\ task \in [Deadline -> Waiting \cup {"none", "running", "completed", "cancelled"}]
  /\ held \in [Deadline -> {"nothing", "claimed", "done", "deferred"}]

\* Whatever the owner decides about a review is decided once and about its last
\* answer: none comes after it, through no link that was out, and nothing that asks
\* for an answer waits to be sent once there is one (candidateReview.ts:59,
\* candidateReviewOperations.ts:16).
ReviewIsFinal ==
  \A r \in Review :
    /\ Cardinality(review[r].outcomes) <= 1
    /\ review[r].outcomes # {} => review[r].reviewed = review[r].answer
    /\ review[r].answer > 0 => review[r].mail # "waiting"

\* An answer the owner has not reviewed comes up in the end: the job of its deadline
\* is left, or was processed, through corrections, expiry, lost leases and retries
\* (candidateReviewLifecycle.ts:27).  Only a deadline that was processed while the
\* source had changed ends that.
Pending(d) == task[d] \in Waiting \cup {"running"}
AnswerIsTimed ==
  \A r \in Review :
    review[r].answer > 0 /\ review[r].outcomes = {} =>
      \/ Pending(Owed(r, review[r].answer))
      \/ review[r].escalated = review[r].answer
      \/ review[r].closed = "stale"

\* The expiry of a link resolves no case about an answer that still waits for the
\* owner (candidateReviewLifecycle.ts:48).
OverdueStaysOpen ==
  [][\A r \in Review :
       /\ review[r].closed = "no" /\ review'[r].closed = "current"
       /\ review[r].overdue = "detected"
       => review'[r].overdue = "detected"]_reviewVars
=============================================================================
