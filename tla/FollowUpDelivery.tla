-------------------------- MODULE FollowUpDelivery --------------------------
(***************************************************************************)
(* One follow-up plan, the approvals, dispatches and grants it spawns, and *)
(* everybody who writes them: the follow_up and deliver_email tasks        *)
(* (followups.ts, emailDelivery.ts), the owner's commands                  *)
(* (followupControl.ts, followupRecovery.ts, emailReconciliation.ts,       *)
(* approvalEngine.ts) and the events that stop a sequence.                 *)
(*                                                                         *)
(* A transaction that locks the workspace row is one step.  What is not    *)
(* under that lock is split: the provider call between the claim and its   *)
(* record, and the transaction that records an uncertain outcome, which    *)
(* reads the plan in one step and overwrites it in another.                *)
(*                                                                         *)
(* Whether the recipient, sender, resource, deadline and grant expiry still*)
(* permit contact is the environment's choice at every check, except that  *)
(* an unreviewed reply always refuses; an email's message row follows its  *)
(* dispatch and is not modelled apart from it.                             *)
(***************************************************************************)
EXTENDS Integers, FiniteSets

CONSTANTS
  Steps,          \* messages of the sequence
  Dispatch,       \* ids the outbox rows take
  Grant,          \* ids of automation grants
  NoGrant,        \* a dispatch's null grantId
  MaxRevision,    \* bound: revisions of the plan
  MaxReplans      \* bound: times the owner replaces the definition

ASSUME StepsAssumption == Steps \in Nat \ {0}
ASSUME BoundAssumption ==
  /\ MaxRevision \in Nat \ {0} /\ MaxReplans \in Nat
  /\ IsFiniteSet(Dispatch) /\ IsFiniteSet(Grant) /\ NoGrant \notin Grant

VARIABLES
  \* followUpPlans row; epoch counts its definitions, unread is a reply that is
  \* not in its replyCursor
  status, revision, step, delegated, epoch, unread,
  timers,         \* <<revision, step>> of the follow_up tasks ever scheduled
  \* emailDispatches rows with their approvals
  dispatch, approval, planRevision, stepIndex, epochOf, grantOf, claimed,
  \* automationGrants rows
  grantRevision, maxSends, active,
  \* the process delivering a dispatch, and the plan as its error path read it
  pc, snapshot,
  accepted        \* ghost: dispatches the provider really accepted

planVars     == <<status, revision, step, delegated, epoch, unread, timers>>
dispatchVars == <<dispatch, approval, planRevision, stepIndex, epochOf,
                  grantOf, claimed>>
grantVars    == <<grantRevision, maxSends, active>>
processVars  == <<pc, snapshot>>
vars == <<planVars, dispatchVars, grantVars, processVars, accepted>>

PlanStatus == {"scheduled", "waiting", "approval_pending", "paused", "blocked",
               "cancelled", "completed", "exhausted"}
Ended   == {"cancelled", "completed", "exhausted"}
Waiting == {"scheduled", "waiting"}
Refusal == {"cancelled", "completed", "paused", "blocked"}
DispatchStatus == {"none", "queued", "cancelled", "dispatching", "sent",
                   "reconciliation_required", "accepted_recorded",
                   "not_accepted_recorded"}
Unknown == {"dispatching", "reconciliation_required"}

Init ==
  /\ status = "scheduled" /\ revision = 1 /\ step = 0 /\ delegated = FALSE
  /\ epoch = 0 /\ unread = FALSE /\ timers = {<<1, 0>>}
  /\ dispatch = [i \in Dispatch |-> "none"]
  /\ approval = [i \in Dispatch |-> "none"]
  /\ planRevision = [i \in Dispatch |-> 0]
  /\ stepIndex = [i \in Dispatch |-> 0]
  /\ epochOf = [i \in Dispatch |-> 0]
  /\ grantOf = [i \in Dispatch |-> NoGrant]
  /\ claimed = [i \in Dispatch |-> FALSE]
  /\ grantRevision = [g \in Grant |-> 0]
  /\ maxSends = [g \in Grant |-> 0]
  /\ active = [g \in Grant |-> FALSE]
  /\ pc = [i \in Dispatch |-> "none"]
  /\ snapshot = [status |-> "scheduled", revision |-> 1]
  /\ accepted = {}
-----------------------------------------------------------------------------
(* Helpers of every transaction.                                           *)

Current(i) == planRevision[i] = revision /\ stepIndex[i] = step
MayBeEligible == ~unread

\* Mutant: an attempt whose outcome is uncertain does not hold the plan back.
NoneInFlight == \A i \in Dispatch : dispatch[i] # "dispatching"
NoneUnresolved == \A i \in Dispatch : dispatch[i] \notin Unknown

\* cancelUnusedEmailDispatch's test (mutant: pending outbox rows survive a stop).
NothingUnused == {}
Unused == {i \in Dispatch : /\ dispatch[i] = "queued" /\ ~claimed[i]
                            /\ approval[i] \in {"pending", "approved"}}

\* Mutant: a stop leaves the sending permission active.
RevokeNoGrant == UNCHANGED active
RevokeGrants == active' = [g \in Grant |-> FALSE]

\* stopFollowUp's revocation: the grants go, and with them the dispatches that are
\* still unused.  `base` are the dispatch statuses and `decided` the approvals the
\* same transaction has already written.
Release(base, decided) ==
  LET S == {i \in Unused : dispatch[i] = base[i] /\ approval[i] = decided[i]}
  IN  /\ RevokeGrants
      /\ dispatch' = [i \in Dispatch |-> IF i \in S THEN "cancelled" ELSE base[i]]
      /\ approval' = [i \in Dispatch |-> IF i \in S THEN "cancelled" ELSE decided[i]]

\* stopFollowUp, on the plan row `old` its caller read: an ended plan is left
\* alone; any other gets the new status and old's next revision and returns to
\* owner review.
StopFollowUp(new, old, base, decided) ==
  IF old.status \in Ended
  THEN /\ dispatch' = base /\ approval' = decided
       /\ UNCHANGED <<status, revision, delegated, active>>
  ELSE /\ old.revision < MaxRevision
       /\ status' = new
       /\ revision' = old.revision + 1
       /\ delegated' = FALSE
       /\ Release(base, decided)

Plan == [status |-> status, revision |-> revision]
Stop(new) == StopFollowUp(new, Plan, dispatch, approval)

rowVars == <<planRevision, stepIndex, epochOf, grantOf, claimed>>
-----------------------------------------------------------------------------
(* The follow_up task: prepareFollowUp.                                    *)

\* The task of timer t is not superseded.
Timely(t) == t = <<revision, step>> /\ status \in Waiting

HasStep == step < Steps

\* The plan's active grant, unless it is stale.
ValidGrant(g) == active[g] /\ grantRevision[g] = revision

\* A message, its approval and a queued dispatch.  With a valid grant the
\* approval is already given.
Prepare(t) ==
  /\ t \in timers /\ Timely(t)
  /\ MayBeEligible /\ HasStep
  /\ \E i \in Dispatch, g \in Grant \cup {NoGrant} :
       /\ dispatch[i] = "none"
       /\ IF delegated THEN g \in Grant /\ ValidGrant(g) ELSE g = NoGrant
       /\ dispatch' = [dispatch EXCEPT ![i] = "queued"]
       /\ approval' = [approval EXCEPT ![i] = IF delegated THEN "approved"
                                              ELSE "pending"]
       /\ planRevision' = [planRevision EXCEPT ![i] = revision]
       /\ stepIndex' = [stepIndex EXCEPT ![i] = step]
       /\ epochOf' = [epochOf EXCEPT ![i] = epoch]
       /\ grantOf' = [grantOf EXCEPT ![i] = g]
  /\ status' = "approval_pending"
  /\ UNCHANGED <<revision, step, delegated, epoch, unread, timers, claimed,
                 grantVars, processVars, accepted>>

\* Ineligible, out of steps, sender inactive, or the delegation is no longer
\* valid.
PrepareStops(t) ==
  /\ t \in timers /\ Timely(t)
  /\ \/ \E new \in Refusal : Stop(new)
     \/ MayBeEligible /\ ~HasStep /\ Stop("exhausted")
  /\ UNCHANGED <<step, epoch, unread, timers, rowVars, grantRevision, maxSends,
                 processVars, accepted>>

\* blockFollowUpFailure: a task that threw blocks the plan it is current for.
TaskFails ==
  /\ \/ \E t \in timers : t[1] = revision
     \/ \E i \in Dispatch : approval[i] = "approved" /\ Current(i)
  /\ status \notin Ended \cup {"blocked"}
  /\ Stop("blocked")
  /\ UNCHANGED <<step, epoch, unread, timers, rowVars, grantRevision, maxSends,
                 processVars, accepted>>
-----------------------------------------------------------------------------
(* The deliver_email task and "deliver approved": deliverApprovedEmail.    *)

Consumable(i) ==
  /\ dispatch[i] = "queued" /\ approval[i] = "approved" /\ ~claimed[i]
  /\ status = "approval_pending" /\ Current(i)

\* Mutant: one claim too many.
ClaimsUnder(g) == {i \in Dispatch : grantOf[i] = g /\ claimed[i]}
UnderCapInclusive(g) == Cardinality(ClaimsUnder(g)) <= maxSends[g]
UnderCap(g) == Cardinality(ClaimsUnder(g)) < maxSends[g]

\* The claim: the approval is consumed and the dispatch is out.  Quiet hours,
\* limits and the emergency stop put it off without changing anything here.
Claim(i) ==
  /\ Consumable(i) /\ MayBeEligible
  /\ grantOf[i] # NoGrant => ValidGrant(grantOf[i]) /\ UnderCap(grantOf[i])
  /\ claimed' = [claimed EXCEPT ![i] = TRUE]
  /\ dispatch' = [dispatch EXCEPT ![i] = "dispatching"]
  /\ pc' = [pc EXCEPT ![i] = "calling"]
  /\ UNCHANGED <<planVars, approval, planRevision, stepIndex, epochOf, grantOf,
                 grantVars, snapshot, accepted>>

\* Ineligible, grant expired, revoked or used up, no window before the deadline,
\* or no configured mailbox.
ClaimStops(i) ==
  /\ Consumable(i)
  /\ \E new \in Refusal : Stop(new)
  /\ UNCHANGED <<step, epoch, unread, timers, rowVars, grantRevision, maxSends,
                 processVars, accepted>>

\* The provider accepts the message; the answer may still get lost.
ProviderAccepts(i) ==
  /\ dispatch[i] \in Unknown /\ i \notin accepted
  /\ accepted' = accepted \cup {i}
  /\ UNCHANGED <<planVars, dispatchVars, grantVars, processVars>>

\* advanceFollowUp: an acceptance that arrives after the plan was stopped still
\* moves it past the step.
LateAcceptance(i) ==
  /\ revision > planRevision[i] /\ step = stepIndex[i]
  /\ status \in {"paused", "blocked", "cancelled", "completed"}
OnTime(i) == Current(i) /\ status = "approval_pending"

\* scheduleFollowUp's task for the given revision and step (mutant: none).
NoTask(r, s) == timers
WithTask(r, s) == timers \cup {<<r, s>>}

\* The receipt is recorded and the plan advances.
RecordSent(i) ==
  /\ pc[i] = "calling" /\ i \in accepted
  /\ dispatch' = [dispatch EXCEPT ![i] = "sent"]
  /\ pc' = [pc EXCEPT ![i] = "none"]
  /\ step' = IF LateAcceptance(i) \/ OnTime(i) THEN step + 1 ELSE step
  /\ status' = IF OnTime(i) THEN "waiting" ELSE status
  /\ timers' = IF OnTime(i) THEN WithTask(revision, step + 1) ELSE timers
  /\ UNCHANGED <<revision, delegated, epoch, unread, approval, rowVars,
                 grantVars, snapshot, accepted>>

\* The call failed or timed out, or recording the receipt did: the error
\* transaction has read the plan, without any lock.
ErrorReads(i) ==
  /\ pc[i] = "calling"
  /\ pc' = [pc EXCEPT ![i] = "erring"]
  /\ snapshot' = Plan
  /\ UNCHANGED <<planVars, dispatchVars, grantVars, accepted>>

ErrorWrites(i) ==
  /\ pc[i] = "erring"
  /\ StopFollowUp("blocked", snapshot,
                  [dispatch EXCEPT ![i] = "reconciliation_required"], approval)
  /\ pc' = [pc EXCEPT ![i] = "none"]
  /\ UNCHANGED <<step, epoch, unread, timers, rowVars, grantRevision, maxSends,
                 snapshot, accepted>>

\* The process dies: the dispatch stays as it is.
Crash(i) ==
  /\ pc[i] # "none"
  /\ pc' = [pc EXCEPT ![i] = "none"]
  /\ UNCHANGED <<planVars, dispatchVars, grantVars, snapshot, accepted>>
-----------------------------------------------------------------------------
(* The owner's decisions.                                                  *)

\* applyApprovalDecision on an email_send approval.
Approve(i) ==
  /\ approval[i] = "pending" /\ dispatch[i] = "queued"
  /\ planRevision[i] = revision /\ status = "approval_pending"
  /\ MayBeEligible
  /\ approval' = [approval EXCEPT ![i] = "approved"]
  /\ UNCHANGED <<planVars, dispatch, rowVars, grantVars, processVars, accepted>>

Reject(i) ==
  /\ approval[i] = "pending"
  /\ StopFollowUp("paused", Plan, dispatch,
                  [approval EXCEPT ![i] = "rejected"])
  /\ UNCHANGED <<step, epoch, unread, timers, rowVars, grantRevision, maxSends,
                 processVars, accepted>>

\* controlFollowUp's pause, cancel and complete, and every domain event that
\* stops a sequence.
StopSequence ==
  /\ status \notin Ended
  /\ \E new \in {"paused", "cancelled", "completed"} : Stop(new)
  /\ UNCHANGED <<step, epoch, unread, timers, rowVars, grantRevision, maxSends,
                 processVars, accepted>>

\* receiveReply: one transaction records the reply and stops the sequence.
\* (Mutant: only sequences that wait for their next message are stopped.)
StoppedByReplyWhenWaiting == status \in Waiting
StoppedByReply == status \notin Ended
ReceiveReply ==
  /\ ~unread
  /\ unread' = TRUE
  /\ \/ StoppedByReply /\ \E new \in {"paused", "cancelled"} : Stop(new)
     \/ /\ ~StoppedByReply
        /\ UNCHANGED <<status, revision, delegated, active, dispatch, approval>>
  /\ UNCHANGED <<step, epoch, timers, rowVars, grantRevision, maxSends,
                 processVars, accepted>>

\* The plan starts again from the owner's review, its replies read.
Restart(at) ==
  /\ revision < MaxRevision
  /\ revision' = revision + 1
  /\ status' = "scheduled"
  /\ delegated' = FALSE
  /\ unread' = FALSE
  /\ step' = at
  /\ timers' = WithTask(revision + 1, at)

\* controlFollowUp's resume.
Resume ==
  /\ status \in {"paused", "blocked"} /\ NoneUnresolved
  /\ Restart(step)
  /\ UNCHANGED <<epoch, dispatchVars, grantVars, processVars, accepted>>

Snooze ==
  /\ status \notin Ended /\ NoneUnresolved
  /\ Release(dispatch, approval)
  /\ Restart(step)
  /\ UNCHANGED <<epoch, rowVars, grantRevision, maxSends, processVars, accepted>>

\* A new definition; ended plans may be replanned too.
Replan ==
  /\ NoneUnresolved
  /\ epoch < MaxReplans
  /\ IF status \in Ended THEN UNCHANGED <<dispatch, approval, active>>
     ELSE Release(dispatch, approval)
  /\ Restart(0)
  /\ epoch' = epoch + 1
  /\ UNCHANGED <<rowVars, grantRevision, maxSends, processVars, accepted>>

\* grantFollowUpSending: the new grant replaces all others and adopts the message
\* that waits for approval, if one does.
GrantSending(g, n) ==
  /\ status \in Waiting \cup {"approval_pending"}
  /\ MayBeEligible
  /\ grantRevision[g] = 0
  /\ n \in 1..Steps - step
  /\ active' = [h \in Grant |-> h = g]
  /\ grantRevision' = [grantRevision EXCEPT ![g] = revision]
  /\ maxSends' = [maxSends EXCEPT ![g] = n]
  /\ delegated' = TRUE
  /\ \/ /\ status = "approval_pending"
        /\ \E i \in Unused :
             /\ Current(i)
             /\ approval' = [approval EXCEPT ![i] = "approved"]
             /\ grantOf' = [grantOf EXCEPT ![i] = g]
     \/ status # "approval_pending" /\ UNCHANGED <<approval, grantOf>>
  /\ UNCHANGED <<status, revision, step, epoch, unread, timers, dispatch,
                 planRevision, stepIndex, epochOf, claimed, processVars, accepted>>

\* reconcileEmailDispatch with the owner's evidence, which is truthful and final:
\* the provider does not accept the message after she recorded that it did not.
Reconcile(i) ==
  /\ dispatch[i] = "reconciliation_required" /\ claimed[i]
  /\ StopFollowUp("paused", Plan,
       [dispatch EXCEPT ![i] = IF i \in accepted THEN "accepted_recorded"
                               ELSE "not_accepted_recorded"], approval)
  /\ step' = IF i \in accepted /\ step = stepIndex[i] /\ revision >= planRevision[i]
             THEN step + 1 ELSE step
  /\ UNCHANGED <<epoch, unread, timers, rowVars, grantRevision, maxSends,
                 processVars, accepted>>
-----------------------------------------------------------------------------
DispatchStep(i) ==
  \/ Claim(i) \/ ClaimStops(i) \/ ProviderAccepts(i) \/ RecordSent(i)
  \/ ErrorReads(i) \/ ErrorWrites(i) \/ Crash(i)
  \/ Approve(i) \/ Reject(i) \/ Reconcile(i)

Next ==
  \/ \E t \in timers : Prepare(t) \/ PrepareStops(t)
  \/ \E i \in Dispatch : DispatchStep(i)
  \/ \E g \in Grant, n \in 1..Steps : GrantSending(g, n)
  \/ TaskFails \/ StopSequence \/ ReceiveReply \/ Resume \/ Snooze \/ Replan

Spec == Init /\ [][Next]_vars
-----------------------------------------------------------------------------
(* Properties.                                                             *)

\* Every variable keeps to its set.
TypeOK ==
  /\ status \in PlanStatus
  /\ revision \in 1..MaxRevision
  /\ step \in 0..Steps
  /\ delegated \in BOOLEAN
  /\ epoch \in 0..MaxReplans
  /\ unread \in BOOLEAN
  /\ timers \subseteq (1..MaxRevision) \X (0..Steps)
  /\ dispatch \in [Dispatch -> DispatchStatus]
  /\ approval \in [Dispatch -> {"none", "pending", "approved", "rejected", "cancelled"}]
  /\ planRevision \in [Dispatch -> 0..MaxRevision]
  /\ stepIndex \in [Dispatch -> 0..Steps - 1]
  /\ epochOf \in [Dispatch -> 0..MaxReplans]
  /\ grantOf \in [Dispatch -> Grant \cup {NoGrant}]
  /\ claimed \in [Dispatch -> BOOLEAN]
  /\ grantRevision \in [Grant -> 0..MaxRevision]
  /\ maxSends \in [Grant -> 0..Steps]
  /\ active \in [Grant -> BOOLEAN]
  /\ pc \in [Dispatch -> {"none", "calling", "erring"}]
  /\ snapshot \in [status : PlanStatus, revision : 1..MaxRevision]
  /\ accepted \subseteq Dispatch

\* "Duplicate enrollment/worker execution cannot create a second dispatch for the
\* same active step" (IMPLEMENTATION_PROGRESS.md:179): at most one dispatch is
\* undecided, authorised or unresolved, and while it is only queued it belongs to
\* the plan's current revision and step and the plan waits for it.
Usable(i) == dispatch[i] = "queued" /\ approval[i] \in {"pending", "approved"}
Live(i) == Usable(i) \/ dispatch[i] \in Unknown
OneLiveDispatch ==
  /\ \A i, k \in Dispatch : Live(i) /\ Live(k) => i = k
  /\ \A i \in Dispatch :
       Usable(i) => Current(i) /\ ~claimed[i] /\ status = "approval_pending"

\* An active grant is the only one, binds the current revision, and the plan runs
\* under it: whatever stops, resumes, snoozes or replans the sequence revokes it.
\* (workflowStore.ts:31, followupControl.ts:50-53)
ActiveGrantIsCurrent ==
  \A g \in Grant : active[g] =>
    /\ delegated /\ grantRevision[g] = revision
    /\ \A h \in Grant : active[h] => h = g

\* No grant is used for more sends than the owner allowed, uncertain attempts
\* included.  (emailDelivery.ts:50-51)
GrantWithinBounds == \A g \in Grant : Cardinality(ClaimsUnder(g)) <= maxSends[g]

\* A reply the owner has not reviewed halts the sequence: no task can prepare or
\* claim until she resumes, snoozes or replans it.  (replyTriage.ts:105)
ReplyHalts == unread => status \notin Waiting \cup {"approval_pending"}

\* A sequence that waits for its next message has the task that will prepare it,
\* whatever revision or step it was brought to.  (workflowStore.ts:16-24)
NoLostTimer == status \in Waiting => <<revision, step>> \in timers

\* Follow-up delivery keeps the promise: steps in order, each accepted at most
\* once, nothing sent while an outcome is unknown.  (followups.ts:194-212,
\* followupControl.ts:24-25, followupRecovery.ts:20-31, emailReconciliation.ts:50)
Phase == IF \E i \in Dispatch : dispatch[i] = "dispatching" THEN "attempting"
         ELSE IF \E i \in Dispatch : dispatch[i] = "reconciliation_required"
              THEN "uncertain" ELSE "idle"
AcceptedSteps == {stepIndex[i] : i \in {k \in accepted : epochOf[k] = epoch}}
Promise == INSTANCE DeliveryPromise
             WITH cursor <- step, accepted <- AcceptedSteps, phase <- Phase
KeepsPromise == Promise!Spec
AcceptedInOrderOnce == Promise!InOrderOnce

\* "This sequence has ended." (followupControl.ts:18): nothing but a reviewed new
\* definition brings back a sequence that was cancelled, completed or exhausted.
EndedStaysEnded == 
  [][(status \in Ended /\ epoch' = epoch) => status' \in Ended]_vars
=============================================================================
