----------------------- MODULE FollowUpDelivery_proofs -----------------------
(* Theorems about FollowUpDelivery for sequences of any length and any     *)
(* number of dispatches, grants, revisions and replans.                    *)
EXTENDS FollowUpDelivery, FiniteSetTheorems, TLAPS

ApprovalStatus == {"none", "pending", "approved", "rejected", "cancelled"}
PlanRow == [status : PlanStatus, revision : 1..MaxRevision]

\* What stopFollowUp writes keeps to its sets.
LEMMA StopType ==
  ASSUME TypeOK, NEW new \in PlanStatus, NEW old \in PlanRow,
         NEW base \in [Dispatch -> DispatchStatus],
         NEW decided \in [Dispatch -> ApprovalStatus],
         StopFollowUp(new, old, base, decided)
  PROVE  /\ status' \in PlanStatus /\ revision' \in 1..MaxRevision
         /\ delegated' \in BOOLEAN /\ active' \in [Grant -> BOOLEAN]
         /\ dispatch' \in [Dispatch -> DispatchStatus]
         /\ approval' \in [Dispatch -> ApprovalStatus]
<1>1. CASE old.status \in Ended
  BY <1>1 DEF TypeOK, StopFollowUp, ApprovalStatus
<1>2. CASE old.status \notin Ended
  <2>1. /\ status' = new /\ delegated' = FALSE
        /\ old.revision < MaxRevision /\ revision' = old.revision + 1
        /\ Release(base, decided)
    BY <1>2 DEF StopFollowUp
  <2>2. active' \in [Grant -> BOOLEAN]
    BY <2>1 DEF Release, RevokeGrants
  <2>3. dispatch' \in [Dispatch -> DispatchStatus]
    BY <2>1 DEF Release, DispatchStatus
  <2>4. approval' \in [Dispatch -> ApprovalStatus]
    BY <2>1 DEF Release, ApprovalStatus
  <2>5. revision' \in 1..MaxRevision
    BY <2>1, BoundAssumption DEF PlanRow
  <2> QED
    BY <2>1, <2>2, <2>3, <2>4, <2>5
<1> QED
  BY <1>1, <1>2

\* The plan, as a reader copies it, is a well-typed row.
LEMMA PlanType == TypeOK => Plan \in PlanRow
BY DEF TypeOK, Plan, PlanRow

\* The transactions that stop the plan they have read.
LEMMA StopsType ==
  ASSUME TypeOK, NEW new \in PlanStatus, Stop(new),
         UNCHANGED <<step, epoch, timers, rowVars, grantRevision, maxSends,
                     processVars, accepted>>,
         unread' \in BOOLEAN
  PROVE  TypeOK'
<1>1. StopFollowUp(new, Plan, dispatch, approval)
  BY DEF Stop
<1>2. /\ dispatch \in [Dispatch -> DispatchStatus]
      /\ approval \in [Dispatch -> ApprovalStatus]
  BY DEF TypeOK, ApprovalStatus
<1>3. /\ status' \in PlanStatus /\ revision' \in 1..MaxRevision
      /\ delegated' \in BOOLEAN /\ active' \in [Grant -> BOOLEAN]
      /\ dispatch' \in [Dispatch -> DispatchStatus]
      /\ approval' \in [Dispatch -> ApprovalStatus]
  BY <1>1, <1>2, StopType, PlanType
<1> QED
  BY <1>3 DEF TypeOK, ApprovalStatus, rowVars, processVars

\* Restart keeps to the same sets, from any step.
LEMMA RestartType ==
  ASSUME TypeOK, NEW at \in 0..Steps, Restart(at)
  PROVE  /\ status' \in PlanStatus /\ revision' \in 1..MaxRevision
         /\ delegated' \in BOOLEAN /\ unread' \in BOOLEAN
         /\ step' \in 0..Steps
         /\ timers' \subseteq (1..MaxRevision) \X (0..Steps)
<1>1. status' \in PlanStatus /\ delegated' \in BOOLEAN /\ unread' \in BOOLEAN
      /\ step' \in 0..Steps
  BY DEF Restart, PlanStatus
<1>2. revision' \in 1..MaxRevision /\ revision + 1 \in 1..MaxRevision
  BY BoundAssumption DEF Restart, TypeOK
<1>3. <<revision + 1, at>> \in (1..MaxRevision) \X (0..Steps)
  BY <1>2
<1>4. timers' = timers \cup {<<revision + 1, at>>}
  BY DEF Restart, WithTask
<1> QED
  BY <1>1, <1>2, <1>3, <1>4 DEF TypeOK

\* The initial states are well typed.
LEMMA TypeInit == Init => TypeOK
<1> SUFFICES ASSUME Init PROVE TypeOK
  OBVIOUS
<1>1. /\ status \in PlanStatus /\ revision \in 1..MaxRevision
      /\ step \in 0..Steps /\ delegated \in BOOLEAN /\ epoch \in 0..MaxReplans
      /\ unread \in BOOLEAN
  <2>1. status \in PlanStatus /\ delegated \in BOOLEAN /\ unread \in BOOLEAN
    BY DEF Init, PlanStatus
  <2>2. revision \in 1..MaxRevision /\ epoch \in 0..MaxReplans
    BY BoundAssumption DEF Init
  <2>3. step \in 0..Steps
    BY StepsAssumption DEF Init
  <2> QED
    BY <2>1, <2>2, <2>3
<1>2. /\ dispatch \in [Dispatch -> DispatchStatus]
      /\ approval \in [Dispatch -> ApprovalStatus]
      /\ planRevision \in [Dispatch -> 0..MaxRevision]
      /\ stepIndex \in [Dispatch -> 0..Steps - 1]
      /\ epochOf \in [Dispatch -> 0..MaxReplans]
      /\ grantOf \in [Dispatch -> Grant \cup {NoGrant}]
      /\ claimed \in [Dispatch -> BOOLEAN]
  BY StepsAssumption, BoundAssumption DEF Init, DispatchStatus, ApprovalStatus
<1>3. /\ grantRevision \in [Grant -> 0..MaxRevision]
      /\ maxSends \in [Grant -> 0..Steps]
      /\ active \in [Grant -> BOOLEAN]
      /\ pc \in [Dispatch -> {"none", "calling", "erring"}]
      /\ snapshot \in PlanRow
      /\ accepted \subseteq Dispatch
  BY StepsAssumption, BoundAssumption DEF Init, PlanRow, PlanStatus
<1>4. <<1, 0>> \in (1..MaxRevision) \X (0..Steps) /\ timers = {<<1, 0>>}
  BY StepsAssumption, BoundAssumption DEF Init
<1>5. timers \subseteq (1..MaxRevision) \X (0..Steps)
  BY <1>4
<1> QED
  BY <1>1, <1>2, <1>3, <1>5 DEF TypeOK, ApprovalStatus, PlanRow

\* Every step of the evaluations, the owner, the provider and the clock keeps
\* every variable in its set.
LEMMA TypeNext ==
  ASSUME TypeOK, [Next]_vars
  PROVE  TypeOK'
<1> USE DEF planVars, dispatchVars, grantVars, processVars, rowVars
<1>1. ASSUME NEW t \in timers, Prepare(t) PROVE TypeOK'
  <2>1. PICK i \in Dispatch, g \in Grant \cup {NoGrant} :
          /\ dispatch' = [dispatch EXCEPT ![i] = "queued"]
          /\ approval' = [approval EXCEPT ![i] = IF delegated THEN "approved"
                                                 ELSE "pending"]
          /\ planRevision' = [planRevision EXCEPT ![i] = revision]
          /\ stepIndex' = [stepIndex EXCEPT ![i] = step]
          /\ epochOf' = [epochOf EXCEPT ![i] = epoch]
          /\ grantOf' = [grantOf EXCEPT ![i] = g]
    BY <1>1 DEF Prepare
  <2>2. step \in 0..Steps - 1 /\ revision \in 0..MaxRevision
    BY <1>1, StepsAssumption, BoundAssumption DEF TypeOK, Prepare, HasStep
  <2>3. /\ dispatch' \in [Dispatch -> DispatchStatus]
        /\ approval' \in [Dispatch -> ApprovalStatus]
    BY <2>1 DEF TypeOK, DispatchStatus, ApprovalStatus
  <2>4. /\ planRevision' \in [Dispatch -> 0..MaxRevision]
        /\ stepIndex' \in [Dispatch -> 0..Steps - 1]
        /\ epochOf' \in [Dispatch -> 0..MaxReplans]
        /\ grantOf' \in [Dispatch -> Grant \cup {NoGrant}]
    BY <2>1, <2>2 DEF TypeOK
  <2> QED
    BY <1>1, <2>3, <2>4 DEF TypeOK, Prepare, PlanStatus, ApprovalStatus
<1>2. ASSUME NEW t \in timers, PrepareStops(t) PROVE TypeOK'
  BY <1>2, StopsType DEF TypeOK, PrepareStops, PlanStatus, Refusal
<1>3. ASSUME NEW i \in Dispatch, Claim(i) PROVE TypeOK'
  BY <1>3 DEF TypeOK, Claim, DispatchStatus
<1>4. ASSUME NEW i \in Dispatch, ClaimStops(i) PROVE TypeOK'
  BY <1>4, StopsType DEF TypeOK, ClaimStops, PlanStatus, Refusal
<1>5. ASSUME NEW i \in Dispatch, ProviderAccepts(i) PROVE TypeOK'
  BY <1>5 DEF TypeOK, ProviderAccepts
<1>6. ASSUME NEW i \in Dispatch, RecordSent(i) PROVE TypeOK'
  <2>1. LateAcceptance(i) \/ OnTime(i) => step + 1 \in 0..Steps
    BY StepsAssumption DEF TypeOK, LateAcceptance, OnTime, Current
  <2>2. step' \in 0..Steps /\ status' \in PlanStatus
    BY <1>6, <2>1 DEF TypeOK, RecordSent, PlanStatus
  <2>3. timers' \subseteq (1..MaxRevision) \X (0..Steps)
    BY <1>6, <2>1 DEF TypeOK, RecordSent, WithTask
  <2>4. /\ dispatch' \in [Dispatch -> DispatchStatus]
        /\ pc' \in [Dispatch -> {"none", "calling", "erring"}]
    BY <1>6 DEF TypeOK, RecordSent, DispatchStatus
  <2> QED
    BY <1>6, <2>2, <2>3, <2>4 DEF TypeOK, RecordSent
<1>7. ASSUME NEW i \in Dispatch, ErrorReads(i) PROVE TypeOK'
  <2>1. snapshot' \in PlanRow
    BY <1>7, PlanType DEF ErrorReads
  <2> QED
    BY <1>7, <2>1 DEF TypeOK, ErrorReads, PlanRow
<1>8. ASSUME NEW i \in Dispatch, ErrorWrites(i) PROVE TypeOK'
  <2>1. [dispatch EXCEPT ![i] = "reconciliation_required"]
          \in [Dispatch -> DispatchStatus]
    BY DEF TypeOK, DispatchStatus
  <2>2. /\ status' \in PlanStatus /\ revision' \in 1..MaxRevision
        /\ delegated' \in BOOLEAN /\ active' \in [Grant -> BOOLEAN]
        /\ dispatch' \in [Dispatch -> DispatchStatus]
        /\ approval' \in [Dispatch -> ApprovalStatus]
    BY <1>8, <2>1, StopType DEF TypeOK, ErrorWrites, PlanStatus, PlanRow,
       ApprovalStatus
  <2>3. pc' \in [Dispatch -> {"none", "calling", "erring"}]
    BY <1>8 DEF TypeOK, ErrorWrites
  <2> QED
    BY <1>8, <2>2, <2>3 DEF TypeOK, ErrorWrites, ApprovalStatus
<1>9. ASSUME NEW i \in Dispatch, Crash(i) PROVE TypeOK'
  BY <1>9 DEF TypeOK, Crash
<1>10. ASSUME NEW i \in Dispatch, Approve(i) PROVE TypeOK'
  BY <1>10 DEF TypeOK, Approve
<1>11. ASSUME NEW i \in Dispatch, Reject(i) PROVE TypeOK'
  <2>1. [approval EXCEPT ![i] = "rejected"] \in [Dispatch -> ApprovalStatus]
    BY DEF TypeOK, ApprovalStatus
  <2>2. /\ status' \in PlanStatus /\ revision' \in 1..MaxRevision
        /\ delegated' \in BOOLEAN /\ active' \in [Grant -> BOOLEAN]
        /\ dispatch' \in [Dispatch -> DispatchStatus]
        /\ approval' \in [Dispatch -> ApprovalStatus]
    BY <1>11, <2>1, StopType, PlanType DEF TypeOK, Reject, PlanStatus
  <2> QED
    BY <1>11, <2>2 DEF TypeOK, Reject, ApprovalStatus
<1>12. ASSUME NEW i \in Dispatch, Reconcile(i) PROVE TypeOK'
  <2> DEFINE base == [dispatch EXCEPT ![i] =
                        IF i \in accepted THEN "accepted_recorded"
                        ELSE "not_accepted_recorded"]
  <2>1. /\ base \in [Dispatch -> DispatchStatus]
        /\ approval \in [Dispatch -> ApprovalStatus]
    BY DEF TypeOK, DispatchStatus, ApprovalStatus
  <2>2. StopFollowUp("paused", Plan, base, approval)
    BY <1>12 DEF Reconcile
  <2> HIDE DEF base
  <2>3. /\ status' \in PlanStatus /\ revision' \in 1..MaxRevision
        /\ delegated' \in BOOLEAN /\ active' \in [Grant -> BOOLEAN]
        /\ dispatch' \in [Dispatch -> DispatchStatus]
        /\ approval' \in [Dispatch -> ApprovalStatus]
    BY <2>1, <2>2, StopType, PlanType DEF PlanStatus
  <2>4. step' \in 0..Steps
    BY <1>12, StepsAssumption DEF TypeOK, Reconcile
  <2> QED
    BY <1>12, <2>3, <2>4 DEF TypeOK, Reconcile, ApprovalStatus
<1>13. ASSUME NEW g \in Grant, NEW n \in 1..Steps, GrantSending(g, n)
       PROVE  TypeOK'
  BY <1>13 DEF TypeOK, GrantSending, PlanStatus
<1>14. CASE TaskFails
  BY <1>14, StopsType DEF TypeOK, TaskFails, PlanStatus
<1>15. CASE StopSequence
  BY <1>15, StopsType DEF TypeOK, StopSequence, PlanStatus
<1>16. CASE ReceiveReply
  <2>1. ASSUME NEW new \in {"paused", "cancelled"}, Stop(new) PROVE TypeOK'
    BY <1>16, <2>1, StopsType DEF ReceiveReply, PlanStatus
  <2>2. CASE UNCHANGED <<status, revision, delegated, active, dispatch,
                         approval>>
    BY <1>16, <2>2 DEF TypeOK, ReceiveReply
  <2> QED
    BY <1>16, <2>1, <2>2 DEF ReceiveReply
<1>17. CASE Resume
  <2>1. /\ status' \in PlanStatus /\ revision' \in 1..MaxRevision
        /\ delegated' \in BOOLEAN /\ unread' \in BOOLEAN
        /\ step' \in 0..Steps
        /\ timers' \subseteq (1..MaxRevision) \X (0..Steps)
    BY <1>17, RestartType, StepsAssumption DEF TypeOK, Resume
  <2> QED
    BY <1>17, <2>1 DEF TypeOK, Resume
<1>18. CASE Snooze
  <2>1. /\ status' \in PlanStatus /\ revision' \in 1..MaxRevision
        /\ delegated' \in BOOLEAN /\ unread' \in BOOLEAN
        /\ step' \in 0..Steps
        /\ timers' \subseteq (1..MaxRevision) \X (0..Steps)
    BY <1>18, RestartType, StepsAssumption DEF TypeOK, Snooze
  <2>2. /\ dispatch' \in [Dispatch -> DispatchStatus]
        /\ approval' \in [Dispatch -> ApprovalStatus]
        /\ active' \in [Grant -> BOOLEAN]
    BY <1>18 DEF TypeOK, Snooze, Release, RevokeGrants, DispatchStatus,
       ApprovalStatus
  <2> QED
    BY <1>18, <2>1, <2>2 DEF TypeOK, Snooze, ApprovalStatus
<1>19. CASE Replan
  <2>1. /\ status' \in PlanStatus /\ revision' \in 1..MaxRevision
        /\ delegated' \in BOOLEAN /\ unread' \in BOOLEAN
        /\ step' \in 0..Steps
        /\ timers' \subseteq (1..MaxRevision) \X (0..Steps)
    BY <1>19, RestartType, StepsAssumption DEF TypeOK, Replan
  <2>2. /\ dispatch' \in [Dispatch -> DispatchStatus]
        /\ approval' \in [Dispatch -> ApprovalStatus]
        /\ active' \in [Grant -> BOOLEAN]
    <3>1. CASE status \in Ended
      BY <1>19, <3>1 DEF TypeOK, Replan, ApprovalStatus
    <3>2. CASE status \notin Ended
      <4>1. Release(dispatch, approval)
        BY <1>19, <3>2 DEF Replan
      <4>2. active' \in [Grant -> BOOLEAN]
        BY <4>1 DEF Release, RevokeGrants
      <4>3. PICK S \in SUBSET Dispatch :
              /\ dispatch' = [i \in Dispatch |->
                               IF i \in S THEN "cancelled" ELSE dispatch[i]]
              /\ approval' = [i \in Dispatch |->
                               IF i \in S THEN "cancelled" ELSE approval[i]]
        BY <4>1 DEF Release, Unused
      <4> QED
        BY <4>2, <4>3 DEF TypeOK, DispatchStatus, ApprovalStatus
    <3> QED
      BY <3>1, <3>2
  <2>3. epoch' \in 0..MaxReplans
    BY <1>19, BoundAssumption DEF TypeOK, Replan
  <2> QED
    BY <1>19, <2>1, <2>2, <2>3 DEF TypeOK, Replan, ApprovalStatus
<1>20. CASE UNCHANGED vars
  BY <1>20 DEF TypeOK, vars
<1> QED
  BY <1>1, <1>2, <1>3, <1>4, <1>5, <1>6, <1>7, <1>8, <1>9, <1>10, <1>11,
     <1>12, <1>13, <1>14, <1>15, <1>16, <1>17, <1>18, <1>19, <1>20
  DEF Next, DispatchStep

\* Every variable keeps to its set in every reachable state.
THEOREM TypeCorrect == Spec => []TypeOK
<1>1. TypeOK /\ [Next]_vars => TypeOK'
  BY TypeNext
<1> QED
  BY TypeInit, <1>1, PTL DEF Spec

-----------------------------------------------------------------------------
(* Safety: the inductive invariant.                                        *)

Halted == {"paused", "blocked", "cancelled", "completed"}
Past(i) == dispatch[i] \in {"sent", "accepted_recorded"}

\* An attempt whose outcome is open is for the step the plan is at, and the
\* plan waits for it or was halted since.
ClaimBindsPlan ==
  \A i \in Dispatch : dispatch[i] \in Unknown =>
    /\ stepIndex[i] = step /\ epochOf[i] = epoch
    /\ planRevision[i] <= revision
    /\ planRevision[i] = revision => status = "approval_pending"
    /\ planRevision[i] < revision => status \in Halted

\* Only an attempt under way has a process, and what its error path has read of
\* the plan is not older than the attempt.  An unclaimed dispatch is not out.
CallsAreClaims ==
  \A i \in Dispatch :
    /\ dispatch[i] \in {"none", "queued"} => ~claimed[i]
    /\ pc[i] # "none" => dispatch[i] = "dispatching"
    /\ pc[i] = "erring" => planRevision[i] <= snapshot.revision

\* What the provider accepted is recorded or still open, and what is recorded
\* as accepted lies behind the plan's step.
AcceptedIsPast ==
  /\ \A i \in accepted : dispatch[i] \in Unknown \/ Past(i)
  /\ \A i \in Dispatch : Past(i) /\ epochOf[i] = epoch => stepIndex[i] < step

\* No dispatch is of a later definition, and one that may still be claimed is
\* of the current one.
EpochsKnown ==
  \A i \in Dispatch : epochOf[i] <= epoch /\ (Usable(i) => epochOf[i] = epoch)

\* At most one dispatch stays live.
LEMMA LiveNext ==
  ASSUME TypeOK, OneLiveDispatch, ClaimBindsPlan, CallsAreClaims, [Next]_vars
  PROVE  OneLiveDispatch'
<1> USE DEF planVars, dispatchVars, grantVars, processVars, rowVars
<1>1. ASSUME NEW t \in timers, Prepare(t) PROVE OneLiveDispatch'
  <2>1. PICK i \in Dispatch, g \in Grant \cup {NoGrant} :
          /\ dispatch[i] = "none"
          /\ dispatch' = [dispatch EXCEPT ![i] = "queued"]
          /\ approval' = [approval EXCEPT ![i] = IF delegated THEN "approved"
                                                 ELSE "pending"]
          /\ planRevision' = [planRevision EXCEPT ![i] = revision]
          /\ stepIndex' = [stepIndex EXCEPT ![i] = step]
    BY <1>1 DEF Prepare
  <2>2. status' = "approval_pending" /\ UNCHANGED <<revision, step, claimed>>
    BY <1>1 DEF Prepare
  <2>3. \A k \in Dispatch : ~Live(k)
    <3>1. status \in {"scheduled", "waiting"}
      BY <1>1 DEF Prepare, Timely, Waiting
    <3>2. \A k \in Dispatch : dispatch[k] \notin Unknown
      BY <3>1 DEF TypeOK, ClaimBindsPlan, Halted
    <3> QED
      BY <3>1, <3>2 DEF Live, OneLiveDispatch
  <2>4. \A k \in Dispatch : Live(k)' => k = i
    BY <2>1, <2>3 DEF Live, Usable
  <2>5. Current(i)' /\ ~claimed[i]
    BY <2>1, <2>2 DEF TypeOK, Current, CallsAreClaims
  <2> QED
    BY <2>2, <2>4, <2>5 DEF OneLiveDispatch, Live
<1>2. ASSUME NEW t \in timers, PrepareStops(t) PROVE OneLiveDispatch'
  BY <1>2 DEF OneLiveDispatch, Usable, Live, Unknown, Waiting, PrepareStops,
     Stop, StopFollowUp, Release, Timely
<1>3. ASSUME NEW i \in Dispatch, Claim(i) PROVE OneLiveDispatch'
  BY <1>3 DEF TypeOK, OneLiveDispatch, Usable, Live, Consumable, Claim
<1>4. ASSUME NEW i \in Dispatch, ClaimStops(i) PROVE OneLiveDispatch'
  BY <1>4 DEF OneLiveDispatch, Usable, Live, Unused, Ended, ClaimStops, Stop,
     StopFollowUp, Plan, Release
<1>5. ASSUME NEW i \in Dispatch, ProviderAccepts(i) PROVE OneLiveDispatch'
  BY <1>5 DEF OneLiveDispatch, Usable, Live, Unknown, ProviderAccepts
<1>6. ASSUME NEW i \in Dispatch, RecordSent(i) PROVE OneLiveDispatch'
  BY <1>6 DEF OneLiveDispatch, CallsAreClaims, Usable, Live, Unknown,
     RecordSent
<1>7. ASSUME NEW i \in Dispatch, ErrorReads(i) PROVE OneLiveDispatch'
  BY <1>7 DEF OneLiveDispatch, Usable, Live, Current, ErrorReads
<1>8. ASSUME NEW i \in Dispatch, ErrorWrites(i) PROVE OneLiveDispatch'
  BY <1>8 DEF TypeOK, OneLiveDispatch, CallsAreClaims, Usable, Live, Unused,
     Unknown, ErrorWrites, StopFollowUp, Release
<1>9. ASSUME NEW i \in Dispatch, Crash(i) PROVE OneLiveDispatch'
  BY <1>9 DEF OneLiveDispatch, Usable, Live, Current, Crash
<1>10. ASSUME NEW i \in Dispatch, Approve(i) PROVE OneLiveDispatch'
  BY <1>10 DEF OneLiveDispatch, Usable, Live, Current, Approve
<1>11. ASSUME NEW i \in Dispatch, Reject(i) PROVE OneLiveDispatch'
  BY <1>11 DEF TypeOK, OneLiveDispatch, Usable, Live, Unused, Ended, Reject,
     StopFollowUp, Plan, Release
<1>12. ASSUME NEW i \in Dispatch, Reconcile(i) PROVE OneLiveDispatch'
  BY <1>12 DEF TypeOK, OneLiveDispatch, Usable, Live, Unused, Unknown,
     Reconcile, StopFollowUp, Release
<1>13. ASSUME NEW g \in Grant, NEW n \in 1..Steps, GrantSending(g, n)
       PROVE  OneLiveDispatch'
  BY <1>13 DEF TypeOK, OneLiveDispatch, Usable, Live, Current, Unused,
     GrantSending
<1>14. CASE TaskFails
  BY <1>14 DEF OneLiveDispatch, Usable, Live, Unused, TaskFails, Stop,
     StopFollowUp, Plan, Release
<1>15. CASE StopSequence
  BY <1>15 DEF OneLiveDispatch, Usable, Live, Unused, StopSequence, Stop,
     StopFollowUp, Plan, Release
<1>16. CASE ReceiveReply
  BY <1>16 DEF OneLiveDispatch, Usable, Live, Current, Unused, ReceiveReply,
     Stop, StopFollowUp, Release
<1>17. CASE Resume
  BY <1>17 DEF OneLiveDispatch, Usable, Live, Resume
<1>18. CASE Snooze
  BY <1>18 DEF OneLiveDispatch, Usable, Live, Unused, Snooze, Release
<1>19. CASE Replan
  BY <1>19 DEF OneLiveDispatch, Usable, Live, Unused, Ended, Replan, Release
<1>20. CASE UNCHANGED vars
  BY <1>20 DEF OneLiveDispatch, Usable, Live, Current, vars
<1> QED
  BY <1>1, <1>2, <1>3, <1>4, <1>5, <1>6, <1>7, <1>8, <1>9, <1>10, <1>11,
     <1>12, <1>13, <1>14, <1>15, <1>16, <1>17, <1>18, <1>19, <1>20
  DEF Next, DispatchStep

\* Every step keeps claims bound to the plan.
LEMMA BindsNext ==
  ASSUME TypeOK, OneLiveDispatch, ClaimBindsPlan, CallsAreClaims,
         EpochsKnown, [Next]_vars
  PROVE  ClaimBindsPlan'
<1> USE DEF planVars, dispatchVars, grantVars, processVars, rowVars
<1>1. ASSUME NEW t \in timers, Prepare(t) PROVE ClaimBindsPlan'
  BY <1>1 DEF ClaimBindsPlan, Unknown, Halted, Waiting, Prepare, Timely
<1>2. ASSUME NEW t \in timers, PrepareStops(t) PROVE ClaimBindsPlan'
  BY <1>2 DEF TypeOK, ClaimBindsPlan, Unknown, Halted, Waiting, PrepareStops,
     Stop, StopFollowUp, Release, Timely
<1>3. ASSUME NEW i \in Dispatch, Claim(i) PROVE ClaimBindsPlan'
  BY <1>3 DEF TypeOK, ClaimBindsPlan, Usable, Current, Consumable, EpochsKnown,
     Claim
<1>4. ASSUME NEW i \in Dispatch, ClaimStops(i) PROVE ClaimBindsPlan'
  BY <1>4 DEF OneLiveDispatch, ClaimBindsPlan, Usable, Live, Consumable,
     Unknown, ClaimStops, Stop, StopFollowUp, Release
<1>5. ASSUME NEW i \in Dispatch, ProviderAccepts(i) PROVE ClaimBindsPlan'
  BY <1>5 DEF ClaimBindsPlan, ProviderAccepts
<1>6. ASSUME NEW i \in Dispatch, RecordSent(i) PROVE ClaimBindsPlan'
  BY <1>6 DEF TypeOK, OneLiveDispatch, ClaimBindsPlan, CallsAreClaims, Live,
     Unknown, RecordSent
<1>7. ASSUME NEW i \in Dispatch, ErrorReads(i) PROVE ClaimBindsPlan'
  BY <1>7 DEF ClaimBindsPlan, ErrorReads
<1>8. ASSUME NEW i \in Dispatch, ErrorWrites(i) PROVE ClaimBindsPlan'
  BY <1>8 DEF TypeOK, OneLiveDispatch, ClaimBindsPlan, CallsAreClaims, Live,
     Unknown, Halted, ErrorWrites, StopFollowUp, Release
<1>9. ASSUME NEW i \in Dispatch, Crash(i) PROVE ClaimBindsPlan'
  BY <1>9 DEF ClaimBindsPlan, Crash
<1>10. ASSUME NEW i \in Dispatch, Approve(i) PROVE ClaimBindsPlan'
  BY <1>10 DEF ClaimBindsPlan, Approve
<1>11. ASSUME NEW i \in Dispatch, Reject(i) PROVE ClaimBindsPlan'
  BY <1>11 DEF TypeOK, ClaimBindsPlan, Unknown, Halted, Reject, StopFollowUp,
     Plan, Release
<1>12. ASSUME NEW i \in Dispatch, Reconcile(i) PROVE ClaimBindsPlan'
  BY <1>12 DEF TypeOK, OneLiveDispatch, ClaimBindsPlan, Live, Unknown,
     Reconcile, StopFollowUp, Release
<1>13. ASSUME NEW g \in Grant, NEW n \in 1..Steps, GrantSending(g, n)
       PROVE  ClaimBindsPlan'
  BY <1>13 DEF ClaimBindsPlan, GrantSending
<1>14. CASE TaskFails
  BY <1>14 DEF TypeOK, ClaimBindsPlan, Unknown, Halted, TaskFails, Stop,
     StopFollowUp, Plan, Release
<1>15. CASE StopSequence
  BY <1>15 DEF TypeOK, ClaimBindsPlan, Unknown, Halted, StopSequence, Stop,
     StopFollowUp, Plan, Release
<1>16. CASE ReceiveReply
  BY <1>16 DEF TypeOK, ClaimBindsPlan, Unknown, Halted, ReceiveReply, Stop,
     StopFollowUp, Plan, Release
<1>17. CASE Resume
  BY <1>17 DEF ClaimBindsPlan, Resume, NoneUnresolved
<1>18. CASE Snooze
  BY <1>18 DEF ClaimBindsPlan, Unknown, Snooze, Release, NoneUnresolved
<1>19. CASE Replan
  BY <1>19 DEF ClaimBindsPlan, Unknown, Replan, Release, NoneUnresolved
<1>20. CASE UNCHANGED vars
  BY <1>20 DEF ClaimBindsPlan, vars
<1> QED
  BY <1>1, <1>2, <1>3, <1>4, <1>5, <1>6, <1>7, <1>8, <1>9, <1>10, <1>11,
     <1>12, <1>13, <1>14, <1>15, <1>16, <1>17, <1>18, <1>19, <1>20
  DEF Next, DispatchStep

\* Every step keeps calls on claims.
LEMMA CallsNext ==
  ASSUME TypeOK, OneLiveDispatch, ClaimBindsPlan, CallsAreClaims, [Next]_vars
  PROVE  CallsAreClaims'
<1> USE DEF planVars, dispatchVars, grantVars, processVars, rowVars
<1>1. ASSUME NEW t \in timers, Prepare(t) PROVE CallsAreClaims'
  BY <1>1 DEF CallsAreClaims, Prepare
<1>2. ASSUME NEW t \in timers, PrepareStops(t) PROVE CallsAreClaims'
  BY <1>2 DEF CallsAreClaims, Unused, PrepareStops, Stop, StopFollowUp, Release
<1>3. ASSUME NEW i \in Dispatch, Claim(i) PROVE CallsAreClaims'
  BY <1>3 DEF TypeOK, CallsAreClaims, Claim
<1>4. ASSUME NEW i \in Dispatch, ClaimStops(i) PROVE CallsAreClaims'
  BY <1>4 DEF CallsAreClaims, Unused, ClaimStops, Stop, StopFollowUp, Release
<1>5. ASSUME NEW i \in Dispatch, ProviderAccepts(i) PROVE CallsAreClaims'
  BY <1>5 DEF CallsAreClaims, ProviderAccepts
<1>6. ASSUME NEW i \in Dispatch, RecordSent(i) PROVE CallsAreClaims'
  BY <1>6 DEF TypeOK, CallsAreClaims, RecordSent
<1>7. ASSUME NEW i \in Dispatch, ErrorReads(i) PROVE CallsAreClaims'
  BY <1>7 DEF ClaimBindsPlan, CallsAreClaims, Unknown, ErrorReads, Plan
<1>8. ASSUME NEW i \in Dispatch, ErrorWrites(i) PROVE CallsAreClaims'
  BY <1>8 DEF TypeOK, CallsAreClaims, Unused, ErrorWrites, StopFollowUp,
     Release
<1>9. ASSUME NEW i \in Dispatch, Crash(i) PROVE CallsAreClaims'
  BY <1>9 DEF CallsAreClaims, Crash
<1>10. ASSUME NEW i \in Dispatch, Approve(i) PROVE CallsAreClaims'
  BY <1>10 DEF CallsAreClaims, Approve
<1>11. ASSUME NEW i \in Dispatch, Reject(i) PROVE CallsAreClaims'
  BY <1>11 DEF CallsAreClaims, Unused, Reject, StopFollowUp, Release
<1>12. ASSUME NEW i \in Dispatch, Reconcile(i) PROVE CallsAreClaims'
  BY <1>12 DEF TypeOK, CallsAreClaims, Unused, Reconcile, StopFollowUp, Release
<1>13. ASSUME NEW g \in Grant, NEW n \in 1..Steps, GrantSending(g, n)
       PROVE  CallsAreClaims'
  BY <1>13 DEF CallsAreClaims, GrantSending
<1>14. CASE TaskFails
  BY <1>14 DEF CallsAreClaims, Unused, TaskFails, Stop, StopFollowUp, Release
<1>15. CASE StopSequence
  BY <1>15 DEF CallsAreClaims, Unused, StopSequence, Stop, StopFollowUp,
     Release
<1>16. CASE ReceiveReply
  BY <1>16 DEF CallsAreClaims, Unused, ReceiveReply, Stop, StopFollowUp,
     Release
<1>17. CASE Resume
  BY <1>17 DEF CallsAreClaims, Resume
<1>18. CASE Snooze
  BY <1>18 DEF CallsAreClaims, Unknown, Snooze, Release, NoneUnresolved
<1>19. CASE Replan
  BY <1>19 DEF CallsAreClaims, Unknown, Replan, Release, NoneUnresolved
<1>20. CASE UNCHANGED vars
  BY <1>20 DEF CallsAreClaims, vars
<1> QED
  BY <1>1, <1>2, <1>3, <1>4, <1>5, <1>6, <1>7, <1>8, <1>9, <1>10, <1>11,
     <1>12, <1>13, <1>14, <1>15, <1>16, <1>17, <1>18, <1>19, <1>20
  DEF Next, DispatchStep

\* Every step keeps accepted messages behind the plan.
LEMMA PastNext ==
  ASSUME TypeOK, OneLiveDispatch, ClaimBindsPlan, CallsAreClaims,
         AcceptedIsPast, EpochsKnown, [Next]_vars
  PROVE  AcceptedIsPast'
<1> USE DEF planVars, dispatchVars, grantVars, processVars, rowVars
<1>1. ASSUME NEW t \in timers, Prepare(t) PROVE AcceptedIsPast'
  BY <1>1 DEF Unknown, AcceptedIsPast, Past, Prepare
<1>2. ASSUME NEW t \in timers, PrepareStops(t) PROVE AcceptedIsPast'
  BY <1>2 DEF TypeOK, Unused, Unknown, AcceptedIsPast, Past, PrepareStops,
     Stop, StopFollowUp, Release
<1>3. ASSUME NEW i \in Dispatch, Claim(i) PROVE AcceptedIsPast'
  BY <1>3 DEF Unknown, AcceptedIsPast, Past, Claim
<1>4. ASSUME NEW i \in Dispatch, ClaimStops(i) PROVE AcceptedIsPast'
  BY <1>4 DEF TypeOK, Unused, Unknown, AcceptedIsPast, Past, ClaimStops, Stop,
     StopFollowUp, Release
<1>5. ASSUME NEW i \in Dispatch, ProviderAccepts(i) PROVE AcceptedIsPast'
  BY <1>5 DEF AcceptedIsPast, Past, ProviderAccepts
<1>6. ASSUME NEW i \in Dispatch, RecordSent(i) PROVE AcceptedIsPast'
  BY <1>6 DEF TypeOK, ClaimBindsPlan, Current, Halted, AcceptedIsPast, Past,
     RecordSent, LateAcceptance, OnTime
<1>7. ASSUME NEW i \in Dispatch, ErrorReads(i) PROVE AcceptedIsPast'
  BY <1>7 DEF AcceptedIsPast, Past, ErrorReads
<1>8. ASSUME NEW i \in Dispatch, ErrorWrites(i) PROVE AcceptedIsPast'
  BY <1>8 DEF TypeOK, Unused, Unknown, AcceptedIsPast, Past, ErrorWrites,
     StopFollowUp, Release
<1>9. ASSUME NEW i \in Dispatch, Crash(i) PROVE AcceptedIsPast'
  BY <1>9 DEF AcceptedIsPast, Past, Crash
<1>10. ASSUME NEW i \in Dispatch, Approve(i) PROVE AcceptedIsPast'
  BY <1>10 DEF AcceptedIsPast, Past, Approve
<1>11. ASSUME NEW i \in Dispatch, Reject(i) PROVE AcceptedIsPast'
  BY <1>11 DEF TypeOK, Unused, Unknown, AcceptedIsPast, Past, Reject,
     StopFollowUp, Release
<1>12. ASSUME NEW i \in Dispatch, Reconcile(i) PROVE AcceptedIsPast'
  BY <1>12 DEF TypeOK, ClaimBindsPlan, Unused, Unknown, AcceptedIsPast, Past,
     Reconcile, StopFollowUp, Release
<1>13. ASSUME NEW g \in Grant, NEW n \in 1..Steps, GrantSending(g, n)
       PROVE  AcceptedIsPast'
  BY <1>13 DEF AcceptedIsPast, Past, GrantSending
<1>14. CASE TaskFails
  BY <1>14 DEF TypeOK, Unused, Unknown, AcceptedIsPast, Past, TaskFails, Stop,
     StopFollowUp, Release
<1>15. CASE StopSequence
  BY <1>15 DEF TypeOK, Unused, Unknown, AcceptedIsPast, Past, StopSequence,
     Stop, StopFollowUp, Release
<1>16. CASE ReceiveReply
  BY <1>16 DEF TypeOK, Unused, Unknown, AcceptedIsPast, Past, ReceiveReply,
     Stop, StopFollowUp, Release
<1>17. CASE Resume
  BY <1>17 DEF AcceptedIsPast, Past, Resume, Restart
<1>18. CASE Snooze
  BY <1>18 DEF TypeOK, Unused, AcceptedIsPast, Past, Snooze, Restart, Release,
     NoneUnresolved
<1>19. CASE Replan
  BY <1>19 DEF TypeOK, Unused, AcceptedIsPast, EpochsKnown, Past, Replan,
     Release, NoneUnresolved
<1>20. CASE UNCHANGED vars
  BY <1>20 DEF AcceptedIsPast, Past, vars
<1> QED
  BY <1>1, <1>2, <1>3, <1>4, <1>5, <1>6, <1>7, <1>8, <1>9, <1>10, <1>11,
     <1>12, <1>13, <1>14, <1>15, <1>16, <1>17, <1>18, <1>19, <1>20
  DEF Next, DispatchStep

\* Every step keeps epochs known.
LEMMA EpochsNext ==
  ASSUME TypeOK, OneLiveDispatch, ClaimBindsPlan, CallsAreClaims,
         EpochsKnown, [Next]_vars
  PROVE  EpochsKnown'
<1> USE DEF planVars, dispatchVars, grantVars, processVars, rowVars
<1>1. ASSUME NEW t \in timers, Prepare(t) PROVE EpochsKnown'
  BY <1>1 DEF TypeOK, Usable, EpochsKnown, Prepare
<1>2. ASSUME NEW t \in timers, PrepareStops(t) PROVE EpochsKnown'
  BY <1>2 DEF Usable, EpochsKnown, PrepareStops, Stop, StopFollowUp, Release
<1>3. ASSUME NEW i \in Dispatch, Claim(i) PROVE EpochsKnown'
  BY <1>3 DEF Usable, EpochsKnown, Claim
<1>4. ASSUME NEW i \in Dispatch, ClaimStops(i) PROVE EpochsKnown'
  BY <1>4 DEF Usable, EpochsKnown, ClaimStops, Stop, StopFollowUp, Release
<1>5. ASSUME NEW i \in Dispatch, ProviderAccepts(i) PROVE EpochsKnown'
  BY <1>5 DEF Usable, EpochsKnown, ProviderAccepts
<1>6. ASSUME NEW i \in Dispatch, RecordSent(i) PROVE EpochsKnown'
  BY <1>6 DEF Usable, EpochsKnown, RecordSent
<1>7. ASSUME NEW i \in Dispatch, ErrorReads(i) PROVE EpochsKnown'
  BY <1>7 DEF Usable, EpochsKnown, ErrorReads
<1>8. ASSUME NEW i \in Dispatch, ErrorWrites(i) PROVE EpochsKnown'
  BY <1>8 DEF TypeOK, Usable, EpochsKnown, ErrorWrites, StopFollowUp, Release
<1>9. ASSUME NEW i \in Dispatch, Crash(i) PROVE EpochsKnown'
  BY <1>9 DEF Usable, EpochsKnown, Crash
<1>10. ASSUME NEW i \in Dispatch, Approve(i) PROVE EpochsKnown'
  BY <1>10 DEF Usable, EpochsKnown, Approve
<1>11. ASSUME NEW i \in Dispatch, Reject(i) PROVE EpochsKnown'
  BY <1>11 DEF TypeOK, Usable, EpochsKnown, Reject, StopFollowUp, Release
<1>12. ASSUME NEW i \in Dispatch, Reconcile(i) PROVE EpochsKnown'
  BY <1>12 DEF TypeOK, Usable, EpochsKnown, Reconcile, StopFollowUp, Release
<1>13. ASSUME NEW g \in Grant, NEW n \in 1..Steps, GrantSending(g, n)
       PROVE  EpochsKnown'
  BY <1>13 DEF TypeOK, Usable, Unused, EpochsKnown, GrantSending
<1>14. CASE TaskFails
  BY <1>14 DEF Usable, EpochsKnown, TaskFails, Stop, StopFollowUp, Release
<1>15. CASE StopSequence
  BY <1>15 DEF Usable, EpochsKnown, StopSequence, Stop, StopFollowUp, Release
<1>16. CASE ReceiveReply
  BY <1>16 DEF Usable, EpochsKnown, ReceiveReply, Stop, StopFollowUp, Release
<1>17. CASE Resume
  BY <1>17 DEF Usable, EpochsKnown, Resume
<1>18. CASE Snooze
  BY <1>18 DEF Usable, EpochsKnown, Snooze, Release
<1>19. CASE Replan
  BY <1>19 DEF TypeOK, OneLiveDispatch, Usable, Unused, Ended, EpochsKnown,
     Replan, Release
<1>20. CASE UNCHANGED vars
  BY <1>20 DEF Usable, EpochsKnown, vars
<1> QED
  BY <1>1, <1>2, <1>3, <1>4, <1>5, <1>6, <1>7, <1>8, <1>9, <1>10, <1>11,
     <1>12, <1>13, <1>14, <1>15, <1>16, <1>17, <1>18, <1>19, <1>20
  DEF Next, DispatchStep

-----------------------------------------------------------------------------
\* The invariant the safety theorems rest on.
IInv == /\ TypeOK /\ OneLiveDispatch /\ ClaimBindsPlan /\ CallsAreClaims
        /\ AcceptedIsPast /\ EpochsKnown

\* The invariant holds initially.
LEMMA InitIInv == Init => IInv
<1> SUFFICES ASSUME Init PROVE IInv
  OBVIOUS
<1>1. \A i \in Dispatch : dispatch[i] = "none" /\ ~claimed[i] /\ pc[i] = "none"
                          /\ epochOf[i] = epoch
  BY DEF Init
<1>2. accepted = {} /\ epoch = 0
  BY DEF Init
<1>3. OneLiveDispatch /\ ClaimBindsPlan /\ CallsAreClaims
  BY <1>1 DEF OneLiveDispatch, ClaimBindsPlan, CallsAreClaims, Live, Usable,
              Unknown
<1>4. AcceptedIsPast /\ EpochsKnown
  BY <1>1, <1>2 DEF AcceptedIsPast, EpochsKnown, Past
<1> QED
  BY <1>3, <1>4, TypeInit DEF IInv

\* The invariant holds in every reachable state.
LEMMA Invariance == Spec => []IInv
<1>1. IInv /\ [Next]_vars => IInv'
  BY TypeNext, LiveNext, BindsNext, CallsNext, PastNext, EpochsNext DEF IInv
<1> QED
  BY InitIInv, <1>1, PTL DEF Spec

\* At most one dispatch of the plan is waiting, authorised or unresolved.
THEOREM NeverTwoDispatches == Spec => []OneLiveDispatch
<1>1. IInv => OneLiveDispatch
  BY DEF IInv
<1> QED
  BY Invariance, <1>1, PTL

\* Only a sequence the owner or the tasks keep going has an active grant.
GrantRuns ==
  \A g \in Grant : active[g] => status \in Waiting \cup {"approval_pending"}

\* Every step keeps the active grant current.
LEMMA GrantNext ==
  ASSUME TypeOK, ActiveGrantIsCurrent, GrantRuns, CallsAreClaims, [Next]_vars
  PROVE  (ActiveGrantIsCurrent /\ GrantRuns)'
<1> USE DEF planVars, dispatchVars, grantVars, processVars, rowVars
<1>1. ASSUME NEW t \in timers, Prepare(t)
      PROVE  (ActiveGrantIsCurrent /\ GrantRuns)'
  BY <1>1 DEF ActiveGrantIsCurrent, GrantRuns, Prepare
<1>2. ASSUME NEW t \in timers, PrepareStops(t)
      PROVE  (ActiveGrantIsCurrent /\ GrantRuns)'
  BY <1>2 DEF ActiveGrantIsCurrent, GrantRuns, PrepareStops, Stop,
     StopFollowUp, Release, RevokeGrants
<1>3. ASSUME NEW i \in Dispatch, Claim(i)
      PROVE  (ActiveGrantIsCurrent /\ GrantRuns)'
  BY <1>3 DEF ActiveGrantIsCurrent, GrantRuns, Claim
<1>4. ASSUME NEW i \in Dispatch, ClaimStops(i)
      PROVE  (ActiveGrantIsCurrent /\ GrantRuns)'
  BY <1>4 DEF ActiveGrantIsCurrent, GrantRuns, ClaimStops, Stop, StopFollowUp,
     Release, RevokeGrants
<1>5. ASSUME NEW i \in Dispatch, ProviderAccepts(i)
      PROVE  (ActiveGrantIsCurrent /\ GrantRuns)'
  BY <1>5 DEF ActiveGrantIsCurrent, GrantRuns, ProviderAccepts
<1>6. ASSUME NEW i \in Dispatch, RecordSent(i)
      PROVE  (ActiveGrantIsCurrent /\ GrantRuns)'
  BY <1>6 DEF ActiveGrantIsCurrent, GrantRuns, Waiting, RecordSent
<1>7. ASSUME NEW i \in Dispatch, ErrorReads(i)
      PROVE  (ActiveGrantIsCurrent /\ GrantRuns)'
  BY <1>7 DEF ActiveGrantIsCurrent, GrantRuns, ErrorReads
<1>8. ASSUME NEW i \in Dispatch, ErrorWrites(i)
      PROVE  (ActiveGrantIsCurrent /\ GrantRuns)'
  BY <1>8 DEF ActiveGrantIsCurrent, GrantRuns, ErrorWrites, StopFollowUp,
     Release, RevokeGrants
<1>9. ASSUME NEW i \in Dispatch, Crash(i)
      PROVE  (ActiveGrantIsCurrent /\ GrantRuns)'
  BY <1>9 DEF ActiveGrantIsCurrent, GrantRuns, Crash
<1>10. ASSUME NEW i \in Dispatch, Approve(i)
       PROVE  (ActiveGrantIsCurrent /\ GrantRuns)'
  BY <1>10 DEF ActiveGrantIsCurrent, GrantRuns, Approve
<1>11. ASSUME NEW i \in Dispatch, Reject(i)
       PROVE  (ActiveGrantIsCurrent /\ GrantRuns)'
  BY <1>11 DEF ActiveGrantIsCurrent, GrantRuns, Reject, StopFollowUp, Release,
     RevokeGrants
<1>12. ASSUME NEW i \in Dispatch, Reconcile(i)
       PROVE  (ActiveGrantIsCurrent /\ GrantRuns)'
  BY <1>12 DEF ActiveGrantIsCurrent, GrantRuns, Reconcile, StopFollowUp,
     Release, RevokeGrants
<1>13. ASSUME NEW g \in Grant, NEW n \in 1..Steps, GrantSending(g, n)
       PROVE  (ActiveGrantIsCurrent /\ GrantRuns)'
  BY <1>13 DEF TypeOK, ActiveGrantIsCurrent, GrantRuns, GrantSending
<1>14. CASE TaskFails
  BY <1>14 DEF ActiveGrantIsCurrent, GrantRuns, TaskFails, Stop, StopFollowUp,
     Release, RevokeGrants
<1>15. CASE StopSequence
  BY <1>15 DEF ActiveGrantIsCurrent, GrantRuns, StopSequence, Stop,
     StopFollowUp, Release, RevokeGrants
<1>16. CASE ReceiveReply
  BY <1>16 DEF ActiveGrantIsCurrent, GrantRuns, ReceiveReply, Stop,
     StopFollowUp, Release, RevokeGrants
<1>17. CASE Resume
  BY <1>17 DEF ActiveGrantIsCurrent, GrantRuns, Waiting, Resume
<1>18. CASE Snooze
  BY <1>18 DEF ActiveGrantIsCurrent, GrantRuns, Snooze, Release, RevokeGrants
<1>19. CASE Replan
  BY <1>19 DEF ActiveGrantIsCurrent, GrantRuns, Ended, Waiting, Replan,
     Release, RevokeGrants
<1>20. CASE UNCHANGED vars
  BY <1>20 DEF ActiveGrantIsCurrent, GrantRuns, vars
<1> QED
  BY <1>1, <1>2, <1>3, <1>4, <1>5, <1>6, <1>7, <1>8, <1>9, <1>10, <1>11,
     <1>12, <1>13, <1>14, <1>15, <1>16, <1>17, <1>18, <1>19, <1>20
  DEF Next, DispatchStep

\* Whatever stops, resumes, snoozes or replans a sequence revokes its grant.
THEOREM GrantsStayCurrent == Spec => []ActiveGrantIsCurrent
<1>1. Init => ActiveGrantIsCurrent /\ GrantRuns
  BY DEF Init, ActiveGrantIsCurrent, GrantRuns
<1>2. /\ ActiveGrantIsCurrent /\ GrantRuns /\ IInv /\ [Next]_vars
      => (ActiveGrantIsCurrent /\ GrantRuns)'
  BY GrantNext DEF IInv
<1> QED
  BY Invariance, <1>1, <1>2, PTL DEF Spec

\* No step lets an unread reply pass.
LEMMA ReplyNext ==
  ASSUME TypeOK, ReplyHalts, [Next]_vars
  PROVE  ReplyHalts'
<1> USE DEF planVars, dispatchVars, grantVars, processVars, rowVars
<1>1. ASSUME NEW t \in timers, Prepare(t) PROVE ReplyHalts'
  BY <1>1 DEF ReplyHalts, Prepare, Timely
<1>2. ASSUME NEW t \in timers, PrepareStops(t) PROVE ReplyHalts'
  BY <1>2 DEF ReplyHalts, PrepareStops, Timely
<1>3. ASSUME NEW i \in Dispatch, Claim(i) PROVE ReplyHalts'
  BY <1>3 DEF ReplyHalts, Claim
<1>4. ASSUME NEW i \in Dispatch, ClaimStops(i) PROVE ReplyHalts'
  BY <1>4 DEF ReplyHalts, Waiting, ClaimStops, Stop, StopFollowUp, Refusal
<1>5. ASSUME NEW i \in Dispatch, ProviderAccepts(i) PROVE ReplyHalts'
  BY <1>5 DEF ReplyHalts, ProviderAccepts
<1>6. ASSUME NEW i \in Dispatch, RecordSent(i) PROVE ReplyHalts'
  BY <1>6 DEF ReplyHalts, RecordSent, OnTime
<1>7. ASSUME NEW i \in Dispatch, ErrorReads(i) PROVE ReplyHalts'
  BY <1>7 DEF ReplyHalts, ErrorReads
<1>8. ASSUME NEW i \in Dispatch, ErrorWrites(i) PROVE ReplyHalts'
  BY <1>8 DEF ReplyHalts, Waiting, ErrorWrites, StopFollowUp
<1>9. ASSUME NEW i \in Dispatch, Crash(i) PROVE ReplyHalts'
  BY <1>9 DEF ReplyHalts, Crash
<1>10. ASSUME NEW i \in Dispatch, Approve(i) PROVE ReplyHalts'
  BY <1>10 DEF ReplyHalts, Approve
<1>11. ASSUME NEW i \in Dispatch, Reject(i) PROVE ReplyHalts'
  BY <1>11 DEF ReplyHalts, Waiting, Reject, StopFollowUp
<1>12. ASSUME NEW i \in Dispatch, Reconcile(i) PROVE ReplyHalts'
  BY <1>12 DEF ReplyHalts, Waiting, Reconcile, StopFollowUp
<1>13. ASSUME NEW g \in Grant, NEW n \in 1..Steps, GrantSending(g, n)
       PROVE  ReplyHalts'
  BY <1>13 DEF ReplyHalts, GrantSending
<1>14. CASE TaskFails
  BY <1>14 DEF ReplyHalts, Waiting, TaskFails, Stop, StopFollowUp
<1>15. CASE StopSequence
  BY <1>15 DEF ReplyHalts, Waiting, StopSequence, Stop, StopFollowUp
<1>16. CASE ReceiveReply
  BY <1>16 DEF ReplyHalts, Waiting, Ended, ReceiveReply, Stop, StopFollowUp,
     Plan, StoppedByReply
<1>17. CASE Resume
  BY <1>17 DEF ReplyHalts, Resume, Restart
<1>18. CASE Snooze
  BY <1>18 DEF ReplyHalts, Snooze, Restart
<1>19. CASE Replan
  BY <1>19 DEF ReplyHalts, Replan, Restart
<1>20. CASE UNCHANGED vars
  BY <1>20 DEF ReplyHalts, vars
<1> QED
  BY <1>1, <1>2, <1>3, <1>4, <1>5, <1>6, <1>7, <1>8, <1>9, <1>10, <1>11,
     <1>12, <1>13, <1>14, <1>15, <1>16, <1>17, <1>18, <1>19, <1>20
  DEF Next, DispatchStep

\* A reply the owner has not reviewed keeps the sequence halted.
THEOREM RepliesHalt == Spec => []ReplyHalts
<1>1. Init => ReplyHalts
  BY DEF Init, ReplyHalts
<1>2. TypeOK /\ ReplyHalts /\ [Next]_vars => ReplyHalts'
  BY ReplyNext
<1> QED
  BY TypeCorrect, <1>1, <1>2, PTL DEF Spec

\* No step strands a waiting sequence.
LEMMA TimerNext ==
  ASSUME TypeOK, NoLostTimer, [Next]_vars
  PROVE  NoLostTimer'
<1> USE DEF planVars, dispatchVars, grantVars, processVars, rowVars
<1>1. ASSUME NEW t \in timers, Prepare(t) PROVE NoLostTimer'
  BY <1>1 DEF NoLostTimer, Prepare, Timely
<1>2. ASSUME NEW t \in timers, PrepareStops(t) PROVE NoLostTimer'
  BY <1>2 DEF NoLostTimer, Waiting, PrepareStops, Stop, StopFollowUp, Refusal
<1>3. ASSUME NEW i \in Dispatch, Claim(i) PROVE NoLostTimer'
  BY <1>3 DEF NoLostTimer, Claim
<1>4. ASSUME NEW i \in Dispatch, ClaimStops(i) PROVE NoLostTimer'
  BY <1>4 DEF NoLostTimer, Waiting, ClaimStops, Stop, StopFollowUp, Refusal
<1>5. ASSUME NEW i \in Dispatch, ProviderAccepts(i) PROVE NoLostTimer'
  BY <1>5 DEF NoLostTimer, ProviderAccepts
<1>6. ASSUME NEW i \in Dispatch, RecordSent(i) PROVE NoLostTimer'
  BY <1>6 DEF NoLostTimer, Waiting, RecordSent, WithTask, LateAcceptance
<1>7. ASSUME NEW i \in Dispatch, ErrorReads(i) PROVE NoLostTimer'
  BY <1>7 DEF NoLostTimer, ErrorReads
<1>8. ASSUME NEW i \in Dispatch, ErrorWrites(i) PROVE NoLostTimer'
  BY <1>8 DEF NoLostTimer, Waiting, ErrorWrites, StopFollowUp
<1>9. ASSUME NEW i \in Dispatch, Crash(i) PROVE NoLostTimer'
  BY <1>9 DEF NoLostTimer, Crash
<1>10. ASSUME NEW i \in Dispatch, Approve(i) PROVE NoLostTimer'
  BY <1>10 DEF NoLostTimer, Approve
<1>11. ASSUME NEW i \in Dispatch, Reject(i) PROVE NoLostTimer'
  BY <1>11 DEF NoLostTimer, Waiting, Reject, StopFollowUp
<1>12. ASSUME NEW i \in Dispatch, Reconcile(i) PROVE NoLostTimer'
  BY <1>12 DEF NoLostTimer, Waiting, Ended, Reconcile, StopFollowUp, Plan
<1>13. ASSUME NEW g \in Grant, NEW n \in 1..Steps, GrantSending(g, n)
       PROVE  NoLostTimer'
  BY <1>13 DEF NoLostTimer, GrantSending
<1>14. CASE TaskFails
  BY <1>14 DEF NoLostTimer, Waiting, TaskFails, Stop, StopFollowUp
<1>15. CASE StopSequence
  BY <1>15 DEF NoLostTimer, Waiting, StopSequence, Stop, StopFollowUp
<1>16. CASE ReceiveReply
  BY <1>16 DEF NoLostTimer, Waiting, ReceiveReply, Stop, StopFollowUp
<1>17. CASE Resume
  BY <1>17 DEF NoLostTimer, Resume, Restart, WithTask
<1>18. CASE Snooze
  BY <1>18 DEF NoLostTimer, Snooze, Restart, WithTask
<1>19. CASE Replan
  BY <1>19 DEF NoLostTimer, Replan, Restart, WithTask
<1>20. CASE UNCHANGED vars
  BY <1>20 DEF NoLostTimer, vars
<1> QED
  BY <1>1, <1>2, <1>3, <1>4, <1>5, <1>6, <1>7, <1>8, <1>9, <1>10, <1>11,
     <1>12, <1>13, <1>14, <1>15, <1>16, <1>17, <1>18, <1>19, <1>20
  DEF Next, DispatchStep

\* A sequence that waits always has the task that will prepare its next
\* message.
THEOREM TimersAreKept == Spec => []NoLostTimer
<1>1. Init => NoLostTimer
  BY DEF Init, NoLostTimer
<1>2. TypeOK /\ NoLostTimer /\ [Next]_vars => NoLostTimer'
  BY TimerNext
<1> QED
  BY TypeCorrect, <1>1, <1>2, PTL DEF Spec

-----------------------------------------------------------------------------
(* The owner's bound on a grant.                                           *)

\* A dispatch is only tied to a grant the owner has given.
GrantsIssued ==
  \A i \in Dispatch : grantOf[i] # NoGrant => grantRevision[grantOf[i]] # 0

\* A step that claims nothing and moves no claimed dispatch keeps every bound.
LEMMA NoNewClaim ==
  ASSUME TypeOK, GrantsIssued, GrantWithinBounds, UNCHANGED claimed,
         \A g \in Grant : /\ maxSends'[g] = maxSends[g]
                          /\ grantRevision'[g] = grantRevision[g],
         \A i \in Dispatch :
           /\ grantOf'[i] # NoGrant => grantRevision[grantOf'[i]] # 0
           /\ grantOf'[i] \in Grant \cup {NoGrant}
           /\ claimed[i] => grantOf'[i] = grantOf[i]
  PROVE  (GrantsIssued /\ GrantWithinBounds)'
<1>1. \A g \in Grant : ClaimsUnder(g)' = ClaimsUnder(g)
  BY DEF ClaimsUnder
<1>2. GrantWithinBounds'
  BY <1>1 DEF GrantWithinBounds
<1>3. GrantsIssued'
  BY DEF GrantsIssued
<1> QED
  BY <1>2, <1>3

\* Every step keeps to what the owner allowed.
LEMMA GrantUseNext ==
  ASSUME TypeOK, CallsAreClaims, GrantsIssued, GrantWithinBounds, [Next]_vars
  PROVE  (GrantsIssued /\ GrantWithinBounds)'
<1> USE DEF planVars, dispatchVars, grantVars, processVars, rowVars
<1>1. ASSUME NEW t \in timers, Prepare(t)
      PROVE  (GrantsIssued /\ GrantWithinBounds)'
  <2>1. PICK i \in Dispatch, g \in Grant \cup {NoGrant} :
          /\ dispatch[i] = "none" /\ grantOf' = [grantOf EXCEPT ![i] = g]
          /\ g \in Grant => ValidGrant(g)
    BY <1>1, BoundAssumption DEF Prepare
  <2>2. ~claimed[i] /\ (g \in Grant => grantRevision[g] # 0)
    BY <2>1 DEF CallsAreClaims, TypeOK, ValidGrant
  <2> QED
    BY <1>1, <2>1, <2>2, NoNewClaim DEF TypeOK, GrantsIssued, Prepare
<1>2. ASSUME NEW t \in timers, PrepareStops(t)
      PROVE  (GrantsIssued /\ GrantWithinBounds)'
  BY <1>2, NoNewClaim DEF TypeOK, GrantsIssued, PrepareStops
<1>3. ASSUME NEW i \in Dispatch, Claim(i)
      PROVE  (GrantsIssued /\ GrantWithinBounds)'
  <2>1. CASE grantOf[i] = NoGrant
    <3>1. \A g \in Grant : ClaimsUnder(g)' = ClaimsUnder(g)
      BY <1>3, <2>1, BoundAssumption DEF Claim, ClaimsUnder
    <3> QED
      BY <1>3, <3>1 DEF Claim, GrantWithinBounds, GrantsIssued
  <2>2. CASE grantOf[i] # NoGrant
    <3> DEFINE g == grantOf[i]
    <3>1. /\ g \in Grant /\ ~claimed[i]
          /\ Cardinality(ClaimsUnder(g)) < maxSends[g]
      BY <1>3, <2>2 DEF Claim, Consumable, UnderCap, TypeOK
    <3>2. IsFiniteSet(ClaimsUnder(g))
      BY BoundAssumption, FS_Subset DEF ClaimsUnder
    <3>3. ClaimsUnder(g)' = ClaimsUnder(g) \cup {i} /\ i \notin ClaimsUnder(g)
      BY <1>3, <3>1 DEF Claim, TypeOK, ClaimsUnder
    <3>4. Cardinality(ClaimsUnder(g)') = Cardinality(ClaimsUnder(g)) + 1
      BY <3>2, <3>3, FS_AddElement
    <3>5. Cardinality(ClaimsUnder(g)) \in Nat /\ maxSends[g] \in Nat
      BY <3>1, <3>2, FS_CardinalityType DEF TypeOK
    <3>6. \A h \in Grant \ {g} : ClaimsUnder(h)' = ClaimsUnder(h)
      BY <1>3 DEF Claim, ClaimsUnder
    <3> QED
      BY <1>3, <3>1, <3>4, <3>5, <3>6
        DEF Claim, GrantWithinBounds, GrantsIssued
  <2> QED
    BY <2>1, <2>2
<1>4. ASSUME NEW i \in Dispatch, ClaimStops(i)
      PROVE  (GrantsIssued /\ GrantWithinBounds)'
  BY <1>4, NoNewClaim DEF TypeOK, GrantsIssued, ClaimStops
<1>5. ASSUME NEW i \in Dispatch, ProviderAccepts(i)
      PROVE  (GrantsIssued /\ GrantWithinBounds)'
  BY <1>5, NoNewClaim DEF TypeOK, GrantsIssued, ProviderAccepts
<1>6. ASSUME NEW i \in Dispatch, RecordSent(i)
      PROVE  (GrantsIssued /\ GrantWithinBounds)'
  BY <1>6, NoNewClaim DEF TypeOK, GrantsIssued, RecordSent
<1>7. ASSUME NEW i \in Dispatch, ErrorReads(i)
      PROVE  (GrantsIssued /\ GrantWithinBounds)'
  BY <1>7, NoNewClaim DEF TypeOK, GrantsIssued, ErrorReads
<1>8. ASSUME NEW i \in Dispatch, ErrorWrites(i)
      PROVE  (GrantsIssued /\ GrantWithinBounds)'
  BY <1>8, NoNewClaim DEF TypeOK, GrantsIssued, ErrorWrites
<1>9. ASSUME NEW i \in Dispatch, Crash(i)
      PROVE  (GrantsIssued /\ GrantWithinBounds)'
  BY <1>9, NoNewClaim DEF TypeOK, GrantsIssued, Crash
<1>10. ASSUME NEW i \in Dispatch, Approve(i)
       PROVE  (GrantsIssued /\ GrantWithinBounds)'
  BY <1>10, NoNewClaim DEF TypeOK, GrantsIssued, Approve
<1>11. ASSUME NEW i \in Dispatch, Reject(i)
       PROVE  (GrantsIssued /\ GrantWithinBounds)'
  BY <1>11, NoNewClaim DEF TypeOK, GrantsIssued, Reject
<1>12. ASSUME NEW i \in Dispatch, Reconcile(i)
       PROVE  (GrantsIssued /\ GrantWithinBounds)'
  BY <1>12, NoNewClaim DEF TypeOK, GrantsIssued, Reconcile
<1>13. ASSUME NEW g \in Grant, NEW n \in 1..Steps, GrantSending(g, n)
       PROVE  (GrantsIssued /\ GrantWithinBounds)'
  <2>1. /\ grantRevision[g] = 0 /\ n \in Nat /\ revision # 0
        /\ grantRevision' = [grantRevision EXCEPT ![g] = revision]
        /\ maxSends' = [maxSends EXCEPT ![g] = n]
        /\ UNCHANGED claimed
    BY <1>13 DEF GrantSending, TypeOK
  <2>2. \A i \in Dispatch : \/ grantOf'[i] = grantOf[i]
                            \/ grantOf'[i] = g /\ ~claimed[i]
    BY <1>13 DEF GrantSending, Unused, TypeOK
  <2>3. GrantsIssued'
    BY <2>1, <2>2 DEF GrantsIssued, TypeOK
  <2>4. \A h \in Grant : ClaimsUnder(h)' = ClaimsUnder(h)
    BY <2>1, <2>2 DEF ClaimsUnder
  <2>5. Cardinality(ClaimsUnder(g)) = 0
    <3>1. ClaimsUnder(g) = {}
      BY <2>1, BoundAssumption DEF ClaimsUnder, GrantsIssued
    <3> QED
      BY <3>1, FS_EmptySet
  <2> QED
    BY <2>1, <2>3, <2>4, <2>5 DEF GrantWithinBounds
<1>14. CASE TaskFails
  BY <1>14, NoNewClaim DEF TypeOK, GrantsIssued, TaskFails
<1>15. CASE StopSequence
  BY <1>15, NoNewClaim DEF TypeOK, GrantsIssued, StopSequence
<1>16. CASE ReceiveReply
  BY <1>16, NoNewClaim DEF TypeOK, GrantsIssued, ReceiveReply
<1>17. CASE Resume
  BY <1>17, NoNewClaim DEF TypeOK, GrantsIssued, Resume
<1>18. CASE Snooze
  BY <1>18, NoNewClaim DEF TypeOK, GrantsIssued, Snooze
<1>19. CASE Replan
  BY <1>19, NoNewClaim DEF TypeOK, GrantsIssued, Replan
<1>20. CASE UNCHANGED vars
  BY <1>20, NoNewClaim DEF TypeOK, GrantsIssued, vars
<1> QED
  BY <1>1, <1>2, <1>3, <1>4, <1>5, <1>6, <1>7, <1>8, <1>9, <1>10, <1>11,
     <1>12, <1>13, <1>14, <1>15, <1>16, <1>17, <1>18, <1>19, <1>20
  DEF Next, DispatchStep

\* No grant is used for more sends than the owner allowed.
THEOREM GrantsStayWithinBounds == Spec => []GrantWithinBounds
<1>1. Init => GrantsIssued /\ GrantWithinBounds
  <2> SUFFICES ASSUME Init PROVE GrantsIssued /\ GrantWithinBounds
    OBVIOUS
  <2>1. \A g \in Grant : ClaimsUnder(g) = {} /\ maxSends[g] = 0
    BY DEF Init, ClaimsUnder
  <2>2. GrantWithinBounds
    BY <2>1, FS_EmptySet DEF GrantWithinBounds
  <2> QED
    BY <2>2 DEF Init, GrantsIssued
<1>2. GrantsIssued /\ GrantWithinBounds /\ IInv /\ [Next]_vars
      => (GrantsIssued /\ GrantWithinBounds)'
  BY GrantUseNext DEF IInv
<1> QED
  BY Invariance, <1>1, <1>2, PTL DEF Spec

-----------------------------------------------------------------------------
(* Refinement: FollowUpDelivery implements DeliveryPromise.                *)

Kept == INSTANCE DeliveryPromise_proofs
          WITH cursor <- step, accepted <- AcceptedSteps, phase <- Phase

\* A step the recipient does not notice: the plan's step, what the provider
\* accepted and every open outcome stay.
Unnoticed ==
  /\ UNCHANGED <<step, epoch, accepted>>
  /\ \A i \in accepted : /\ stepIndex'[i] = stepIndex[i]
                         /\ epochOf'[i] = epochOf[i]
  /\ \A i \in Dispatch, s \in Unknown : dispatch'[i] = s <=> dispatch[i] = s

\* An unnoticed step is a stutter of the promise.
LEMMA UnnoticedStutters == Unnoticed => UNCHANGED Promise!vars
<1> SUFFICES ASSUME Unnoticed PROVE UNCHANGED <<step, AcceptedSteps, Phase>>
  BY DEF Promise!vars
<1>1. AcceptedSteps' = AcceptedSteps
  BY DEF Unnoticed, AcceptedSteps
<1>2. Phase' = Phase
  BY DEF Unnoticed, Phase, Unknown
<1> QED
  BY <1>1, <1>2 DEF Unnoticed

\* The phase of the promise is that of the only open attempt.
LEMMA PhaseOf ==
  ASSUME OneLiveDispatch
  PROVE  /\ \A i \in Dispatch :
              dispatch[i] = "dispatching" => Phase = "attempting"
         /\ \A i \in Dispatch :
              dispatch[i] = "reconciliation_required" => Phase = "uncertain"
         /\ (\A i \in Dispatch : dispatch[i] \notin Unknown) => Phase = "idle"
BY DEF OneLiveDispatch, Live, Unknown, Phase

\* What StopFollowUp does to the outbox besides what its caller wrote.
LEMMA StopOutbox ==
  ASSUME NEW new, NEW old, NEW base \in [Dispatch -> DispatchStatus],
         NEW decided,
         StopFollowUp(new, old, base, decided)
  PROVE  \A i \in Dispatch : \/ dispatch'[i] = base[i]
                             \/ /\ dispatch'[i] = "cancelled"
                                /\ base[i] = "queued"
BY DEF StopFollowUp, Release, Unused

\* Every step is a step of the promise or goes unnoticed.
LEMMA StepsKeepPromise ==
  ASSUME IInv, [Next]_vars
  PROVE  Promise!Next \/ UNCHANGED Promise!vars
<1> USE DEF planVars, dispatchVars, grantVars, processVars, rowVars
<1>1. ASSUME NEW t \in timers, Prepare(t)
      PROVE  Promise!Next \/ UNCHANGED Promise!vars
  <2>1. Unnoticed
    BY <1>1 DEF IInv, Unnoticed, AcceptedIsPast, Past, Unknown, Prepare
  <2> QED
    BY <2>1, UnnoticedStutters
<1>2. ASSUME NEW t \in timers, PrepareStops(t)
      PROVE  Promise!Next \/ UNCHANGED Promise!vars
  <2>1. Unnoticed
    BY <1>2 DEF Unnoticed, Unknown, PrepareStops, Stop, StopFollowUp, Release,
       Unused
  <2> QED
    BY <2>1, UnnoticedStutters
<1>3. ASSUME NEW i \in Dispatch, Claim(i)
      PROVE  Promise!Next \/ UNCHANGED Promise!vars
  <2>1. /\ dispatch[i] = "queued" /\ step = stepIndex[i]
        /\ Live(i) /\ epochOf[i] = epoch
    BY <1>3 DEF Claim, Consumable, Current, Live, Usable, IInv, EpochsKnown
  <2>2. \A k \in Dispatch : dispatch[k] \notin Unknown
    BY <2>1 DEF IInv, OneLiveDispatch, Live, Unknown
  <2>3. dispatch' = [dispatch EXCEPT ![i] = "dispatching"]
        /\ UNCHANGED <<step, epoch, stepIndex, epochOf, accepted>>
    BY <1>3 DEF Claim
  <2>4. Phase = "idle" /\ Phase' = "attempting"
    BY <2>2, <2>3, PhaseOf DEF Phase, IInv, TypeOK
  <2>5. step \in 0..Steps - 1 /\ step \notin AcceptedSteps
    BY <2>1, <2>2 DEF IInv, AcceptedIsPast, AcceptedSteps, TypeOK
  <2>6. AcceptedSteps' = AcceptedSteps
    BY <2>3 DEF AcceptedSteps
  <2> QED
    BY <2>3, <2>4, <2>5, <2>6 DEF Promise!Next, Promise!Attempt
<1>4. ASSUME NEW i \in Dispatch, ClaimStops(i)
      PROVE  Promise!Next \/ UNCHANGED Promise!vars
  <2>1. Unnoticed
    BY <1>4 DEF Unnoticed, Unknown, ClaimStops, Stop, StopFollowUp, Release,
       Unused
  <2> QED
    BY <2>1, UnnoticedStutters
<1>5. ASSUME NEW i \in Dispatch, ProviderAccepts(i)
      PROVE  Promise!Next \/ UNCHANGED Promise!vars
  <2>1. dispatch[i] \in Unknown /\ accepted' = accepted \cup {i}
        /\ UNCHANGED <<step, epoch, stepIndex, epochOf, dispatch>>
    BY <1>5 DEF ProviderAccepts
  <2>2. stepIndex[i] = step /\ epochOf[i] = epoch
    BY <2>1 DEF IInv, ClaimBindsPlan
  <2>3. AcceptedSteps' = AcceptedSteps \cup {step}
    BY <2>1, <2>2 DEF AcceptedSteps
  <2>4. Phase # "idle" /\ Phase' = Phase
    BY <2>1 DEF Phase, Unknown
  <2> QED
    BY <2>1, <2>3, <2>4 DEF Promise!Next, Promise!ProviderAccepts
<1>6. ASSUME NEW i \in Dispatch, RecordSent(i)
      PROVE  Promise!Next \/ UNCHANGED Promise!vars
  <2>1. dispatch[i] = "dispatching" /\ i \in accepted
    BY <1>6 DEF RecordSent, IInv, CallsAreClaims
  <2>2. /\ stepIndex[i] = step /\ epochOf[i] = epoch
        /\ LateAcceptance(i) \/ OnTime(i)
    BY <2>1 DEF IInv, TypeOK, ClaimBindsPlan, Unknown, Halted, LateAcceptance,
       OnTime,
                Current
  <2>3. /\ dispatch' = [dispatch EXCEPT ![i] = "sent"] /\ step' = step + 1
        /\ UNCHANGED <<epoch, stepIndex, epochOf, accepted>>
    BY <1>6, <2>2 DEF RecordSent
  <2>4. Phase # "idle" /\ Phase' = "idle"
    BY <2>1, <2>3 DEF IInv, TypeOK, OneLiveDispatch, Live, Unknown, Phase
  <2>5. step \in AcceptedSteps /\ AcceptedSteps' = AcceptedSteps
    BY <2>1, <2>2, <2>3 DEF AcceptedSteps
  <2> QED
    BY <2>3, <2>4, <2>5 DEF Promise!Next, Promise!RecordAcceptance
<1>7. ASSUME NEW i \in Dispatch, ErrorReads(i)
      PROVE  Promise!Next \/ UNCHANGED Promise!vars
  <2>1. Unnoticed
    BY <1>7 DEF Unnoticed, ErrorReads
  <2> QED
    BY <2>1, UnnoticedStutters
<1>8. ASSUME NEW i \in Dispatch, ErrorWrites(i)
      PROVE  Promise!Next \/ UNCHANGED Promise!vars
  <2> DEFINE base == [dispatch EXCEPT ![i] = "reconciliation_required"]
  <2>1. dispatch[i] = "dispatching"
    BY <1>8 DEF ErrorWrites, IInv, CallsAreClaims
  <2>2. /\ StopFollowUp("blocked", snapshot, base, approval)
        /\ UNCHANGED <<step, epoch, stepIndex, epochOf, accepted>>
    BY <1>8 DEF ErrorWrites
  <2>3. base \in [Dispatch -> DispatchStatus]
    BY DEF IInv, TypeOK, DispatchStatus
  <2> HIDE DEF base
  <2>4. \A k \in Dispatch : \/ dispatch'[k] = base[k]
                            \/ dispatch'[k] = "cancelled" /\ base[k] = "queued"
    BY <2>2, <2>3, StopOutbox
  <2>5. \A k \in Dispatch : base[k] = IF k = i THEN "reconciliation_required"
                                      ELSE dispatch[k]
    BY DEF base, IInv, TypeOK
  <2>6. Phase = "attempting" /\ Phase' = "uncertain"
    BY <2>1, <2>4, <2>5 DEF IInv, OneLiveDispatch, Live, Unknown, Phase
  <2>7. AcceptedSteps' = AcceptedSteps
    BY <2>2 DEF AcceptedSteps
  <2> QED
    BY <2>2, <2>6, <2>7 DEF Promise!Next, Promise!LoseTrack
<1>9. ASSUME NEW i \in Dispatch, Crash(i)
      PROVE  Promise!Next \/ UNCHANGED Promise!vars
  <2>1. Unnoticed
    BY <1>9 DEF Unnoticed, Crash
  <2> QED
    BY <2>1, UnnoticedStutters
<1>10. ASSUME NEW i \in Dispatch, Approve(i)
       PROVE  Promise!Next \/ UNCHANGED Promise!vars
  <2>1. Unnoticed
    BY <1>10 DEF Unnoticed, Approve
  <2> QED
    BY <2>1, UnnoticedStutters
<1>11. ASSUME NEW i \in Dispatch, Reject(i)
       PROVE  Promise!Next \/ UNCHANGED Promise!vars
  <2>1. Unnoticed
    BY <1>11 DEF Unnoticed, Unknown, Reject, StopFollowUp, Release, Unused
  <2> QED
    BY <2>1, UnnoticedStutters
<1>12. ASSUME NEW i \in Dispatch, Reconcile(i)
       PROVE  Promise!Next \/ UNCHANGED Promise!vars
  <2> DEFINE base == [dispatch EXCEPT ![i] =
                        IF i \in accepted THEN "accepted_recorded"
                        ELSE "not_accepted_recorded"]
  <2>1. dispatch[i] = "reconciliation_required"
    BY <1>12 DEF Reconcile
  <2>2. /\ StopFollowUp("paused", Plan, base, approval)
        /\ UNCHANGED <<epoch, stepIndex, epochOf, accepted>>
    BY <1>12 DEF Reconcile
  <2>3. base \in [Dispatch -> DispatchStatus]
    BY DEF IInv, TypeOK, DispatchStatus
  <2> HIDE DEF base
  <2>4. \A k \in Dispatch : \/ dispatch'[k] = base[k]
                            \/ dispatch'[k] = "cancelled" /\ base[k] = "queued"
    BY <2>2, <2>3, StopOutbox
  <2>5. /\ \A k \in Dispatch : k # i => base[k] = dispatch[k]
        /\ base[i] \in {"accepted_recorded", "not_accepted_recorded"}
    BY DEF base, IInv, TypeOK
  <2>6. Phase = "uncertain" /\ Phase' = "idle"
    BY <2>1, <2>4, <2>5 DEF IInv, OneLiveDispatch, Live, Unknown, Phase
  <2>7. AcceptedSteps' = AcceptedSteps
    BY <2>2 DEF AcceptedSteps
  <2>8. /\ stepIndex[i] = step /\ epochOf[i] = epoch
        /\ revision >= planRevision[i]
    BY <2>1 DEF IInv, ClaimBindsPlan, Unknown
  <2>9. CASE i \in accepted
    <3>1. step' = step + 1
      BY <1>12, <2>8, <2>9 DEF Reconcile
    <3>2. step \in AcceptedSteps
      BY <2>8, <2>9 DEF AcceptedSteps
    <3> QED
      BY <3>1, <3>2, <2>6, <2>7 DEF Promise!Next, Promise!RecordAcceptance
  <2>10. CASE i \notin accepted
    <3>1. step' = step
      BY <1>12, <2>10 DEF Reconcile
    <3>2. step \notin AcceptedSteps
      BY <2>1, <2>8, <2>10 DEF AcceptedSteps, IInv, TypeOK, AcceptedIsPast,
                              OneLiveDispatch, Live, Unknown
    <3> QED
      BY <3>1, <3>2, <2>6, <2>7 DEF Promise!Next, Promise!RecordRefusal
  <2> QED
    BY <2>9, <2>10
<1>13. ASSUME NEW g \in Grant, NEW n \in 1..Steps, GrantSending(g, n)
       PROVE  Promise!Next \/ UNCHANGED Promise!vars
  <2>1. Unnoticed
    BY <1>13 DEF Unnoticed, GrantSending
  <2> QED
    BY <2>1, UnnoticedStutters
<1>14. CASE TaskFails
  <2>1. Unnoticed
    BY <1>14 DEF Unnoticed, Unknown, TaskFails, Stop, StopFollowUp, Release,
       Unused
  <2> QED
    BY <2>1, UnnoticedStutters
<1>15. CASE StopSequence
  <2>1. Unnoticed
    BY <1>15 DEF Unnoticed, Unknown, StopSequence, Stop, StopFollowUp, Release,
       Unused
  <2> QED
    BY <2>1, UnnoticedStutters
<1>16. CASE ReceiveReply
  <2>1. Unnoticed
    BY <1>16 DEF Unnoticed, Unknown, ReceiveReply, Stop, StopFollowUp, Release,
       Unused
  <2> QED
    BY <2>1, UnnoticedStutters
<1>17. CASE Resume
  <2>1. Unnoticed
    BY <1>17 DEF Unnoticed, Resume, Restart
  <2> QED
    BY <2>1, UnnoticedStutters
<1>18. CASE Snooze
  <2>1. Unnoticed
    BY <1>18 DEF Unnoticed, Unknown, Snooze, Restart, Release, Unused
  <2> QED
    BY <2>1, UnnoticedStutters
<1>19. CASE Replan
  <2>1. /\ \A k \in Dispatch : dispatch[k] \notin Unknown
        /\ epoch' = epoch + 1 /\ step' = 0
        /\ UNCHANGED <<epochOf, stepIndex, accepted>>
    BY <1>19 DEF Replan, NoneUnresolved, Restart
  <2>2. \A k \in Dispatch : dispatch'[k] \notin Unknown
    BY <1>19, <2>1 DEF Replan, Release, Unknown
  <2>3. Phase = "idle" /\ Phase' = "idle"
    BY <2>1, <2>2 DEF Phase, Unknown
  <2>4. AcceptedSteps' = {}
    BY <2>1 DEF AcceptedSteps, IInv, EpochsKnown, TypeOK
  <2> QED
    BY <2>1, <2>3, <2>4 DEF Promise!Next, Promise!Replan
<1>20. CASE UNCHANGED vars
  <2>1. Unnoticed
    BY <1>20 DEF Unnoticed, vars
  <2> QED
    BY <2>1, UnnoticedStutters
<1> QED
  BY <1>1, <1>2, <1>3, <1>4, <1>5, <1>6, <1>7, <1>8, <1>9, <1>10, <1>11,
     <1>12, <1>13, <1>14, <1>15, <1>16, <1>17, <1>18, <1>19, <1>20
  DEF Next, DispatchStep

\* Follow-up delivery implements the promise: steps are accepted in order and
\* at most once, whatever the plan, its tasks, its owner and the provider do.
THEOREM PromiseIsKept == Spec => KeepsPromise
<1>1. Init => Promise!Init
  BY DEF Init, Promise!Init, AcceptedSteps, Phase
<1>2. IInv /\ [Next]_vars => [Promise!Next]_(Promise!vars)
  BY StepsKeepPromise
<1> QED
  BY Invariance, <1>1, <1>2, PTL DEF Spec, KeepsPromise, Promise!Spec

\* Exactly the steps before the plan's own have been accepted, but for the
\* attempt whose outcome is open.
THEOREM AcceptanceIsInOrder == Spec => []AcceptedInOrderOnce
<1>1. Promise!Init => Promise!InOrderOnce
  BY StepsAssumption, Kept!OrderInit DEF Promise!Init, Kept!Init,
     Promise!InOrderOnce, Kept!InOrderOnce
<1>2. /\ Promise!InOrderOnce
      /\ [Promise!Next]_(Promise!vars)
      => Promise!InOrderOnce'
  BY StepsAssumption, Kept!OrderNext DEF Promise!Next, Kept!Next, Promise!vars,
     Kept!vars, Promise!InOrderOnce, Kept!InOrderOnce, Promise!Attempt,
     Kept!Attempt, Promise!ProviderAccepts, Kept!ProviderAccepts,
     Promise!LoseTrack, Kept!LoseTrack, Promise!RecordAcceptance,
     Kept!RecordAcceptance, Promise!RecordRefusal, Kept!RecordRefusal,
     Promise!Replan, Kept!Replan
<1> QED
  BY PromiseIsKept, <1>1, <1>2, PTL
     DEF KeepsPromise, AcceptedInOrderOnce, Promise!Spec
=============================================================================
