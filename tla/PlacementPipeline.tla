------------------------- MODULE PlacementPipeline --------------------------
(***************************************************************************)
(* One candidate on one job, from the screening to the end of the          *)
(* guarantee: the screening row, the placement row and the approvals that  *)
(* move them.  Routers read, check and write without a lock, so each of    *)
(* their requests is a clerk whose write may follow a stale read; the      *)
(* owner's decision on an approval is one transaction, and its effect looks*)
(* at nothing but the approval.                                            *)
(*                                                                         *)
(* Consent, the client, the job and the joining evidence are there; time is*)
(* counted in days.                                                        *)
(***************************************************************************)
EXTENDS Integers, Desk, Workflow

CONSTANTS
  GuaranteeDays,   \* DEFAULT_GUARANTEE_DAYS
  LastDay,         \* bound: the days that pass
  MaxPending       \* bound: pending approvals of a kind

ASSUME PipelineAssumption ==
  GuaranteeDays \in Nat \ {0} /\ LastDay \in Nat /\ MaxPending \in Nat

VARIABLES
  screening, recommendation,  \* screenings row: status or "none", disposition
  placement,                  \* placements row: status or "none"
  startAt, endAt,             \* its guarantee dates, or Never
  candidate,                  \* "live", "erasing" (tombstoned) or "gone"
  pending, granted,           \* approvals by kind: how many wait, ever approved
  bench,                      \* what each clerk is at
  today

screeningVars == <<screening, recommendation>>
placementVars == <<placement, startAt, endAt>>
approvalVars == <<pending, granted>>
pipelineVars == <<screeningVars, placementVars, approvalVars, candidate, bench, today>>

Disposition == {"advance", "not_proceeding"}
Kind == Disposition \cup {"confirmation", "replacement"}
Never == -1
Free == [step |-> NoOne, aim |-> "none"]

PipelineInit ==
  /\ screening = "none" /\ recommendation = "none"
  /\ placement = "none" /\ startAt = Never /\ endAt = Never
  /\ candidate = "live"
  /\ pending = [k \in Kind |-> 0] /\ granted = {}
  /\ bench = [c \in Clerk |-> Free]
  /\ today = 0
-----------------------------------------------------------------------------
Take(c, step, aim) ==
  /\ bench[c].step = NoOne
  /\ bench' = [bench EXCEPT ![c] = [step |-> step, aim |-> aim]]
On(c, step) == bench[c].step = step
Finish(c) == bench' = [bench EXCEPT ![c] = Free]

Drop(c) ==
  /\ bench[c].step # NoOne /\ Finish(c)
  /\ UNCHANGED <<screeningVars, placementVars, approvalVars, candidate, today>>
-----------------------------------------------------------------------------
(* Screening and the final decision.                                       *)

\* screenings.create; the index allows one row per candidate and job.
CreateScreening ==
  /\ screening = "none" /\ screening' = "in_progress"
  /\ UNCHANGED <<recommendation, placementVars, approvalVars, candidate, bench, today>>

\* screenings.updateState.
AskScreening(c) ==
  \E s \in {"in_progress", "evidence_pending", "ready_for_owner_decision", "closed"} :
    /\ screening # "none" /\ MayMove(ScreeningFlow, screening, s)
    /\ Take(c, "screening", s)
    /\ UNCHANGED <<screeningVars, placementVars, approvalVars, candidate, today>>

WriteScreening(c) ==
  /\ On(c, "screening") /\ Finish(c)
  /\ screening' = bench[c].aim
  /\ UNCHANGED <<recommendation, placementVars, approvalVars, candidate, today>>

\* requestCandidateDecision: the read decides between an update and an insert.
RequestDecision(c) ==
  \E d \in Disposition :
    /\ screening \notin {"decision_pending", "owner_decided", "closed"}
    /\ Take(c, IF screening = "none" THEN "insertDecision" ELSE "fileDecision", d)
    /\ UNCHANGED <<screeningVars, placementVars, approvalVars, candidate, today>>

FileDecision(c) ==
  /\ \/ On(c, "fileDecision")
     \/ On(c, "insertDecision") /\ screening = "none"
  /\ screening' = "decision_pending" /\ recommendation' = bench[c].aim
  /\ bench' = [bench EXCEPT ![c].step = "ask"]
  /\ UNCHANGED <<placementVars, approvalVars, candidate, today>>

\* An approval request of any kind is inserted.
AskOwner(c) ==
  /\ On(c, "ask") /\ Finish(c)
  /\ pending[bench[c].aim] < MaxPending
  /\ pending' = [pending EXCEPT ![bench[c].aim] = @ + 1]
  /\ UNCHANGED <<screeningVars, placementVars, granted, candidate, today>>
-----------------------------------------------------------------------------
(* The placement.                                                          *)

\* placements.create looks for the owner's decision to advance and for an open
\* placement.
PositiveDecision == screening = "owner_decided" /\ recommendation = "advance"

AskPlacement(c) ==
  /\ candidate # "gone" /\ PositiveDecision
  /\ placement \in {"none", "closed"}
  /\ Take(c, "place", "none")
  /\ UNCHANGED <<screeningVars, placementVars, approvalVars, candidate, today>>

\* The insert; it fails if the candidate already has a row for the job.
CreatePlacement(c) ==
  /\ On(c, "place") /\ Finish(c)
  /\ placement' = IF placement = "none" THEN "offer_pending" ELSE placement
  /\ UNCHANGED <<screeningVars, startAt, endAt, approvalVars, candidate, today>>

\* extendOffer, recordOfferDecision and placements.transition: what they write
\* follows the table from the status they read, and joining_confirmed is never
\* written but asked of the owner (mutant: it is written).
WrittenByHand(s) == TRUE
NeedsApproval(s) == s = "joining_confirmed"
Direct(s) == ~NeedsApproval(s)

AskMove(c) ==
  \E s \in DOMAIN PlacementFlow :
    /\ placement # "none" /\ MayMove(PlacementFlow, placement, s)
    /\ IF Direct(s) THEN Take(c, "move", s) ELSE Take(c, "ask", "confirmation")
    /\ UNCHANGED <<screeningVars, placementVars, approvalVars, candidate, today>>

\* The start of the guarantee is filled in when it is missing.
WriteMove(c) ==
  /\ On(c, "move") /\ Finish(c)
  /\ placement' = bench[c].aim
  /\ IF bench[c].aim = "guarantee_active" /\ startAt = Never
     THEN startAt' = today /\ endAt' = today + GuaranteeDays
     ELSE UNCHANGED <<startAt, endAt>>
  /\ UNCHANGED <<screeningVars, approvalVars, candidate, today>>

RequestConfirmation(c) ==
  /\ placement = "joining_pending" /\ pending["confirmation"] = 0
  /\ Take(c, "ask", "confirmation")
  /\ UNCHANGED <<screeningVars, placementVars, approvalVars, candidate, today>>

\* requestReplacement asks nothing of the placement.
RequestReplacement(c) ==
  /\ placement # "none"
  /\ Take(c, "ask", "replacement")
  /\ UNCHANGED <<screeningVars, placementVars, approvalVars, candidate, today>>
-----------------------------------------------------------------------------
(* The owner's decisions.                                                  *)

Decide(k) == pending[k] > 0 /\ pending' = [pending EXCEPT ![k] = @ - 1]

ApproveDecision ==
  \E d \in Disposition :
    /\ Decide(d) /\ granted' = granted \cup {d}
    /\ screening' = "owner_decided"
    /\ UNCHANGED <<recommendation, placementVars, candidate, bench, today>>

ApproveConfirmation ==
  /\ Decide("confirmation") /\ granted' = granted \cup {"confirmation"}
  /\ placement' = "joining_confirmed"
  /\ startAt' = today /\ endAt' = today + GuaranteeDays
  /\ UNCHANGED <<screeningVars, candidate, bench, today>>

ApproveReplacement ==
  /\ Decide("replacement") /\ granted' = granted \cup {"replacement"}
  /\ placement' = "replacement_requested"
  /\ UNCHANGED <<screeningVars, startAt, endAt, candidate, bench, today>>

RejectApproval ==
  /\ \E k \in Kind : Decide(k)
  /\ UNCHANGED <<screeningVars, placementVars, granted, candidate, bench, today>>
-----------------------------------------------------------------------------
(* Erasure of the candidate, as the placement sees it.                     *)

EraseCandidate(c) ==
  /\ candidate' = "erasing" /\ candidate # "gone"
  /\ Take(c, IF placement \in {"none", "closed"} THEN "forget" ELSE "close", "none")
  /\ UNCHANGED <<screeningVars, placementVars, approvalVars, today>>

ClosePlacement(c) ==
  /\ On(c, "close") /\ bench' = [bench EXCEPT ![c].step = "forget"]
  /\ placement' = "closed"
  /\ UNCHANGED <<screeningVars, startAt, endAt, approvalVars, candidate, today>>

ForgetCandidate(c) ==
  /\ On(c, "forget") /\ Finish(c) /\ candidate' = "gone"
  /\ UNCHANGED <<screeningVars, placementVars, approvalVars, today>>

DayPasses ==
  /\ today < LastDay /\ today' = today + 1
  /\ UNCHANGED <<screeningVars, placementVars, approvalVars, candidate, bench>>
-----------------------------------------------------------------------------
PipelineNext ==
  \/ \E c \in Clerk :
       \/ AskScreening(c) \/ WriteScreening(c) \/ RequestDecision(c)
       \/ FileDecision(c) \/ AskOwner(c) \/ AskPlacement(c) \/ CreatePlacement(c)
       \/ AskMove(c) \/ WriteMove(c) \/ RequestConfirmation(c)
       \/ RequestReplacement(c) \/ EraseCandidate(c) \/ ClosePlacement(c)
       \/ ForgetCandidate(c) \/ Drop(c)
  \/ CreateScreening \/ ApproveDecision \/ ApproveConfirmation
  \/ ApproveReplacement \/ RejectApproval \/ DayPasses

PipelineSpec == PipelineInit /\ [][PipelineNext]_pipelineVars
-----------------------------------------------------------------------------
(* computeGuaranteeStatus.                                                 *)

GuaranteeStatus ==
  CASE placement \in {"replacement_requested", "replacement_in_progress"} ->
         "replacement_requested"
    [] placement \in {"closed", "replacement_closed"} -> "closed"
    [] OTHER -> IF startAt = Never \/ today < startAt THEN "not_started"
                ELSE IF today >= endAt THEN "expired" ELSE "active"

PipelineTypeOK ==
  /\ screening \in DOMAIN ScreeningFlow \cup {"none"}
  /\ recommendation \in Disposition \cup {"none"}
  /\ placement \in DOMAIN PlacementFlow \cup {"none"}
  /\ startAt \in Int /\ endAt \in Int /\ today \in 0..LastDay
  /\ candidate \in {"live", "erasing", "gone"}
  /\ pending \in [Kind -> 0..MaxPending] /\ granted \subseteq Kind
  /\ \A c \in Clerk : bench[c].step \in {NoOne, "screening", "insertDecision",
       "fileDecision", "ask", "place", "move", "close", "forget"}

\* Whoever counts as joined was confirmed by the owner, and the guarantee that is
\* shown runs from that day for its full length, whatever stale writes and late
\* approvals came in between (recruitment.ts:1149, approvalEngine.ts:169,
\* guaranteeTracking.ts:25).
Joined == {"joining_confirmed", "invoice_eligible", "guarantee_active",
           "guarantee_ended"}
JoinedWasConfirmed ==
  placement \in Joined =>
    /\ "confirmation" \in granted /\ endAt = startAt + GuaranteeDays
    /\ GuaranteeStatus \in {"active", "expired"}
    /\ GuaranteeStatus = "active" <=> today < startAt + GuaranteeDays
=============================================================================
