----------------------------- MODULE Campaigns ------------------------------
(***************************************************************************)
(* Outreach campaigns: the owner reviews an audience and launches it, the  *)
(* worker's poll enrols a few of its members at a time in follow-up        *)
(* sequences, and the owner may pause, resume or cancel the whole.  Every  *)
(* operation is one transaction under the workspace lock.                  *)
(*                                                                         *)
(* A sequence is here what a campaign sees of it (FollowUpDelivery models  *)
(* the rest); texts, time zones and the request keys are left out.         *)
(***************************************************************************)
EXTENDS Integers, FiniteSets

CONSTANTS
  Campaign,      \* ids of outreachCampaigns rows
  Person,        \* recipient ids, in their order
  Address,       \* addresses they may have
  Batch,         \* members that one poll considers
  MaxRevision    \* bound: revision

ASSUME CampaignAssumption ==
  Person \subseteq Nat /\ Batch \in Nat \ {0} /\ MaxRevision \in Nat \ {0, 1}

VARIABLES
  campaign,   \* outreachCampaigns rows: status, revision, executionMode, and whether
              \* the deadline leaves time for the first step, less, or none
  member,     \* outreachCampaignRecipients rows: status and reviewed address
  plan,       \* the sequence of each member: status, address, and whether it sends
              \* by the grant that its enrolment gave it
  address,    \* each person's current address
  reachable,  \* persons who permit the contact
  mailbox,    \* the sender can enrol
  stopped     \* emergencyStop

ruleVars == <<address, reachable, mailbox, stopped>>
campaignVars == <<campaign, member, plan, ruleVars>>

NoCampaign == [status |-> "none", revision |-> 0, mode |-> "review", left |-> "time"]
NoPlan == [status |-> "none", to |-> "none", granted |-> FALSE]
NoAddress == "none"
HeldPlan == {"live", "paused", "blocked"}    \* activePlans
Settled == {"skipped", "cancelled", "ended"}

CampaignsInit ==
  /\ campaign = [c \in Campaign |-> NoCampaign]
  /\ member = [c \in Campaign |-> [p \in Person |->
                [status |-> "pending", hash |-> NoAddress]]]
  /\ plan = [c \in Campaign |-> [p \in Person |-> NoPlan]]
  /\ address \in [Person -> Address] /\ reachable = Person
  /\ mailbox = TRUE /\ stopped = FALSE
-----------------------------------------------------------------------------
(* The audience.                                                           *)

\* An address that a sequence, running or held, already has (mutant: running).
Busy(a) == \E c \in Campaign, p \in Person :
              plan[c][p].status = "live" /\ plan[c][p].to = a
Taken(a) == \E c \in Campaign, p \in Person :
              plan[c][p].status \in HeldPlan /\ plan[c][p].to = a

\* recipientSnapshot without a reason to skip p.
Fit(p) == p \in reachable /\ ~Taken(address[p])
FirstOf(S) == {p \in S : \A q \in S : q < p => address[q] # address[p]}
Audience == FirstOf({p \in Person : Fit(p)})

CreateCampaign(c) ==
  /\ campaign[c] = NoCampaign
  /\ \E mode \in {"review", "delegated"} :
       campaign' = [campaign EXCEPT ![c] =
         [NoCampaign EXCEPT !.status = "draft", !.revision = 1, !.mode = mode]]
  /\ UNCHANGED <<member, plan, ruleVars>>

\* launchCampaign: what is launched is what the owner saw in the preview.
LaunchCampaign(c) ==
  /\ campaign[c].status = "draft" /\ campaign[c].left # "none"
  /\ mailbox /\ Audience # {}
  /\ member' = [member EXCEPT ![c] = [p \in Person |->
       [status |-> IF p \in Audience THEN "pending" ELSE "skipped",
        hash |-> address[p]]]]
  /\ campaign' = [campaign EXCEPT ![c].status = "active", ![c].revision = @ + 1]
  /\ UNCHANGED <<plan, ruleVars>>

\* stopFollowUp for every sequence of the campaign.
StopPlans(c, status) ==
  [plan EXCEPT ![c] = [p \in Person |->
     IF plan[c][p].status \in HeldPlan
     THEN [plan[c][p] EXCEPT !.status = status, !.granted = FALSE] ELSE plan[c][p]]]

\* controlCampaign; what goes on afterwards goes on under review (mutant: as it was).
AsBefore(c) == campaign[c].mode
ModeAfterControl(c) == "review"

Controlled(c, status) ==
  /\ campaign[c].revision < MaxRevision
  /\ campaign' = [campaign EXCEPT ![c].status = status, ![c].revision = @ + 1,
                                  ![c].mode = ModeAfterControl(c)]
  /\ UNCHANGED ruleVars

PauseCampaign(c) ==
  /\ campaign[c].status = "active" /\ Controlled(c, "paused")
  /\ plan' = StopPlans(c, "paused") /\ UNCHANGED member

ResumeCampaign(c) ==
  /\ campaign[c].status = "paused" /\ campaign[c].left # "none"
  /\ Controlled(c, "active")
  /\ UNCHANGED <<plan, member>>

CancelCampaign(c) ==
  /\ campaign[c].status \in {"draft", "active", "paused"} /\ Controlled(c, "cancelled")
  /\ plan' = StopPlans(c, "ended")
  /\ member' = [member EXCEPT ![c] = [p \in Person |->
       IF plan[c][p] = NoPlan THEN [member[c][p] EXCEPT !.status = "cancelled"]
       ELSE member[c][p]]]
-----------------------------------------------------------------------------
(* The poll.                                                               *)

Waiting(c) == {p \in Person : plan[c][p] = NoPlan /\ member[c][p].status = "pending"}
Considered(c) == {p \in Waiting(c) : Cardinality({q \in Waiting(c) : q < p}) < Batch}
StillFit(c) == {p \in Considered(c) : Fit(p) /\ member[c][p].hash = address[p]}

\* The deadline leaves no time for the first step (mutant: it is not looked at).
OpenEnded(c) == FALSE
TooLate(c) == campaign[c].left # "time"

\* evaluateCampaign, all or nothing: members in order, those with a sequence follow
\* its status; some had that sequence before.
EvaluateCampaign(c) ==
  \E again \in SUBSET {p \in StillFit(c) :
                         \E d \in Campaign : plan[d][p] # NoPlan} :
    LET joins == IF TooLate(c) THEN {} ELSE FirstOf(StillFit(c) \ again) IN
    /\ campaign[c].status = "active" /\ ~stopped
    /\ joins # {} => mailbox
    /\ plan' = [plan EXCEPT ![c] = [p \in Person |->
         IF p \in joins
         THEN [status |-> "live", to |-> address[p],
               granted |-> campaign[c].mode = "delegated"]
         ELSE plan[c][p]]]
    /\ member' = [member EXCEPT ![c] = [p \in Person |->
         [member[c][p] EXCEPT !.status =
            IF plan[c][p] # NoPlan THEN plan[c][p].status
            ELSE IF p \in joins THEN "live"
            ELSE IF p \notin Considered(c) THEN @
            ELSE IF TooLate(c) THEN "cancelled" ELSE "skipped"]]]
    /\ campaign' = [campaign EXCEPT ![c].status =
         IF \A p \in Person : member'[c][p].status \in Settled
         THEN "completed" ELSE @]
    /\ UNCHANGED ruleVars
-----------------------------------------------------------------------------
(* What the campaign does not decide.                                      *)

\* A sequence runs, is held, resumed by the owner, or ends; holding it ends a grant.
PlanMoves(c, p) ==
  /\ plan[c][p].status \in HeldPlan
  /\ \E s \in {"live", "paused", "blocked", "ended"} :
       plan' = [plan EXCEPT ![c][p].status = s,
                            ![c][p].granted = @ /\ s = "live" /\ plan[c][p].status = "live"]
  /\ UNCHANGED <<campaign, member, ruleVars>>

DeadlinePasses(c) ==
  /\ campaign[c].status # "none" /\ campaign[c].left # "none"
  /\ campaign' = [campaign EXCEPT ![c].left = IF @ = "time" THEN "less" ELSE "none"]
  /\ UNCHANGED <<member, plan, ruleVars>>

PersonChanges(p) ==
  /\ \/ \E a \in Address : address' = [address EXCEPT ![p] = a] /\ UNCHANGED reachable
     \/ /\ reachable' \in {reachable \cup {p}, reachable \ {p}}
        /\ UNCHANGED address
  /\ UNCHANGED <<campaign, member, plan, mailbox, stopped>>

MailboxChanges ==
  mailbox' = ~mailbox /\ UNCHANGED <<campaign, member, plan, address, reachable, stopped>>
EmergencyStop ==
  stopped' = ~stopped /\ UNCHANGED <<campaign, member, plan, address, reachable, mailbox>>
-----------------------------------------------------------------------------
CampaignsNext ==
  \/ \E c \in Campaign :
       \/ CreateCampaign(c) \/ LaunchCampaign(c) \/ PauseCampaign(c)
       \/ ResumeCampaign(c) \/ CancelCampaign(c) \/ EvaluateCampaign(c)
       \/ DeadlinePasses(c) \/ \E p \in Person : PlanMoves(c, p)
  \/ \E p \in Person : PersonChanges(p)
  \/ MailboxChanges \/ EmergencyStop

CampaignsSpec == CampaignsInit /\ [][CampaignsNext]_campaignVars

\* The poll takes the campaign that has waited longest and passes over one that
\* fails, and time goes on.
CampaignsFairness ==
  \A c \in Campaign : /\ WF_campaignVars(EvaluateCampaign(c))
                      /\ WF_campaignVars(DeadlinePasses(c))
-----------------------------------------------------------------------------
CampaignRow ==
  [status : {"draft", "active", "paused", "cancelled", "completed"},
   revision : 1..MaxRevision, mode : {"review", "delegated"},
   left : {"time", "less", "none"}]
MemberRow == [status : {"pending"} \cup HeldPlan \cup Settled,
              hash : Address \cup {NoAddress}]
PlanRow == [status : HeldPlan \cup {"ended"}, to : Address, granted : BOOLEAN]

CampaignsTypeOK ==
  /\ campaign \in [Campaign -> CampaignRow \cup {NoCampaign}]
  /\ member \in [Campaign -> [Person -> MemberRow]]
  /\ plan \in [Campaign -> [Person -> PlanRow \cup {NoPlan}]]
  /\ address \in [Person -> Address] /\ reachable \subseteq Person
  /\ mailbox \in BOOLEAN /\ stopped \in BOOLEAN

\* No address is in two campaigns' sequences at a time, running or held, however
\* audiences overlap, addresses change after the review and polls interleave
\* (campaigns.ts:83, :180).
OneSequencePerAddress ==
  \A c, d \in Campaign, p, q \in Person :
    /\ plan[c][p].status \in HeldPlan /\ plan[d][q].status \in HeldPlan
    /\ plan[c][p].to = plan[d][q].to
    => c = d /\ p = q

\* Sequences send by themselves only while the campaign is as the owner previewed it:
\* once it was paused nothing does, and neither does what is enrolled after the
\* resumption (campaigns.ts:149, :197).
AutomaticAsPreviewed ==
  \A c \in Campaign, p \in Person :
    plan[c][p].granted => campaign[c].revision = 2 /\ campaign[c].mode = "delegated"

\* No member of an active campaign waits forever, not behind one whose enrolment
\* fails every time: all are enrolled, skipped, or cancelled by the deadline, unless
\* the owner stops everything (campaigns.ts:176, :222).
EveryMemberSettles ==
  \A c \in Campaign :
    campaign[c].status = "active" ~>
      (campaign[c].status # "active" \/ Waiting(c) = {} \/ stopped)
=============================================================================
