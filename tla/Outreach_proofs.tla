--------------------------- MODULE Outreach_proofs ---------------------------
(* Theorems about Campaigns, InboundMail and SourceIntake for any          *)
(* campaigns, people, addresses, mails, conversations, records and calls   *)
(* in flight.                                                              *)
EXTENDS Campaigns, InboundMail, SourceIntake, FiniteSetTheorems, TLAPS

-----------------------------------------------------------------------------
(* Campaigns: types.                                                       *)

\* A plan or campaign that is there is a row.
LEMMA PlanThere ==
  ASSUME CampaignsTypeOK, NEW c \in Campaign, NEW p \in Person, plan[c][p] # NoPlan
  PROVE  plan[c][p] \in PlanRow
BY DEF CampaignsTypeOK

\* A plan that holds its address has been enrolled.
LEMMA HeldThere ==
  ASSUME CampaignsTypeOK, NEW c \in Campaign, NEW p \in Person,
         plan[c][p].status \in HeldPlan
  PROVE  plan[c][p] \in PlanRow
BY DEF CampaignsTypeOK, HeldPlan, NoPlan

\* A campaign with a status has been created.
LEMMA CampaignThere ==
  ASSUME CampaignsTypeOK, NEW c \in Campaign, campaign[c].status # "none"
  PROVE  campaign[c] \in CampaignRow
BY DEF CampaignsTypeOK, NoCampaign

\* The plans that a pause or a cancellation leaves.
LEMMA StoppedPlans ==
  ASSUME CampaignsTypeOK, NEW c \in Campaign, NEW s \in {"paused", "ended"},
         plan' = StopPlans(c, s)
  PROVE  /\ plan' \in [Campaign -> [Person -> PlanRow \cup {NoPlan}]]
         /\ \A d \in Campaign, p \in Person :
              /\ plan'[d][p].to = plan[d][p].to
              /\ plan'[d][p].status \in HeldPlan => plan[d][p].status \in HeldPlan
              /\ plan'[d][p].granted => d # c \/ plan[d][p].status \notin HeldPlan
              /\ d # c \/ plan[d][p].status \notin HeldPlan => plan'[d][p] = plan[d][p]
<1>1. ASSUME NEW p \in Person
      PROVE  LET new == IF plan[c][p].status \in HeldPlan
                        THEN [plan[c][p] EXCEPT !.status = s, !.granted = FALSE]
                        ELSE plan[c][p]
             IN  /\ new \in PlanRow \cup {NoPlan} /\ new.to = plan[c][p].to
                 /\ new.granted => plan[c][p].status \notin HeldPlan
  <2>1. CASE plan[c][p].status \in HeldPlan
    <3>1. plan[c][p] \in PlanRow
      BY <2>1, HeldThere
    <3> QED
      BY <2>1, <3>1 DEF PlanRow, HeldPlan
  <2>2. CASE plan[c][p].status \notin HeldPlan
    BY <2>2 DEF CampaignsTypeOK
  <2> QED
    BY <2>1, <2>2
<1>2. /\ \A p \in Person : plan'[c][p] =
           IF plan[c][p].status \in HeldPlan
           THEN [plan[c][p] EXCEPT !.status = s, !.granted = FALSE] ELSE plan[c][p]
      /\ \A d \in Campaign \ {c} : plan'[d] = plan[d]
      /\ plan' \in [Campaign -> [Person -> PlanRow \cup {NoPlan}]]
  BY <1>1 DEF StopPlans, CampaignsTypeOK
<1>3. ASSUME NEW d \in Campaign, NEW p \in Person
      PROVE  /\ plan'[d][p].to = plan[d][p].to
             /\ plan'[d][p].status \in HeldPlan => plan[d][p].status \in HeldPlan
             /\ plan'[d][p].granted => d # c \/ plan[d][p].status \notin HeldPlan
             /\ d # c \/ plan[d][p].status \notin HeldPlan => plan'[d][p] = plan[d][p]
  <2>1. CASE d # c
    BY <1>2, <2>1
  <2>2. CASE d = c
    BY <1>1, <1>2, <2>2
  <2> QED
    BY <2>1, <2>2
<1> QED
  BY <1>2, <1>3

\* What an evaluation enrols: fit members, no two with one address.
LEMMA JoinsAreFirst ==
  ASSUME CampaignsTypeOK, NEW c \in Campaign, NEW S \in SUBSET StillFit(c)
  PROVE  /\ FirstOf(S) \subseteq Person
         /\ \A p \in FirstOf(S) : plan[c][p] = NoPlan /\ ~Taken(address[p])
         /\ \A p, q \in FirstOf(S) : address[p] = address[q] => p = q
<1>1. S \subseteq Person /\ FirstOf(S) \subseteq S
  BY DEF StillFit, Considered, Waiting, FirstOf
<1>2. \A p \in S : plan[c][p] = NoPlan /\ ~Taken(address[p])
  BY DEF StillFit, Considered, Waiting, Fit
<1>3. ASSUME NEW p \in FirstOf(S), NEW q \in FirstOf(S), address[p] = address[q]
      PROVE  p = q
  <2>1. p \in Nat /\ q \in Nat
    BY <1>1, CampaignAssumption
  <2>2. ~(p < q) /\ ~(q < p)
    BY <1>3 DEF FirstOf
  <2> QED
    BY <2>1, <2>2
<1> QED
  BY <1>1, <1>2, <1>3

\* The whole effect of an evaluation on the plans.
LEMMA Evaluated ==
  ASSUME CampaignsTypeOK, NEW c \in Campaign, EvaluateCampaign(c)
  PROVE  \E joins \in SUBSET Person :
           /\ \A p \in joins : plan[c][p] = NoPlan /\ ~Taken(address[p])
           /\ \A p, q \in joins : address[p] = address[q] => p = q
           /\ plan' = [plan EXCEPT ![c] = [p \in Person |->
                IF p \in joins
                THEN [status |-> "live", to |-> address[p],
                      granted |-> campaign[c].mode = "delegated"]
                ELSE plan[c][p]]]
           /\ \A p \in Person : member'[c][p].hash = member[c][p].hash
           /\ member' \in [Campaign -> [Person -> MemberRow]]
<1>1. PICK again \in SUBSET {p \in StillFit(c) : \E d \in Campaign : plan[d][p] # NoPlan} :
        LET joins == IF TooLate(c) THEN {} ELSE FirstOf(StillFit(c) \ again) IN
        /\ plan' = [plan EXCEPT ![c] = [p \in Person |->
             IF p \in joins
             THEN [status |-> "live", to |-> address[p],
                   granted |-> campaign[c].mode = "delegated"]
             ELSE plan[c][p]]]
        /\ member' = [member EXCEPT ![c] = [p \in Person |->
             [member[c][p] EXCEPT !.status =
                IF plan[c][p] # NoPlan THEN plan[c][p].status
                ELSE IF p \in joins THEN "live"
                ELSE IF p \notin Considered(c) THEN @
                ELSE IF TooLate(c) THEN "cancelled" ELSE "skipped"]]]
  BY DEF EvaluateCampaign
<1> DEFINE joins == IF TooLate(c) THEN {} ELSE FirstOf(StillFit(c) \ again)
<1>2. /\ joins \in SUBSET Person
      /\ \A p \in joins : plan[c][p] = NoPlan /\ ~Taken(address[p])
      /\ \A p, q \in joins : address[p] = address[q] => p = q
  BY JoinsAreFirst
<1> HIDE DEF joins
<1>3. ASSUME NEW p \in Person
      PROVE  [member[c][p] EXCEPT !.status =
                IF plan[c][p] # NoPlan THEN plan[c][p].status
                ELSE IF p \in joins THEN "live"
                ELSE IF p \notin Considered(c) THEN @
                ELSE IF TooLate(c) THEN "cancelled" ELSE "skipped"] \in MemberRow
  <2>1. member[c][p] \in MemberRow
    BY DEF CampaignsTypeOK
  <2>2. plan[c][p] # NoPlan => plan[c][p].status \in HeldPlan \cup {"ended"}
    BY PlanThere DEF PlanRow
  <2> QED
    BY <2>1, <2>2 DEF MemberRow, HeldPlan, Settled
<1>4. /\ \A p \in Person : member'[c][p].hash = member[c][p].hash
      /\ member' \in [Campaign -> [Person -> MemberRow]]
  <2>1. member' = [member EXCEPT ![c] = [p \in Person |->
          [member[c][p] EXCEPT !.status =
             IF plan[c][p] # NoPlan THEN plan[c][p].status
             ELSE IF p \in joins THEN "live"
             ELSE IF p \notin Considered(c) THEN @
             ELSE IF TooLate(c) THEN "cancelled" ELSE "skipped"]]]
    BY <1>1 DEF joins
  <2> QED
    BY <1>3, <2>1 DEF CampaignsTypeOK, MemberRow
<1>5. plan' = [plan EXCEPT ![c] = [p \in Person |->
        IF p \in joins
        THEN [status |-> "live", to |-> address[p],
              granted |-> campaign[c].mode = "delegated"]
        ELSE plan[c][p]]]
  BY <1>1 DEF joins
<1> QED
  BY <1>2, <1>4, <1>5, Zenon

\* Evaluating a campaign leaves it active or completes it, and touches no other one.
LEMMA EvaluatedCampaign ==
  ASSUME CampaignsTypeOK, NEW c \in Campaign, EvaluateCampaign(c)
  PROVE  /\ campaign' \in [Campaign -> CampaignRow \cup {NoCampaign}]
         /\ campaign[c] \in CampaignRow /\ campaign[c].status = "active"
         /\ campaign'[c].status \in {"active", "completed"}
         /\ campaign'[c].revision = campaign[c].revision
         /\ campaign'[c].mode = campaign[c].mode
         /\ \A d \in Campaign \ {c} : campaign'[d] = campaign[d]
<1> DEFINE done == \A p \in Person : member'[c][p].status \in Settled
           status == IF done THEN "completed" ELSE campaign[c].status
<1>1. campaign[c] \in CampaignRow /\ campaign[c].status = "active"
  BY CampaignThere DEF EvaluateCampaign
<1>2. campaign' = [campaign EXCEPT ![c].status = status]
  BY DEF EvaluateCampaign
<1>3. status \in {"active", "completed"}
  BY <1>1
<1> HIDE DEF status
<1> QED
  BY <1>1, <1>2, <1>3 DEF CampaignsTypeOK, CampaignRow

\* A sequence that moves by itself keeps its address, and gains no grant.
LEMMA MovedPlan ==
  ASSUME CampaignsTypeOK, NEW c \in Campaign, NEW p \in Person, PlanMoves(c, p)
  PROVE  /\ plan' \in [Campaign -> [Person -> PlanRow \cup {NoPlan}]]
         /\ plan[c][p].status \in HeldPlan /\ plan'[c][p].to = plan[c][p].to
         /\ plan'[c][p].granted => plan'[c][p].status = "live" /\ plan[c][p].granted
         /\ \A d \in Campaign, q \in Person : d # c \/ q # p => plan'[d][q] = plan[d][q]
<1>1. PICK s \in {"live", "paused", "blocked", "ended"} :
        plan' = [plan EXCEPT ![c][p].status = s,
           ![c][p].granted = @ /\ s = "live" /\ plan[c][p].status = "live"]
  BY DEF PlanMoves
<1>2. plan[c][p] \in PlanRow /\ plan[c][p].status \in HeldPlan
  BY HeldThere DEF PlanMoves
<1> DEFINE grant == plan[c][p].granted /\ s = "live" /\ plan[c][p].status = "live"
           row == [plan[c][p] EXCEPT !.status = s, !.granted = grant]
<1>3. grant \in BOOLEAN /\ (grant => s = "live" /\ plan[c][p].granted)
  BY <1>2 DEF PlanRow
<1>4. plan' = [plan EXCEPT ![c][p] = row]
  BY <1>1, <1>2 DEF CampaignsTypeOK, PlanRow
<1> HIDE DEF grant
<1>5. row \in PlanRow /\ row.status = s /\ row.granted = grant /\ row.to = plan[c][p].to
  BY <1>2, <1>3 DEF PlanRow, HeldPlan
<1> HIDE DEF row
<1>6. /\ plan' \in [Campaign -> [Person -> PlanRow \cup {NoPlan}]]
      /\ plan'[c][p] = row
      /\ \A d \in Campaign, q \in Person : d # c \/ q # p => plan'[d][q] = plan[d][q]
  BY <1>4, <1>5 DEF CampaignsTypeOK
<1> QED
  BY <1>2, <1>3, <1>5, <1>6

\* The revision tells how far a campaign has come: it is launched once, as it was
\* drafted, and whatever its owner does afterwards puts it under review.
RevisionTells ==
  \A c \in Campaign :
    /\ campaign[c].status = "draft" => campaign[c].revision = 1
    /\ campaign[c].status = "active" /\ campaign[c].mode = "delegated"
         => campaign[c].revision = 2
    /\ campaign[c].status = "paused" => campaign[c].mode = "review"
CampaignsInv == CampaignsTypeOK /\ RevisionTells

\* The invariant of the campaigns holds initially.
LEMMA CampaignsInvInit == CampaignsInit => CampaignsInv
<1>1. CampaignsInit => CampaignsTypeOK
  <2>1. [status |-> "pending", hash |-> NoAddress] \in MemberRow
    BY DEF MemberRow
  <2>2. CampaignsInit => member \in [Campaign -> [Person -> MemberRow]]
    BY <2>1 DEF CampaignsInit
  <2>3. CampaignsInit => plan \in [Campaign -> [Person -> PlanRow \cup {NoPlan}]]
    BY DEF CampaignsInit
  <2>4. CampaignsInit => /\ campaign \in [Campaign -> CampaignRow \cup {NoCampaign}]
                         /\ address \in [Person -> Address] /\ reachable \subseteq Person
                         /\ mailbox \in BOOLEAN /\ stopped \in BOOLEAN
    BY DEF CampaignsInit
  <2> QED
    BY <2>2, <2>3, <2>4 DEF CampaignsTypeOK
<1>2. CampaignsInit => RevisionTells
  BY DEF CampaignsInit, RevisionTells, NoCampaign
<1> QED
  BY <1>1, <1>2 DEF CampaignsInv

\* Every step keeps the types of the campaigns.
LEMMA CampaignsTypeStep ==
  CampaignsInv /\ [CampaignsNext]_campaignVars => CampaignsTypeOK'
<1> SUFFICES ASSUME CampaignsTypeOK, RevisionTells, [CampaignsNext]_campaignVars
             PROVE  CampaignsTypeOK'
  BY DEF CampaignsInv
<1>0. 1 \in 1..MaxRevision /\ 1 + 1 \in 1..MaxRevision
  BY CampaignAssumption
<1> DEFINE RulesOK == /\ address' \in [Person -> Address] /\ reachable' \subseteq Person
                      /\ mailbox' \in BOOLEAN /\ stopped' \in BOOLEAN
           CampaignOK == campaign' \in [Campaign -> CampaignRow \cup {NoCampaign}]
           MemberOK == member' \in [Campaign -> [Person -> MemberRow]]
           PlanOK == plan' \in [Campaign -> [Person -> PlanRow \cup {NoPlan}]]
<1>1. UNCHANGED ruleVars => RulesOK
  BY DEF ruleVars, CampaignsTypeOK
<1>2. ASSUME NEW c \in Campaign, NEW s \in {"active", "paused", "cancelled"},
             campaign[c].status # "none", Controlled(c, s)
      PROVE  CampaignOK
  <2>1. campaign[c] \in CampaignRow
    BY <1>2, CampaignThere
  <2>2. campaign[c].revision + 1 \in 1..MaxRevision
    BY <1>2, <2>1, CampaignAssumption DEF Controlled, CampaignRow
  <2>3. [campaign[c] EXCEPT !.status = s, !.revision = @ + 1, !.mode = "review"]
          \in CampaignRow
    BY <2>1, <2>2 DEF CampaignRow
  <2>4. campaign' = [campaign EXCEPT ![c] =
          [campaign[c] EXCEPT !.status = s, !.revision = @ + 1, !.mode = "review"]]
    BY <1>2, <2>1 DEF Controlled, ModeAfterControl, CampaignsTypeOK, CampaignRow
  <2> QED
    BY <2>3, <2>4 DEF CampaignsTypeOK
<1>3. ASSUME NEW c \in Campaign, CreateCampaign(c) PROVE CampaignsTypeOK'
  <2>1. PICK mode \in {"review", "delegated"} : campaign' = [campaign EXCEPT ![c] =
          [NoCampaign EXCEPT !.status = "draft", !.revision = 1, !.mode = mode]]
    BY <1>3 DEF CreateCampaign
  <2>2. [NoCampaign EXCEPT !.status = "draft", !.revision = 1, !.mode = mode]
          \in CampaignRow
    <3>1. NoCampaign \in [status : {"none"}, revision : {0}, mode : {"review"},
                          left : {"time"}]
      BY DEF NoCampaign
    <3> QED
      BY <1>0, <3>1 DEF CampaignRow
  <2> QED
    BY <1>1, <1>3, <2>1, <2>2 DEF CreateCampaign, CampaignsTypeOK
<1>4. ASSUME NEW c \in Campaign, LaunchCampaign(c) PROVE CampaignsTypeOK'
  <2>1. campaign[c] \in CampaignRow /\ campaign[c].revision = 1
    BY <1>4, CampaignThere DEF LaunchCampaign, RevisionTells
  <2>2. [campaign[c] EXCEPT !.status = "active", !.revision = @ + 1] \in CampaignRow
    BY <1>0, <2>1 DEF CampaignRow
  <2>3. campaign' = [campaign EXCEPT ![c] =
          [campaign[c] EXCEPT !.status = "active", !.revision = @ + 1]]
    BY <1>4, <2>1 DEF LaunchCampaign, CampaignsTypeOK, CampaignRow
  <2>4. MemberOK
    <3>1. \A p \in Person : address[p] \in Address
      BY DEF CampaignsTypeOK
    <3>2. \A p \in Person :
            [status |-> IF p \in Audience THEN "pending" ELSE "skipped",
             hash |-> address[p]] \in MemberRow
      BY <3>1 DEF MemberRow, Settled
    <3> QED
      BY <1>4, <3>2 DEF LaunchCampaign, CampaignsTypeOK
  <2> QED
    BY <1>1, <1>4, <2>2, <2>3, <2>4 DEF LaunchCampaign, CampaignsTypeOK
<1>5. ASSUME NEW c \in Campaign, PauseCampaign(c) PROVE CampaignsTypeOK'
  <2>1. CampaignOK /\ PlanOK
    BY <1>2, <1>5, StoppedPlans DEF PauseCampaign
  <2> QED
    BY <1>1, <1>5, <2>1 DEF PauseCampaign, Controlled, CampaignsTypeOK
<1>6. ASSUME NEW c \in Campaign, ResumeCampaign(c) PROVE CampaignsTypeOK'
  <2>1. CampaignOK
    BY <1>2, <1>6 DEF ResumeCampaign
  <2> QED
    BY <1>1, <1>6, <2>1 DEF ResumeCampaign, Controlled, CampaignsTypeOK
<1>7. ASSUME NEW c \in Campaign, CancelCampaign(c) PROVE CampaignsTypeOK'
  <2>1. CampaignOK /\ PlanOK
    BY <1>2, <1>7, StoppedPlans DEF CancelCampaign
  <2>2. MemberOK
    BY <1>7 DEF CancelCampaign, CampaignsTypeOK, MemberRow, Settled
  <2> QED
    BY <1>1, <1>7, <2>1, <2>2 DEF CancelCampaign, Controlled, CampaignsTypeOK
<1>8. ASSUME NEW c \in Campaign, EvaluateCampaign(c) PROVE CampaignsTypeOK'
  <2>2. CampaignOK
    BY <1>8, EvaluatedCampaign
  <2>3. PICK joins \in SUBSET Person :
          /\ plan' = [plan EXCEPT ![c] = [p \in Person |->
               IF p \in joins
               THEN [status |-> "live", to |-> address[p],
                     granted |-> campaign[c].mode = "delegated"]
               ELSE plan[c][p]]]
          /\ MemberOK
    BY <1>8, Evaluated
  <2>4. ASSUME NEW p \in Person
        PROVE  [status |-> "live", to |-> address[p],
                granted |-> campaign[c].mode = "delegated"] \in PlanRow
    BY DEF PlanRow, HeldPlan, CampaignsTypeOK
  <2>5. PlanOK
    BY <2>3, <2>4 DEF CampaignsTypeOK
  <2> QED
    BY <1>1, <1>8, <2>2, <2>3, <2>5 DEF EvaluateCampaign, CampaignsTypeOK
<1>9. ASSUME NEW c \in Campaign, NEW p \in Person, PlanMoves(c, p) PROVE CampaignsTypeOK'
  BY <1>1, <1>9, MovedPlan DEF PlanMoves, CampaignsTypeOK
<1>10. ASSUME NEW c \in Campaign, DeadlinePasses(c) PROVE CampaignsTypeOK'
  <2>1. campaign[c] \in CampaignRow
    BY <1>10, CampaignThere DEF DeadlinePasses
  <2>2. CampaignOK
    BY <1>10, <2>1 DEF DeadlinePasses, CampaignsTypeOK, CampaignRow
  <2> QED
    BY <1>1, <1>10, <2>2 DEF DeadlinePasses, CampaignsTypeOK
<1>11. CASE \/ \E p \in Person : PersonChanges(p)
            \/ MailboxChanges \/ EmergencyStop \/ UNCHANGED campaignVars
  BY <1>11 DEF PersonChanges, MailboxChanges, EmergencyStop, campaignVars, ruleVars,
               CampaignsTypeOK
<1> QED
  BY <1>3, <1>4, <1>5, <1>6, <1>7, <1>8, <1>9, <1>10, <1>11 DEF CampaignsNext

\* Every step keeps that a campaign's revision tells whether it was launched or held since.
LEMMA RevisionStep ==
  CampaignsInv /\ [CampaignsNext]_campaignVars => RevisionTells'
<1> SUFFICES ASSUME CampaignsTypeOK, RevisionTells, [CampaignsNext]_campaignVars
             PROVE  RevisionTells'
  BY DEF CampaignsInv
<1>1. CASE UNCHANGED campaign
  BY <1>1 DEF RevisionTells
<1>2. ASSUME NEW c \in Campaign, NEW s \in {"active", "paused", "cancelled"},
             Controlled(c, s)
      PROVE  RevisionTells'
  BY <1>2 DEF Controlled, ModeAfterControl, RevisionTells, CampaignsTypeOK,
              CampaignRow, NoCampaign
<1>3. ASSUME NEW c \in Campaign, CreateCampaign(c) PROVE RevisionTells'
  BY <1>3 DEF CreateCampaign, NoCampaign, RevisionTells, CampaignsTypeOK
<1>4. ASSUME NEW c \in Campaign, LaunchCampaign(c) PROVE RevisionTells'
  <2>1. campaign[c] \in CampaignRow
    BY <1>4, CampaignThere DEF LaunchCampaign
  <2> QED
    BY <1>4, <2>1 DEF LaunchCampaign, RevisionTells, CampaignsTypeOK, CampaignRow
<1>5. ASSUME NEW c \in Campaign, EvaluateCampaign(c) PROVE RevisionTells'
  BY <1>5, EvaluatedCampaign DEF RevisionTells
<1>6. ASSUME NEW c \in Campaign, DeadlinePasses(c) PROVE RevisionTells'
  <2>1. campaign[c] \in CampaignRow
    BY <1>6, CampaignThere DEF DeadlinePasses
  <2>2. /\ campaign'[c].status = campaign[c].status
        /\ campaign'[c].revision = campaign[c].revision
        /\ campaign'[c].mode = campaign[c].mode
        /\ \A d \in Campaign \ {c} : campaign'[d] = campaign[d]
    BY <1>6, <2>1 DEF DeadlinePasses, CampaignsTypeOK, CampaignRow
  <2> QED
    BY <2>2 DEF RevisionTells
<1> QED
  BY <1>1, <1>2, <1>3, <1>4, <1>5, <1>6
  DEF CampaignsNext, PauseCampaign, ResumeCampaign, CancelCampaign, PlanMoves,
      PersonChanges, MailboxChanges, EmergencyStop, campaignVars

\* Every step keeps the invariant of the campaigns.
LEMMA CampaignsInvStep ==
  CampaignsInv /\ [CampaignsNext]_campaignVars => CampaignsInv'
BY CampaignsTypeStep, RevisionStep DEF CampaignsInv

\* Campaigns, members and sequences have their types (campaigns.ts).
THEOREM CampaignsTypeCorrect == CampaignsSpec => []CampaignsTypeOK
<1>1. CampaignsInv => CampaignsTypeOK
  BY DEF CampaignsInv
<1> QED
  BY <1>1, CampaignsInvInit, CampaignsInvStep, PTL DEF CampaignsSpec

-----------------------------------------------------------------------------
(* Campaigns: one sequence per address, and the grant.                     *)

\* No step gives an address a second sequence.
LEMMA OneSequenceStep ==
  CampaignsTypeOK /\ OneSequencePerAddress /\ [CampaignsNext]_campaignVars
  => OneSequencePerAddress'
<1> SUFFICES ASSUME CampaignsTypeOK, OneSequencePerAddress,
                    [CampaignsNext]_campaignVars
             PROVE  OneSequencePerAddress'
  OBVIOUS
\* No sequence begins, and each keeps its address.
<1>1. ASSUME \A c \in Campaign, p \in Person :
               /\ plan'[c][p].status \in HeldPlan => plan[c][p].status \in HeldPlan
               /\ plan'[c][p].to = plan[c][p].to
      PROVE  OneSequencePerAddress'
  BY <1>1 DEF OneSequencePerAddress
<1>2. CASE UNCHANGED plan
  BY <1>1, <1>2
<1>3. ASSUME NEW c \in Campaign, PauseCampaign(c) \/ CancelCampaign(c)
      PROVE  OneSequencePerAddress'
  BY <1>1, <1>3, StoppedPlans DEF PauseCampaign, CancelCampaign
<1>4. ASSUME NEW c \in Campaign, NEW p \in Person, PlanMoves(c, p)
      PROVE  OneSequencePerAddress'
  <2>1. /\ plan[c][p].status \in HeldPlan /\ plan'[c][p].to = plan[c][p].to
        /\ \A d \in Campaign, q \in Person : d # c \/ q # p => plan'[d][q] = plan[d][q]
    BY <1>4, MovedPlan
  <2> QED
    BY <1>1, <2>1
<1>5. ASSUME NEW c \in Campaign, EvaluateCampaign(c) PROVE OneSequencePerAddress'
  <2>1. PICK joins \in SUBSET Person :
          /\ \A p \in joins : plan[c][p] = NoPlan /\ ~Taken(address[p])
          /\ \A p, q \in joins : address[p] = address[q] => p = q
          /\ plan' = [plan EXCEPT ![c] = [p \in Person |->
               IF p \in joins
               THEN [status |-> "live", to |-> address[p],
                     granted |-> campaign[c].mode = "delegated"]
               ELSE plan[c][p]]]
    BY <1>5, Evaluated
  <2>2. /\ \A x \in joins : plan'[c][x].to = address[x]
        /\ \A b \in Campaign, x \in Person :
             b # c \/ x \notin joins => plan'[b][x] = plan[b][x]
    BY <2>1 DEF CampaignsTypeOK
  <2>a. /\ \A x \in joins : ~Taken(address[x])
        /\ \A x, y \in joins : address[x] = address[y] => x = y
    BY <2>1
  <2> SUFFICES ASSUME NEW d \in Campaign, NEW e \in Campaign,
                      NEW p \in Person, NEW q \in Person,
                      plan'[d][p].status \in HeldPlan, plan'[e][q].status \in HeldPlan,
                      plan'[d][p].to = plan'[e][q].to
               PROVE  d = e /\ p = q
    BY DEF OneSequencePerAddress
  <2>3. CASE (d = c /\ p \in joins) /\ (e = c /\ q \in joins)
    BY <2>a, <2>2, <2>3
  <2>4. CASE (d = c /\ p \in joins) /\ ~(e = c /\ q \in joins)
    BY <2>a, <2>2, <2>4 DEF Taken
  <2>5. CASE ~(d = c /\ p \in joins) /\ (e = c /\ q \in joins)
    BY <2>a, <2>2, <2>5 DEF Taken
  <2>6. CASE ~(d = c /\ p \in joins) /\ ~(e = c /\ q \in joins)
    BY <2>2, <2>6 DEF OneSequencePerAddress
  <2> QED
    BY <2>3, <2>4, <2>5, <2>6
<1> QED
  BY <1>2, <1>3, <1>4, <1>5
  DEF CampaignsNext, CreateCampaign, LaunchCampaign, ResumeCampaign, DeadlinePasses,
      PersonChanges, MailboxChanges, EmergencyStop, campaignVars

\* An address is in one sequence at a time, whatever audiences overlap and however the
\* polls of several campaigns and the owner's commands interleave
\* (campaigns.ts:83, :180).
THEOREM OneSequenceAnAddress == CampaignsSpec => []OneSequencePerAddress
<1> DEFINE Inv == CampaignsInv /\ OneSequencePerAddress
<1>1. CampaignsInit => Inv
  <2>1. CampaignsInit => OneSequencePerAddress
    BY DEF CampaignsInit, OneSequencePerAddress, NoPlan, HeldPlan
  <2> QED
    BY <2>1, CampaignsInvInit
<1>2. Inv /\ [CampaignsNext]_campaignVars => Inv'
  BY CampaignsInvStep, OneSequenceStep DEF CampaignsInv
<1> QED
  BY <1>1, <1>2, PTL DEF CampaignsSpec

\* A sequence with a grant runs, so that a pause or a cancellation finds it.
GrantedIsLive ==
  \A c \in Campaign, p \in Person : plan[c][p].granted => plan[c][p].status = "live"
GrantInv == CampaignsInv /\ GrantedIsLive /\ AutomaticAsPreviewed

\* Every step keeps that what runs unattended is live and as previewed.
LEMMA GrantStep == GrantInv /\ [CampaignsNext]_campaignVars => GrantInv'
<1> SUFFICES ASSUME CampaignsTypeOK, RevisionTells, GrantedIsLive, AutomaticAsPreviewed,
                    [CampaignsNext]_campaignVars
             PROVE  GrantedIsLive' /\ AutomaticAsPreviewed'
  BY CampaignsInvStep DEF GrantInv, CampaignsInv
<1>1. CASE UNCHANGED <<campaign, plan>>
  BY <1>1 DEF GrantedIsLive, AutomaticAsPreviewed
\* A campaign none of whose sequences has a grant may change as it likes.
<1>2. ASSUME NEW c \in Campaign, \A p \in Person : ~plan[c][p].granted,
             \A d \in Campaign \ {c} : campaign'[d] = campaign[d], UNCHANGED plan
      PROVE  GrantedIsLive' /\ AutomaticAsPreviewed'
  BY <1>2 DEF GrantedIsLive, AutomaticAsPreviewed
<1>3. ASSUME NEW c \in Campaign,
             CreateCampaign(c) \/ LaunchCampaign(c) \/ ResumeCampaign(c)
      PROVE  GrantedIsLive' /\ AutomaticAsPreviewed'
  <2>1. campaign[c].revision # 2 \/ campaign[c].mode # "delegated"
    BY <1>3 DEF CreateCampaign, LaunchCampaign, ResumeCampaign, NoCampaign, RevisionTells
  <2>2. UNCHANGED plan /\ \A d \in Campaign \ {c} : campaign'[d] = campaign[d]
    BY <1>3 DEF CreateCampaign, LaunchCampaign, ResumeCampaign, Controlled,
                CampaignsTypeOK
  <2> QED
    BY <1>2, <2>1, <2>2 DEF AutomaticAsPreviewed
<1>4. ASSUME NEW c \in Campaign, PauseCampaign(c) \/ CancelCampaign(c)
      PROVE  GrantedIsLive' /\ AutomaticAsPreviewed'
  <2>1. \A d \in Campaign, p \in Person :
          plan'[d][p].granted => d # c /\ plan'[d][p] = plan[d][p]
    <3> SUFFICES ASSUME NEW d \in Campaign, NEW p \in Person, plan'[d][p].granted
                 PROVE  d # c /\ plan'[d][p] = plan[d][p]
      OBVIOUS
    <3>1. d # c \/ plan[d][p].status \notin HeldPlan
      BY <1>4, StoppedPlans DEF PauseCampaign, CancelCampaign
    <3>2. plan'[d][p] = plan[d][p]
      BY <1>4, <3>1, StoppedPlans DEF PauseCampaign, CancelCampaign
    <3>3. plan[d][p].status \in HeldPlan
      BY <3>2 DEF GrantedIsLive, HeldPlan
    <3> QED
      BY <3>1, <3>2, <3>3
  <2>2. \A d \in Campaign \ {c} : campaign'[d] = campaign[d]
    BY <1>4 DEF PauseCampaign, CancelCampaign, Controlled, CampaignsTypeOK
  <2> QED
    BY <2>1, <2>2 DEF GrantedIsLive, AutomaticAsPreviewed
<1>5. ASSUME NEW c \in Campaign, EvaluateCampaign(c)
      PROVE  GrantedIsLive' /\ AutomaticAsPreviewed'
  <2>1. PICK joins \in SUBSET Person :
          plan' = [plan EXCEPT ![c] = [p \in Person |->
             IF p \in joins
             THEN [status |-> "live", to |-> address[p],
                   granted |-> campaign[c].mode = "delegated"]
             ELSE plan[c][p]]]
    BY <1>5, Evaluated
  <2>2. /\ campaign[c].status = "active"
        /\ campaign'[c].revision = campaign[c].revision
        /\ campaign'[c].mode = campaign[c].mode
        /\ \A d \in Campaign \ {c} : campaign'[d] = campaign[d]
    BY <1>5, EvaluatedCampaign
  <2>4. /\ \A p \in joins :
             /\ plan'[c][p].status = "live"
             /\ plan'[c][p].granted => campaign[c].mode = "delegated"
        /\ \A d \in Campaign, p \in Person :
             d # c \/ p \notin joins => plan'[d][p] = plan[d][p]
    BY <2>1 DEF CampaignsTypeOK
  <2>5. campaign[c].mode = "delegated" => campaign[c].revision = 2
    BY <2>2 DEF RevisionTells
  <2> QED
    BY <2>2, <2>4, <2>5 DEF GrantedIsLive, AutomaticAsPreviewed
<1>6. ASSUME NEW c \in Campaign, NEW p \in Person, PlanMoves(c, p)
      PROVE  GrantedIsLive' /\ AutomaticAsPreviewed'
  <2>1. /\ plan'[c][p].granted => plan'[c][p].status = "live" /\ plan[c][p].granted
        /\ \A d \in Campaign, q \in Person : d # c \/ q # p => plan'[d][q] = plan[d][q]
        /\ UNCHANGED campaign
    BY <1>6, MovedPlan DEF PlanMoves
  <2> SUFFICES ASSUME NEW d \in Campaign, NEW q \in Person, plan'[d][q].granted
               PROVE  /\ plan'[d][q].status = "live"
                      /\ campaign[d].revision = 2 /\ campaign[d].mode = "delegated"
    BY <2>1 DEF GrantedIsLive, AutomaticAsPreviewed
  <2> QED
    BY <2>1 DEF GrantedIsLive, AutomaticAsPreviewed
<1>7. ASSUME NEW c \in Campaign, DeadlinePasses(c)
      PROVE  GrantedIsLive' /\ AutomaticAsPreviewed'
  <2>1. campaign[c] \in CampaignRow
    BY <1>7, CampaignThere DEF DeadlinePasses
  <2>2. /\ campaign'[c].revision = campaign[c].revision
        /\ campaign'[c].mode = campaign[c].mode
        /\ \A d \in Campaign \ {c} : campaign'[d] = campaign[d]
        /\ UNCHANGED plan
    BY <1>7, <2>1 DEF DeadlinePasses, CampaignsTypeOK, CampaignRow
  <2> QED
    BY <2>2 DEF GrantedIsLive, AutomaticAsPreviewed
<1> QED
  BY <1>1, <1>3, <1>4, <1>5, <1>6, <1>7
  DEF CampaignsNext, PersonChanges, MailboxChanges, EmergencyStop, campaignVars

\* What sends by itself belongs to a campaign that is still as its owner previewed it,
\* never to one that was paused, resumed or cancelled (campaigns.ts:149, :197).
THEOREM GrantsAreAsPreviewed == CampaignsSpec => []AutomaticAsPreviewed
<1>1. CampaignsInit => GrantInv
  <2>1. CampaignsInit => GrantedIsLive /\ AutomaticAsPreviewed
    BY DEF CampaignsInit, GrantedIsLive, AutomaticAsPreviewed, NoPlan
  <2> QED
    BY <2>1, CampaignsInvInit DEF GrantInv
<1>2. GrantInv => AutomaticAsPreviewed
  BY DEF GrantInv
<1> QED
  BY <1>1, <1>2, GrantStep, PTL DEF CampaignsSpec

-----------------------------------------------------------------------------
(* Inbound mail: types, and that a call files in a conversation.           *)

Message == [mail : Mail, in : Conversation, identified : BOOLEAN, verbatim : BOOLEAN,
            revision : Nat, queued : BOOLEAN]
MailTypeOK ==
  /\ inbox \subseteq Message
  /\ cursor \in [Conversation -> Nat]
  /\ \A m \in Mail : mail[m].to \subseteq Conversation /\ mail[m].refs \subseteq Conversation
  /\ mail \in [Mail -> [arrived : BOOLEAN, to : SUBSET Conversation,
                        refs : SUBSET Conversation]]
  /\ line \in [Mail -> [Line -> [in : Conversation] \cup {OnHook}]]

\* Every way to route a mail looks among the conversations.
LEMMA FoundIsConversation ==
  ASSUME MailTypeOK, NEW m \in Mail
  PROVE  /\ Found(m) \subseteq Conversation
         /\ \A found \in FoundByThread(m) : found \subseteq Conversation
<1>1. OfItself(m) \subseteq Conversation
  BY DEF OfItself, Filed, MailTypeOK, Message
<1>2. /\ Recorded(mail[m].to) \subseteq Conversation
      /\ Recorded(mail[m].refs) \subseteq Conversation
  BY DEF Recorded, MailTypeOK
<1>3. /\ BySender(m) \subseteq Conversation
      /\ Mentioned(m, {"open", "reply_received"}) \subseteq Conversation
  BY DEF BySender, Partnered, Mentioned
<1> QED
  BY <1>1, <1>2, <1>3 DEF Found, FoundByThread

\* Routing a mail sends it to a conversation or leaves it with its line.
LEMMA RoutedType ==
  ASSUME MailTypeOK, NEW m \in Mail, NEW l \in Line, NEW found \in SUBSET Conversation,
         Routed(m, l, found)
  PROVE  line' \in [Mail -> [Line -> [in : Conversation] \cup {OnHook}]]
<1>1. CASE Cardinality(found) = 1
  <2>1. found # {}
    BY <1>1, FS_EmptySet
  <2>2. (CHOOSE c \in found : TRUE) \in Conversation
    BY <2>1
  <2> DEFINE c == CHOOSE c \in found : TRUE
  <2>3. line' = [line EXCEPT ![m][l] = [in |-> c]]
    BY <1>1 DEF Routed
  <2> HIDE DEF c
  <2>4. [in |-> c] \in [in : Conversation]
    BY <2>2 DEF c
  <2> QED
    BY <2>3, <2>4 DEF MailTypeOK
<1>2. CASE Cardinality(found) # 1
  BY <1>2 DEF Routed, MailTypeOK
<1> QED
  BY <1>1, <1>2

\* One more message with the next number.
LEMMA FiledType ==
  ASSUME MailTypeOK, NEW m \in Mail, NEW c \in Conversation,
         NEW identified \in BOOLEAN, NEW verbatim \in BOOLEAN,
         File(m, c, identified, verbatim)
  PROVE  inbox' \subseteq Message /\ cursor' \in [Conversation -> Nat]
<1> DEFINE queued == ~Blocked(m, c)
           new == [mail |-> m, in |-> c, identified |-> identified,
                   verbatim |-> verbatim, revision |-> cursor[c] + 1, queued |-> queued]
<1>1. queued \in BOOLEAN /\ cursor[c] + 1 \in Nat
  BY DEF MailTypeOK
<1>2. inbox' = inbox \cup {new} /\ cursor' = [cursor EXCEPT ![c] = @ + 1]
  BY DEF File
<1> HIDE DEF queued
<1>3. new \in Message
  BY <1>1 DEF Message
<1> QED
  BY <1>1, <1>2, <1>3 DEF MailTypeOK

\* The initial states of the inbox are well typed.
LEMMA MailTypeInit == MailInit => MailTypeOK
BY DEF MailInit, MailTypeOK, NotArrived

\* Every step of the inbox keeps its types.
LEMMA MailTypeStep == MailTypeOK /\ [MailNext]_mailVars => MailTypeOK'
<1> SUFFICES ASSUME MailTypeOK, [MailNext]_mailVars PROVE MailTypeOK'
  OBVIOUS
<1>1. ASSUME NEW c \in Conversation, Send(c) PROVE MailTypeOK'
  BY <1>1 DEF Send, bookVars, MailTypeOK
<1>2. ASSUME NEW m \in Mail, NEW c \in Conversation, RecordByHand(m, c)
      PROVE  MailTypeOK'
  <2>1. inbox' \subseteq Message /\ cursor' \in [Conversation -> Nat]
    BY <1>2, FiledType DEF RecordByHand
  <2> QED
    BY <1>2, <2>1 DEF RecordByHand, worldVars, MailTypeOK
<1>3. ASSUME NEW m \in Mail, Arrive(m) PROVE MailTypeOK'
  <2>1. PICK refs \in SUBSET Conversation, to \in SUBSET Conversation :
          mail' = [mail EXCEPT ![m] = [arrived |-> TRUE, to |-> to, refs |-> refs]]
    BY <1>3 DEF Arrive
  <2>2. /\ mail' \in [Mail -> [arrived : BOOLEAN, to : SUBSET Conversation,
                               refs : SUBSET Conversation]]
        /\ \A n \in Mail :
             mail'[n].to \subseteq Conversation /\ mail'[n].refs \subseteq Conversation
    BY <2>1 DEF MailTypeOK
  <2> QED
    BY <1>3, <2>2 DEF Arrive, bookVars, MailTypeOK
<1>4. ASSUME NEW m \in Mail, NEW l \in Line, Route(m, l) PROVE MailTypeOK'
  <2>1. PICK found \in SUBSET Conversation : Routed(m, l, found)
    BY <1>4, FoundIsConversation DEF Route
  <2> QED
    BY <1>4, <2>1, RoutedType DEF Route, worldVars, bookVars, MailTypeOK
<1>5. ASSUME NEW m \in Mail, NEW l \in Line, ReceiveReply(m, l) PROVE MailTypeOK'
  <2>1. line[m][l].in \in Conversation
    BY <1>5 DEF ReceiveReply, MailTypeOK
  <2>2. inbox' \subseteq Message /\ cursor' \in [Conversation -> Nat]
    <3>1. PICK verbatim \in BOOLEAN :
            UNCHANGED bookVars \/ File(m, line[m][l].in, TRUE, verbatim)
      BY <1>5 DEF ReceiveReply
    <3> QED
      BY <2>1, <3>1, FiledType DEF bookVars, MailTypeOK
  <2>3. line' \in [Mail -> [Line -> [in : Conversation] \cup {OnHook}]]
    BY <1>5 DEF ReceiveReply, MailTypeOK
  <2> QED
    BY <1>5, <2>2, <2>3 DEF ReceiveReply, worldVars, MailTypeOK
<1>6. ASSUME NEW m \in Mail, NEW l \in Line, Die(m, l) PROVE MailTypeOK'
  BY <1>6 DEF Die, worldVars, bookVars, MailTypeOK
<1>7. CASE UNCHANGED mailVars
  BY <1>7 DEF mailVars, worldVars, bookVars, MailTypeOK
<1> QED
  BY <1>1, <1>2, <1>3, <1>4, <1>5, <1>6, <1>7 DEF MailNext

-----------------------------------------------------------------------------
(* Inbound mail: a mail is one message, and each message has a number.     *)

OneMessage ==
  \A r, s \in inbox : r.mail = s.mail /\ r.identified /\ s.identified => r = s
Numbered ==
  \A c \in Conversation : {r.revision : r \in {s \in inbox : s.in = c}} = 1..cursor[c]

\* One numbered message per mail is what counting once means.
LEMMA OneMessageMeans == MailTypeOK /\ OneMessage /\ Numbered => MailCountsOnce
<1> SUFFICES ASSUME MailTypeOK, OneMessage, Numbered, NEW m \in Mail
             PROVE  Cardinality(Filed(m)) <= 1
  BY DEF MailCountsOnce, Numbered
<1>1. CASE Filed(m) = {}
  BY <1>1, FS_EmptySet
<1>2. CASE Filed(m) # {}
  <2>1. PICK r \in Filed(m) : TRUE
    BY <1>2
  <2>2. Filed(m) = {r}
    BY <2>1 DEF Filed, OneMessage
  <2>3. Cardinality({r}) = 1
    BY FS_Singleton
  <2> QED
    BY <2>2, <2>3
<1> QED
  BY <1>1, <1>2

\* A mail that is filed when it is not there yet keeps both.
LEMMA FiledOnce ==
  ASSUME MailTypeOK, OneMessage, Numbered, NEW m \in Mail, NEW c \in Conversation,
         NEW identified \in BOOLEAN, NEW verbatim \in BOOLEAN,
         identified => Filed(m) = {}, File(m, c, identified, verbatim)
  PROVE  OneMessage' /\ Numbered'
<1> DEFINE queued == ~Blocked(m, c)
           new == [mail |-> m, in |-> c, identified |-> identified,
                   verbatim |-> verbatim, revision |-> cursor[c] + 1, queued |-> queued]
<1>1. inbox' = inbox \cup {new} /\ cursor' = [cursor EXCEPT ![c] = @ + 1]
  BY DEF File
<1>2. /\ new.mail = m /\ new.in = c /\ new.revision = cursor[c] + 1
      /\ new.identified <=> identified
  OBVIOUS
<1> HIDE DEF new
<1>3. OneMessage'
  <2> SUFFICES ASSUME NEW r \in inbox \cup {new}, NEW s \in inbox \cup {new},
                      r.mail = s.mail, r.identified, s.identified
               PROVE  r = s
    BY <1>1 DEF OneMessage
  <2>1. ASSUME NEW t \in inbox, t.mail = m, t.identified, identified PROVE FALSE
    BY <2>1 DEF Filed
  <2> QED
    BY <1>2, <2>1 DEF OneMessage
<1>4. Numbered'
  <2> SUFFICES ASSUME NEW d \in Conversation
               PROVE  {r.revision : r \in {s \in inbox' : s.in = d}} = 1..cursor'[d]
    BY DEF Numbered
  <2>1. cursor[c] \in Nat
    BY DEF MailTypeOK
  <2>2. CASE d = c
    <3>1. {r.revision : r \in {s \in inbox' : s.in = c}} =
            {r.revision : r \in {s \in inbox : s.in = c}} \cup {cursor[c] + 1}
      BY <1>1, <1>2
    <3>2. cursor'[c] = cursor[c] + 1
      BY <1>1 DEF MailTypeOK
    <3>3. (1..cursor[c]) \cup {cursor[c] + 1} = 1..(cursor[c] + 1)
      BY <2>1
    <3> QED
      BY <2>2, <3>1, <3>2, <3>3 DEF Numbered
  <2>3. CASE d # c
    <3>1. {s \in inbox' : s.in = d} = {s \in inbox : s.in = d}
      BY <1>1, <1>2, <2>3
    <3>2. cursor'[d] = cursor[d]
      BY <1>1, <2>3 DEF MailTypeOK
    <3> QED
      BY <3>1, <3>2 DEF Numbered
  <2> QED
    BY <2>2, <2>3
<1> QED
  BY <1>3, <1>4

MailInv == MailTypeOK /\ OneMessage /\ Numbered

\* Every step keeps that a mail has one message and messages are numbered.
LEMMA MailStep == MailInv /\ [MailNext]_mailVars => MailInv'
<1> SUFFICES ASSUME MailTypeOK, OneMessage, Numbered, [MailNext]_mailVars
             PROVE  OneMessage' /\ Numbered'
  BY MailTypeStep DEF MailInv
<1>1. CASE UNCHANGED <<inbox, cursor>>
  BY <1>1 DEF OneMessage, Numbered
<1>2. ASSUME NEW m \in Mail, NEW c \in Conversation, RecordByHand(m, c)
      PROVE  OneMessage' /\ Numbered'
  <2>1. Filed(m) = {}
    BY <1>2 DEF RecordByHand, Filed
  <2> QED
    BY <1>2, <2>1, FiledOnce DEF RecordByHand
<1>3. ASSUME NEW m \in Mail, NEW l \in Line, ReceiveReply(m, l)
      PROVE  OneMessage' /\ Numbered'
  <2>1. PICK verbatim \in BOOLEAN :
          IF Already(m, line[m][l].in) THEN UNCHANGED bookVars
          ELSE File(m, line[m][l].in, TRUE, verbatim)
    BY <1>3 DEF ReceiveReply
  <2>2. CASE Already(m, line[m][l].in)
    BY <1>1, <2>1, <2>2 DEF bookVars
  <2>3. CASE ~Already(m, line[m][l].in)
    <3>1. line[m][l].in \in Conversation
      BY <1>3 DEF ReceiveReply, MailTypeOK
    <3>2. Filed(m) = {}
      BY <2>3 DEF Already
    <3>3. File(m, line[m][l].in, TRUE, verbatim)
      BY <2>1, <2>3
    <3> QED
      BY <3>1, <3>2, <3>3, FiledOnce
  <2> QED
    BY <2>2, <2>3
<1> QED
  BY <1>1, <1>2, <1>3
  DEF MailNext, Send, Arrive, Route, Die, mailVars, bookVars

\* A mail is one message under its provider id, and a conversation counts each message
\* once, though it is reported again and again, by two ways, and recorded by hand
\* while a call is about to file it (replyTriage.ts:88, hostingerWebhook.ts:123).
THEOREM MailIsCountedOnce == MailSpec => []MailCountsOnce
<1>1. MailInit => MailInv
  <2>1. MailInit => OneMessage /\ Numbered
    BY DEF MailInit, OneMessage, Numbered
  <2> QED
    BY <2>1, MailTypeInit DEF MailInv
<1>2. MailInv => MailCountsOnce
  BY OneMessageMeans DEF MailInv
<1> QED
  BY <1>1, <1>2, MailStep, PTL DEF MailSpec
-----------------------------------------------------------------------------
(* SourceIntake: what the import of a batch comes to.                      *)

ImportsBy(it, b, c) ==
  it = [s \in SUBSET DOMAIN c |->
          IF s = {} THEN b ELSE Import(it[s \ {Max(s)}], c[Max(s)])]

\* A batch is imported record by record, from its end backwards to the book as it was.
LEMMA AfterUnfolds ==
  ASSUME NEW c PROVE After(c) = (CHOOSE it : ImportsBy(it, book, c))[DOMAIN c]
BY DEF After, FoldLeft, MapThenFoldSet, ImportsBy

\* A number alone is the largest.
LEMMA MaxOne == ASSUME NEW n \in Int PROVE Max({n}) = n
BY DEF Max

\* So is two the largest of one and two.
LEMMA MaxTwo == Max({1, 2}) = 2
BY DEF Max

\* A batch of one record is that record's import.
LEMMA AfterOne == ASSUME NEW r PROVE After(<<r>>) = Import(book, r)
<1> DEFINE c == <<r>>
           g == [s \in SUBSET {1} |-> IF s = {} THEN book ELSE Import(book, r)]
           it == CHOOSE it : ImportsBy(it, book, c)
<1>1. DOMAIN c = {1} /\ c[1] = r
  OBVIOUS
<1>2. \A s \in SUBSET {1} : s = {} \/ s = {1}
  OBVIOUS
<1>3. Max({1}) = 1
  BY MaxOne
<1>4. ImportsBy(g, book, c)
  <2>1. \A s \in SUBSET {1} :
          g[s] = IF s = {} THEN book ELSE Import(g[s \ {Max(s)}], c[Max(s)])
    <3> TAKE s \in SUBSET {1}
    <3>1. CASE s = {}
      BY <3>1
    <3>2. CASE s = {1}
      <4>1. s \ {Max(s)} = {}
        BY <1>3, <3>2
      <4> QED
        BY <1>1, <1>3, <3>2, <4>1
    <3> QED
      BY <1>2, <3>1, <3>2
  <2> QED
    BY <1>1, <2>1 DEF ImportsBy
<1>5. ImportsBy(it, book, c)
  <2> HIDE DEF g, c
  <2> QED
    BY <1>4
<1> HIDE DEF it
<1>6. it[{}] = book
  BY <1>1, <1>5 DEF ImportsBy
<1>7. it[{1}] = Import(it[{1} \ {1}], r)
  BY <1>1, <1>3, <1>5 DEF ImportsBy
<1>8. {1} \ {1} = {}
  OBVIOUS
<1>9. After(c) = it[{1}]
  BY <1>1, AfterUnfolds DEF it
<1> QED
  BY <1>6, <1>7, <1>8, <1>9

\* A batch of two is the second's import into what the first's left.
LEMMA AfterTwo ==
  ASSUME NEW q, NEW r PROVE After(<<q, r>>) = Import(Import(book, q), r)
<1> DEFINE c == <<q, r>>
           g == [s \in SUBSET {1, 2} |->
                   IF s = {} THEN book
                   ELSE IF s = {1} THEN Import(book, q)
                   ELSE IF s = {2} THEN Import(book, r)
                   ELSE Import(Import(book, q), r)]
           it == CHOOSE it : ImportsBy(it, book, c)
<1>1. DOMAIN c = {1, 2} /\ c[1] = q /\ c[2] = r
  OBVIOUS
<1>2. \A s \in SUBSET {1, 2} : s = {} \/ s = {1} \/ s = {2} \/ s = {1, 2}
  OBVIOUS
<1>3. Max({1}) = 1 /\ Max({2}) = 2 /\ Max({1, 2}) = 2
  BY MaxOne, MaxTwo
<1>4. {1} \ {1} = {} /\ {2} \ {2} = {} /\ {1, 2} \ {2} = {1}
  OBVIOUS
<1>5. ImportsBy(g, book, c)
  <2>1. \A s \in SUBSET {1, 2} :
          g[s] = IF s = {} THEN book ELSE Import(g[s \ {Max(s)}], c[Max(s)])
    <3> TAKE s \in SUBSET {1, 2}
    <3>0. /\ g[{}] = book /\ g[{1}] = Import(book, q) /\ g[{2}] = Import(book, r)
          /\ g[{1, 2}] = Import(Import(book, q), r)
      <4>1. {1} # {2} /\ {1, 2} # {1} /\ {1, 2} # {2} /\ {1} # {} /\ {2} # {} /\ {1, 2} # {}
        OBVIOUS
      <4>2. {} \in SUBSET {1, 2} /\ {1} \in SUBSET {1, 2} /\ {2} \in SUBSET {1, 2}
            /\ {1, 2} \in SUBSET {1, 2}
        OBVIOUS
      <4> QED
        BY <4>1, <4>2
    <3> HIDE DEF g
    <3>1. CASE s = {}
      BY <3>0, <3>1
    <3>2. CASE s = {1}
      BY <1>1, <1>3, <1>4, <3>0, <3>2
    <3>3. CASE s = {2}
      BY <1>1, <1>3, <1>4, <3>0, <3>3
    <3>4. CASE s = {1, 2}
      BY <1>1, <1>3, <1>4, <3>0, <3>4
    <3> QED
      BY <1>2, <3>1, <3>2, <3>3, <3>4
  <2> QED
    BY <1>1, <2>1 DEF ImportsBy
<1>6. ImportsBy(it, book, c)
  <2> HIDE DEF g, c
  <2> QED
    BY <1>5
<1> HIDE DEF it
<1>7. it[{}] = book
  BY <1>1, <1>6 DEF ImportsBy
<1>8. it[{1}] = Import(it[{1} \ {1}], q)
  BY <1>1, <1>3, <1>6 DEF ImportsBy
<1>9. it[{1, 2}] = Import(it[{1, 2} \ {2}], r)
  BY <1>1, <1>3, <1>6 DEF ImportsBy
<1>10. After(c) = it[{1, 2}]
  BY <1>1, AfterUnfolds DEF it
<1> QED
  BY <1>4, <1>7, <1>8, <1>9, <1>10

-----------------------------------------------------------------------------
(* SourceIntake: one profile per identity.                                 *)

AnyRecord == [key : RecordKey, of : Domain \cup {Unknown}, email : Email \cup {Unknown},
              phone : Phone \cup {Unknown}]
AnyContent == {<<r>> : r \in AnyRecord} \cup (AnyRecord \X AnyRecord)
Profile == [of : Domain \cup {Unknown}, email : Email \cup {Unknown},
            phone : Phone \cup {Unknown}, out : BOOLEAN]
Book == [rows : Seq(Profile), company : SUBSET Domain, seen : SUBSET AnyRecord]

\* No two of these profiles share an address or a number.
Apart(rows) ==
  \A i, j \in DOMAIN rows :
    i # j => ~Same(rows[i].email, rows[j].email) /\ ~Same(rows[i].phone, rows[j].phone)

\* The source, the book, and what is in flight have their types.
IntakeTypeOK ==
  /\ source \in [kind : {"none", "candidate", "prospect"}, enabled : BOOLEAN,
                 revision : Nat, token : Nat]
  /\ source.kind = "none" => source = NoSource
  /\ book \in Book
  /\ batches \subseteq BatchKey /\ recent \in Nat
  /\ barred \subseteq Email \cup Phone
  /\ call \in [Delivery -> [token : Nat, key : BatchKey, content : AnyContent] \cup {NoCall}]
  /\ \/ review = NoReview
     \/ /\ review.key \in BatchKey /\ review.content \in AnyContent

\* A record becomes a profile only where it shares no identity with one.
LEMMA AdoptKeeps ==
  ASSUME NEW b \in Book, Apart(b.rows), NEW r \in AnyRecord
  PROVE  Adopt(b, r) \in Book /\ Apart(Adopt(b, r).rows)
<1> DEFINE p == [of |-> r.of, email |-> r.email, phone |-> r.phone, out |-> FALSE]
           firms == b.company \cup ({r.of} \ {Unknown})
<1>1. p \in Profile /\ firms \subseteq Domain
  BY DEF Profile, AnyRecord, Book
<1>2. b.rows \in Seq(Profile)
  BY DEF Book
<1>3. CASE {r.email, r.phone} # {Unknown} /\ Evidence(b, r) = {}
  <2>1. Adopt(b, r) = [b EXCEPT !.company = firms, !.rows = Append(b.rows, p)]
    BY <1>3 DEF Adopt, Book
  <2>2. Append(b.rows, p) \in Seq(Profile)
    BY <1>1, <1>2
  <2>3. Adopt(b, r) \in Book /\ Adopt(b, r).rows = Append(b.rows, p)
    BY <1>1, <2>1, <2>2 DEF Book
  <2>4. \A i \in DOMAIN b.rows :
          ~Same(r.email, b.rows[i].email) /\ ~Same(r.phone, b.rows[i].phone)
    BY <1>3 DEF Evidence
  <2>5. /\ DOMAIN Append(b.rows, p) = DOMAIN b.rows \cup {Len(b.rows) + 1}
        /\ \A i \in DOMAIN b.rows : Append(b.rows, p)[i] = b.rows[i]
        /\ Append(b.rows, p)[Len(b.rows) + 1] = p
    BY <1>1, <1>2
  <2>6. Apart(Append(b.rows, p))
    <3> DEFINE q == Append(b.rows, p)
               n == Len(b.rows) + 1
    <3> SUFFICES ASSUME NEW i \in DOMAIN q, NEW j \in DOMAIN q, i # j
                 PROVE  /\ ~Same(q[i].email, q[j].email)
                        /\ ~Same(q[i].phone, q[j].phone)
      BY DEF Apart
    <3>1. CASE i \in DOMAIN b.rows /\ j \in DOMAIN b.rows
      BY <2>5, <3>1 DEF Apart
    <3>2. CASE i = n
      <4>1. j \in DOMAIN b.rows /\ q[j] = b.rows[j] /\ q[i] = p
        BY <2>5, <3>2
      <4> QED
        BY <2>4, <4>1
    <3>3. CASE j = n
      <4>1. i \in DOMAIN b.rows /\ q[i] = b.rows[i] /\ q[j] = p
        BY <2>5, <3>3
      <4> QED
        BY <2>4, <4>1 DEF Same
    <3> QED
      BY <2>5, <3>1, <3>2, <3>3
  <2> QED
    BY <2>3, <2>6
<1>4. CASE ~({r.email, r.phone} # {Unknown} /\ Evidence(b, r) = {})
  <2>1. Adopt(b, r) = [b EXCEPT !.company = firms, !.rows = b.rows]
    BY <1>4 DEF Adopt, Book
  <2>2. Adopt(b, r) \in Book /\ Adopt(b, r).rows = b.rows
    BY <1>1, <1>2, <2>1 DEF Book
  <2> QED
    BY <2>2
<1> QED
  BY <1>3, <1>4

\* So does its import, whatever is refused.
LEMMA ImportKeeps ==
  ASSUME NEW b \in Book, Apart(b.rows), NEW r \in AnyRecord
  PROVE  Import(b, r) \in Book /\ Apart(Import(b, r).rows)
<1> DEFINE a == Adopt(b, r)
<1>1. a \in Book /\ Apart(a.rows)
  BY AdoptKeeps
<1>2. Import(b, r) = b \/ Import(b, r) = [a EXCEPT !.seen = a.seen \cup {r}]
  BY DEF Import
<1> HIDE DEF a
<1>3. [a EXCEPT !.seen = a.seen \cup {r}] \in Book
  BY <1>1 DEF Book
<1>4. [a EXCEPT !.seen = a.seen \cup {r}].rows = a.rows
  BY <1>1 DEF Book
<1> QED
  BY <1>1, <1>2, <1>3, <1>4

\* And so a batch's.
LEMMA AfterKeeps ==
  ASSUME book \in Book, Apart(book.rows), NEW c \in AnyContent
  PROVE  After(c) \in Book /\ Apart(After(c).rows)
<1>1. CASE \E r \in AnyRecord : c = <<r>>
  <2>1. PICK r \in AnyRecord : c = <<r>>
    BY <1>1
  <2> QED
    BY <2>1, AfterOne, ImportKeeps
<1>2. CASE c \in AnyRecord \X AnyRecord
  <2>1. PICK q \in AnyRecord, r \in AnyRecord : c = <<q, r>>
    BY <1>2
  <2>2. Import(book, q) \in Book /\ Apart(Import(book, q).rows)
    BY ImportKeeps
  <2>3. /\ Import(Import(book, q), r) \in Book
        /\ Apart(Import(Import(book, q), r).rows)
    BY <2>2, ImportKeeps
  <2> QED
    BY <2>1, <2>3, AfterTwo
<1> QED
  BY <1>1, <1>2 DEF AnyContent

\* What a source of either kind may send.
LEMMA ContentIs ==
  ASSUME NEW kind \in {"candidate", "prospect"}, NEW c \in Contents[kind]
  PROVE  c \in AnyContent
<1>1. Records[kind] \subseteq AnyRecord
  BY DEF Records, People, Companies, AnyRecord
<1>2. c \in {<<r>> : r \in Records[kind]} \/ c \in Records[kind] \X Records[kind]
  <2>1. kind \in DOMAIN Records
    BY DEF Records
  <2> QED
    BY <2>1 DEF Contents
<1> QED
  BY <1>1, <1>2 DEF AnyContent

\* What the owner may enter by hand.
LEMMA ByHandIs ==
  ASSUME NEW kind \in {"candidate", "prospect"}, NEW r \in ByHand[kind]
  PROVE  r \in AnyRecord
BY DEF ByHand, People, Companies, AnyRecord

\* One profile's fields change, to nothing another one has.
LEMMA ProfileSet ==
  ASSUME book \in Book, Apart(book.rows), NEW i \in DOMAIN book.rows, NEW p \in Profile,
         p.email \in {Unknown, book.rows[i].email},
         p.phone \in {Unknown, book.rows[i].phone},
         NEW b, b = [book EXCEPT !.rows = [book.rows EXCEPT ![i] = p]]
  PROVE  b \in Book /\ Apart(b.rows)
<1>1. book.rows \in Seq(Profile)
  BY DEF Book
<1> DEFINE q == [book.rows EXCEPT ![i] = p]
<1>2. q \in Seq(Profile)
  BY <1>1
<1>3. b \in Book /\ b.rows = q
  BY <1>2 DEF Book
<1>4. DOMAIN q = DOMAIN book.rows /\ q[i] = p
      /\ \A j \in DOMAIN book.rows : j # i => q[j] = book.rows[j]
  BY <1>1
<1> HIDE DEF q
<1>5. Apart(q)
  BY <1>4 DEF Apart, Same
<1> QED
  BY <1>3, <1>5

\* Inductive.
IntakeInv == IntakeTypeOK /\ Apart(book.rows)

SourceRow == [kind : {"none", "candidate", "prospect"}, enabled : BOOLEAN,
              revision : Nat, token : Nat]

\* A control of the source keeps its kind.
LEMMA ControlledRow ==
  ASSUME NEW row \in SourceRow, NEW on \in BOOLEAN, NEW m \in Nat, NEW n \in Nat
  PROVE  /\ [row EXCEPT !.enabled = on, !.revision = n] \in SourceRow
         /\ [row EXCEPT !.enabled = on, !.revision = n].kind = row.kind
         /\ [row EXCEPT !.token = m, !.revision = n] \in SourceRow
         /\ [row EXCEPT !.token = m, !.revision = n].kind = row.kind
BY DEF SourceRow

\* A commit, new or replayed, keeps the book.
LEMMA CommitKeeps ==
  ASSUME IntakeInv, NEW key \in BatchKey, NEW c \in AnyContent, CommitIntake(key, c)
  PROVE  /\ book' \in Book /\ Apart(book'.rows)
         /\ batches' \subseteq BatchKey /\ recent' \in Nat
<1>1. CASE key \in batches
  BY <1>1 DEF CommitIntake, IntakeInv, IntakeTypeOK
<1>2. CASE key \notin batches
  <2>1. /\ book' = After(c) /\ recent' = recent + 1 /\ batches' = batches \cup {key}
    BY <1>2 DEF CommitIntake
  <2> QED
    BY <2>1, AfterKeeps DEF IntakeInv, IntakeTypeOK
<1> QED
  BY <1>1, <1>2

\* Every step keeps the types and the profiles apart.
LEMMA IntakeStep == IntakeInv /\ [IntakeNext]_intakeVars => IntakeInv'
<1> SUFFICES ASSUME IntakeInv, [IntakeNext]_intakeVars PROVE IntakeInv'
  OBVIOUS
<1> USE DEF IntakeInv, IntakeTypeOK
<1>1. ASSUME source # NoSource, NEW key \in BatchKey, NEW c \in Contents[source.kind],
             PreviewIntake(key, c)
      PROVE  IntakeInv'
  <2>1. c \in AnyContent
    BY <1>1, ContentIs
  <2>2. review'.key = key /\ review'.content = c
    BY <1>1 DEF PreviewIntake
  <2> QED
    BY <1>1, <2>1, <2>2 DEF PreviewIntake, peopleVars
<1>2. ASSUME source # NoSource, NEW key \in BatchKey, NEW c \in Contents[source.kind],
             NEW d \in Delivery, Deliver(d, key, c)
      PROVE  IntakeInv'
  <2>1. c \in AnyContent
    BY <1>2, ContentIs
  <2>2. call' \in [Delivery -> [token : Nat, key : BatchKey, content : AnyContent]
                                 \cup {NoCall}]
    BY <1>2, <2>1 DEF Deliver
  <2> QED
    BY <1>2, <2>2 DEF Deliver, peopleVars
<1>3. ASSUME CreateByHand PROVE IntakeInv'
  <2>1. PICK r \in ByHand[source.kind] : book' = Adopt(book, r)
    BY <1>3 DEF CreateByHand
  <2>2. r \in AnyRecord
    BY <1>3, <2>1, ByHandIs DEF CreateByHand
  <2>3. book' \in Book /\ Apart(book'.rows)
    BY <2>1, <2>2, AdoptKeeps
  <2> QED
    BY <1>3, <2>3 DEF CreateByHand, peopleVars
<1>4. ASSUME CreateSource PROVE IntakeInv'
  <2>1. PICK kind \in {"candidate", "prospect"} :
          source' = [kind |-> kind, enabled |-> TRUE, revision |-> 1, token |-> 1]
    BY <1>4 DEF CreateSource
  <2>2. /\ source' \in [kind : {"none", "candidate", "prospect"}, enabled : BOOLEAN,
                        revision : Nat, token : Nat]
        /\ source'.kind # "none"
    BY <2>1
  <2> QED
    BY <1>4, <2>2 DEF CreateSource
<1>5. ASSUME ControlSource PROVE IntakeInv'
  <2> DEFINE m == source.token + 1
             n == source.revision + 1
  <2>1. source \in SourceRow /\ source.kind # "none"
    BY <1>5 DEF ControlSource, SourceRow
  <2>2. \/ \E on \in BOOLEAN : source' = [source EXCEPT !.enabled = on, !.revision = n]
        \/ source' = [source EXCEPT !.token = m, !.revision = n]
    BY <1>5 DEF ControlSource
  <2>3. m \in Nat /\ n \in Nat
    BY <2>1 DEF SourceRow
  <2> HIDE DEF m, n
  <2>4. source' \in SourceRow /\ source'.kind = source.kind
    <3>1. ASSUME NEW on \in BOOLEAN, source' = [source EXCEPT !.enabled = on, !.revision = n]
          PROVE  source' \in SourceRow /\ source'.kind = source.kind
      <4>1. /\ [source EXCEPT !.enabled = on, !.revision = n] \in SourceRow
            /\ [source EXCEPT !.enabled = on, !.revision = n].kind = source.kind
        BY <2>1, <2>3, ControlledRow
      <4> QED
        BY <3>1, <4>1
    <3>2. CASE source' = [source EXCEPT !.token = m, !.revision = n]
      <4>1. /\ [source EXCEPT !.token = m, !.revision = n] \in SourceRow
            /\ [source EXCEPT !.token = m, !.revision = n].kind = source.kind
        BY <2>1, <2>3, ControlledRow
      <4> QED
        BY <3>2, <4>1
    <3> QED
      BY <2>2, <3>1, <3>2
  <2> QED
    BY <1>5, <2>1, <2>4 DEF ControlSource, SourceRow
<1>6. ASSUME ImportReviewed PROVE IntakeInv'
  <2>1. review.key \in BatchKey /\ review.content \in AnyContent
    BY <1>6 DEF ImportReviewed
  <2>2. CommitIntake(review.key, review.content)
    BY <1>6 DEF ImportReviewed
  <2>3. /\ book' \in Book /\ Apart(book'.rows)
        /\ batches' \subseteq BatchKey /\ recent' \in Nat
    BY <2>1, <2>2, CommitKeeps
  <2> QED
    BY <1>6, <2>3 DEF ImportReviewed, peopleVars
<1>7. ASSUME NEW d \in Delivery, CommitDelivery(d) PROVE IntakeInv'
  <2>1. call[d].key \in BatchKey /\ call[d].content \in AnyContent
    BY <1>7 DEF CommitDelivery
  <2>2. CommitIntake(call[d].key, call[d].content)
    BY <1>7 DEF CommitDelivery
  <2>3. /\ book' \in Book /\ Apart(book'.rows)
        /\ batches' \subseteq BatchKey /\ recent' \in Nat
    BY <2>1, <2>2, CommitKeeps
  <2> QED
    BY <1>7, <2>3 DEF CommitDelivery, peopleVars
<1>8. ASSUME NEW d \in Delivery, DropDelivery(d) PROVE IntakeInv'
  BY <1>8 DEF DropDelivery, peopleVars
<1>9. ASSUME MinutePasses PROVE IntakeInv'
  BY <1>9 DEF MinutePasses, peopleVars
<1>10. ASSUME NEW i \in DOMAIN book.rows, Leaves(i) PROVE IntakeInv'
  <2> DEFINE p == [book.rows[i] EXCEPT !.out = TRUE]
  <2>1. book.rows[i] \in Profile
    BY DEF Book
  <2>2. /\ p \in Profile
        /\ p.email = book.rows[i].email /\ p.phone = book.rows[i].phone
    BY <2>1 DEF Profile
  <2>3. book' = [book EXCEPT !.rows = [book.rows EXCEPT ![i] = p]]
    BY <1>10 DEF Leaves
  <2>4. book' \in Book /\ Apart(book'.rows)
    <3> DEFINE b == book'
    <3>1. b = [book EXCEPT !.rows = [book.rows EXCEPT ![i] = p]]
      BY <2>3
    <3> HIDE DEF b, p
    <3>2. b \in Book /\ Apart(b.rows)
      BY <2>2, <3>1, ProfileSet
    <3> QED
      BY <3>2 DEF b
  <2> QED
    BY <1>10, <2>4 DEF Leaves, peopleVars
<1>11. ASSUME NEW i \in DOMAIN book.rows, Bar(i) PROVE IntakeInv'
  <2>1. book.rows[i] \in Profile
    BY DEF Book
  <2>2. barred' \subseteq Email \cup Phone
    BY <1>11, <2>1 DEF Bar, Profile
  <2> QED
    BY <1>11, <2>2 DEF Bar
<1>12. ASSUME NEW i \in DOMAIN book.rows, Redact(i) PROVE IntakeInv'
  <2> DEFINE p == [book.rows[i] EXCEPT !.email = Unknown, !.phone = Unknown]
  <2>1. book.rows[i] \in Profile
    BY DEF Book
  <2>2. /\ p \in Profile /\ p.email = Unknown /\ p.phone = Unknown
    BY <2>1 DEF Profile
  <2>3. book' = [book EXCEPT !.rows = [book.rows EXCEPT ![i] = p]]
    BY <1>12 DEF Redact
  <2>4. book' \in Book /\ Apart(book'.rows)
    <3> DEFINE b == book'
    <3>1. b = [book EXCEPT !.rows = [book.rows EXCEPT ![i] = p]]
      BY <2>3
    <3> HIDE DEF b, p
    <3>2. b \in Book /\ Apart(b.rows)
      BY <2>2, <3>1, ProfileSet
    <3> QED
      BY <3>2 DEF b
  <2> QED
    BY <1>12, <2>4 DEF Redact, peopleVars
<1>13. CASE UNCHANGED intakeVars
  BY <1>13 DEF intakeVars, peopleVars
<1> QED
  BY <1>1, <1>2, <1>3, <1>4, <1>5, <1>6, <1>7, <1>8, <1>9, <1>10, <1>11, <1>12, <1>13
     DEF IntakeNext, Arrives, Proceeds

\* However batches, replays, reviews and profiles by hand meet, no two profiles
\* share an address or a number (canonicalIntake.ts:38, :84).
THEOREM IdentitiesAreApart == IntakeSpec => []OneProfilePerIdentity
<1>1. IntakeInit => IntakeInv
  <2> SUFFICES ASSUME IntakeInit PROVE IntakeInv
    OBVIOUS
  <2>1. book \in Book /\ DOMAIN book.rows = {}
    BY DEF IntakeInit, Book
  <2>2. IntakeTypeOK
    BY <2>1 DEF IntakeInit, IntakeTypeOK, NoSource
  <2> QED
    BY <2>1, <2>2 DEF IntakeInv, Apart
<1>2. IntakeInv => OneProfilePerIdentity
  BY DEF IntakeInv, Apart, OneProfilePerIdentity
<1> QED
  BY <1>1, <1>2, IntakeStep, PTL DEF IntakeSpec
=============================================================================
