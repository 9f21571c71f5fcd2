----------------------------- MODULE MCOutreach -----------------------------
(* Small instances of Campaigns, SourceIntake and InboundMail, which share *)
(* no state here: a behaviour is about one scenario of one of them.        *)
EXTENDS Campaigns, SourceIntake, InboundMail

CONSTANTS reply, stopMail, ours, theirs, friend, stranger

VARIABLE scenario
outreachVars == <<campaignVars, intakeVars, mailVars, scenario>>

TheCampaign == CHOOSE c \in Campaign : TRUE
ThePerson == CHOOSE p \in Person : \A q \in Person : p <= q

\* Two campaigns compete for their members, one of whom may move.
Competing ==
  /\ mailbox' /\ ~stopped' /\ reachable' = Person
  /\ \A c \in Campaign :
       /\ campaign'[c].left = "time" /\ campaign'[c].mode = "review"
       /\ campaign'[c].status \notin {"paused", "cancelled"}
       /\ \A p \in Person : plan'[c][p].status # "blocked"
  /\ \A p \in Person \ {ThePerson} : address'[p] = address[p]

\* One campaign is held and resumed, stopped, or out of its mailbox or its time.
Held ==
  /\ \A c \in Campaign \ {TheCampaign} : campaign'[c] = NoCampaign
  /\ address' = address
  /\ \A p \in Person \ {ThePerson} : p \in reachable'

TheRecord == CHOOSE k \in RecordKey : TRUE
TheBatch == CHOOSE k \in BatchKey : TRUE

\* Webhooks, replayed and under rotated tokens, of people who may have left.
Delivering ==
  \/ Proceeds
  \/ \E d \in Delivery, key \in BatchKey :
       source # NoSource /\ \E r \in Records[source.kind] : Deliver(d, key, <<r>>)

\* The owner's reviews of two records, and profiles made by hand meanwhile.
Reviewing ==
  /\ \/ Proceeds \/ CreateByHand
     \/ /\ source # NoSource
        /\ \E r, q \in Records[source.kind] :
             r.key = TheRecord /\ q.key # r.key /\ PreviewIntake(TheBatch, <<r, q>>)
  /\ source'.token <= 1 /\ \A i \in DOMAIN book'.rows : ~book'.rows[i].out

SenderOf == [m \in Mail |-> friend]
PartnerOf == [c \in Conversation |-> IF c = ours THEN friend ELSE stranger]

\* One mail, with any headers, and a message elsewhere that may name its sender.
Routing == mail'[stopMail] = NotArrived /\ deaths' = 0

\* Two mails for the same conversation, which they do not name.
Filing ==
  /\ known = Correspondent /\ mentions = {}
  /\ sent'[ours] = "none" /\ sent'[theirs] # "accepted"
  /\ \A m \in Mail : mail'[m].to = mail'[m].refs
  /\ \A l \in Desktop : line'[stopMail][l] = OnHook

Init ==
  /\ CampaignsInit /\ IntakeInit /\ MailInit
  /\ scenario \in {"competing", "held", "delivering", "reviewing", "routing", "filing"}
  /\ scenario \notin {"competing", "held"} =>
       address = [p \in Person |-> CHOOSE a \in Address : TRUE]
  /\ IF scenario \in {"routing", "filing"}
     THEN known \in {{}, Correspondent} /\ mentions \in {{}, {<<theirs, friend>>}}
     ELSE known = {} /\ mentions = {}

Next ==
  /\ \/ scenario = "competing" /\ CampaignsNext /\ Competing
     \/ scenario = "held" /\ CampaignsNext /\ Held
     \/ scenario = "delivering" /\ Delivering /\ UNCHANGED campaignVars
     \/ scenario = "reviewing" /\ Reviewing /\ UNCHANGED campaignVars
     \/ scenario = "routing" /\ MailNext /\ Routing /\ UNCHANGED campaignVars
     \/ scenario = "filing" /\ MailNext /\ Filing /\ UNCHANGED campaignVars
  /\ scenario \notin {"delivering", "reviewing"} => UNCHANGED intakeVars
  /\ scenario \notin {"routing", "filing"} => UNCHANGED mailVars
  /\ UNCHANGED scenario

Spec == Init /\ [][Next]_outreachVars /\ CampaignsFairness /\ Redelivery
=============================================================================
