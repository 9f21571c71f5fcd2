------------------------------ MODULE Workflow ------------------------------
(* The state machines of workflow.ts that more than one component moves    *)
(* along.  The invoice's is in InvoiceLedger, beside its only user.        *)

Anywhere == {"withdrawn", "deleted"}

CandidateFlow ==
  [imported           |-> {"consent_pending", "consented", "profile_incomplete",
                           "do_not_contact", "deleted"},
   consent_pending    |-> {"consented", "do_not_contact", "deleted"},
   consented          |-> {"available", "profile_incomplete", "do_not_contact"}
                          \cup Anywhere,
   profile_incomplete |-> {"consented", "available"} \cup Anywhere,
   available          |-> {"outreach_queued", "interested", "screening",
                           "do_not_contact"} \cup Anywhere,
   outreach_queued    |-> {"interested", "available", "do_not_contact"} \cup Anywhere,
   interested         |-> {"screening", "qualified", "do_not_contact"} \cup Anywhere,
   screening          |-> {"qualified", "available", "do_not_contact"} \cup Anywhere,
   qualified          |-> {"shortlisted", "submitted", "available"} \cup Anywhere,
   shortlisted        |-> {"submitted", "interview", "available"} \cup Anywhere,
   submitted          |-> {"interview", "offer", "available"} \cup Anywhere,
   interview          |-> {"offer", "available"} \cup Anywhere,
   offer              |-> {"joined", "available"} \cup Anywhere,
   joined             |-> Anywhere,
   withdrawn          |-> {"deletion_pending", "deleted"},
   do_not_contact     |-> {"deletion_pending", "deleted"},
   deletion_pending   |-> {"deleted"},
   deleted            |-> {}]

ShortlistFlow ==
  [prepared         |-> {"approval_pending", "withdrawn", "expired"},
   approval_pending |-> {"shared", "prepared", "withdrawn"},
   shared           |-> {"viewed", "withdrawn", "expired"},
   viewed           |-> {"withdrawn", "expired"},
   withdrawn        |-> {},
   expired          |-> {}]

ScreeningFlow ==
  [not_started              |-> {"in_progress", "closed"},
   in_progress              |-> {"evidence_pending", "ready_for_owner_decision",
                                 "closed"},
   evidence_pending         |-> {"in_progress", "ready_for_owner_decision", "closed"},
   ready_for_owner_decision |-> {"decision_pending", "closed"},
   decision_pending         |-> {"owner_decided", "closed"},
   owner_decided            |-> {"closed"},
   closed                   |-> {}]

PlacementFlow ==
  [offer_pending           |-> {"offer_issued", "closed"},
   offer_issued            |-> {"offer_accepted", "closed"},
   offer_accepted          |-> {"joining_pending", "closed"},
   joining_pending         |-> {"joining_confirmed", "closed"},
   joining_confirmed       |-> {"invoice_eligible", "guarantee_active", "closed"},
   invoice_eligible        |-> {"guarantee_active", "closed"},
   guarantee_active        |-> {"guarantee_ended", "replacement_requested", "closed"},
   replacement_requested   |-> {"replacement_in_progress", "closed"},
   replacement_in_progress |-> {"replacement_closed", "closed"},
   replacement_closed      |-> {"closed"},
   guarantee_ended         |-> {"closed"},
   closed                  |-> {}]

InterviewFlow ==
  [proposed               |-> {"availability_requested", "scheduled", "cancelled"},
   availability_requested |-> {"scheduled", "cancelled"},
   scheduled              |-> {"confirmed", "reschedule_requested", "cancelled",
                               "no_show"},
   confirmed              |-> {"reminder_sent", "completed", "reschedule_requested",
                               "cancelled", "no_show"},
   reminder_sent          |-> {"completed", "reschedule_requested", "cancelled",
                               "no_show"},
   reschedule_requested   |-> {"scheduled", "cancelled"},
   completed              |-> {"feedback_pending", "closed"},
   feedback_pending       |-> {"feedback_received", "closed"},
   feedback_received      |-> {"closed"},
   no_show                |-> {"reschedule_requested", "closed"},
   cancelled              |-> {},
   closed                 |-> {}]

\* assertTransition: a record may stay where it is or follow its table.
MayMove(flow, from, to) == from = to \/ to \in flow[from]
=============================================================================
