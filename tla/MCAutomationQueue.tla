------------------------- MODULE MCAutomationQueue -------------------------
(* Small instances of AutomationQueue: one row of every kind, of which the *)
(* bound MaxRows lets any few exist in one behaviour.                      *)
EXTENDS AutomationQueue, TLC

CONSTANTS
  aiJob, parseJob, scanJob, sweepJob, followJob, mailJob, policyJob

MCKind ==
  (aiJob :> "ai") @@ (parseJob :> "parse_cv") @@ (scanJob :> "scan") @@
  (sweepJob :> "background") @@ (followJob :> "follow_up") @@
  (mailJob :> "deliver_email") @@ (policyJob :> "policy")
KindOf == [j \in Job |-> MCKind[j]]
\* The background job and the scan are ahead of the rows they share the window
\* with.
PriorityOf == [j \in Job |-> IF j \in {sweepJob, scanJob} THEN 1 ELSE 2]
ParseRow == [j \in Job |-> parseJob]
=============================================================================
