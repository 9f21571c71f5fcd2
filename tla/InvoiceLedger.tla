---------------------------- MODULE InvoiceLedger ----------------------------
(* The invoices of one placement, from the draft to the last receipt: the  *)
(* approvals that move an invoice, the receipts that settle it, the        *)
(* payment promises that hold its collection and the collection sequences  *)
(* that ask for the balance.  Every command that records a receipt, a      *)
(* promise or a setting, and every decision of an invoice approval, runs   *)
(* in a transaction that locks the owner's workspace row, and is one       *)
(* action.  The request handlers take no lock: each await of theirs is an  *)
(* action of its own, and a clerk is one such request in flight.           *)
(*                                                                         *)
(* A collection sequence is reduced to its enrollment key: the facts its   *)
(* messages quote (the fingerprint) and its scenario.  What happens inside *)
(* an open sequence is the subject of FollowUpDelivery.                    *)
EXTENDS Naturals, Sequences, FiniteSets, Functions

CONSTANTS
  Invoice,          \* identifiers the drafts of this placement may get
  Clerk,            \* request handlers that may run at the same time
  Event,            \* provider events, each the evidence of one receipt
  Total,            \* amount plus tax of an invoice
  NoInvoice, NoReceipt,
  MaxPending,       \* bound: undecided approvals per invoice
  MaxRevision,      \* bound: revisions of the collection settings
  MaxPromises,      \* bound: promises recorded per invoice
  MaxSequences      \* bound: collection sequences per invoice

ASSUME LedgerAssumption ==
  /\ Total \in Nat \ {0}
  /\ NoInvoice \notin Invoice
  /\ NoReceipt \notin [of : Invoice, amount : 1..Total]
  /\ MaxPending \in Nat /\ MaxRevision \in Nat
  /\ MaxPromises \in Nat /\ MaxSequences \in Nat

InvoiceStatus ==
  {"none", "draft", "approval_pending", "issued", "payment_pending",
   "partially_paid", "paid", "overdue", "disputed", "credited", "written_off"}

\* The transition table of an invoice, without the states no code enters
\* (validation, delivered, cancelled, closed).
Transition ==
  [none             |-> {},
   draft            |-> {"approval_pending"},
   approval_pending |-> {"issued", "draft"},
   issued           |-> {"payment_pending", "partially_paid", "paid",
                         "overdue", "disputed"},
   payment_pending  |-> {"partially_paid", "paid", "overdue", "disputed"},
   partially_paid   |-> {"paid", "overdue", "disputed"},
   overdue          |-> {"partially_paid", "paid", "disputed", "credited",
                         "written_off"},
   disputed         |-> {"payment_pending", "credited", "written_off"},
   credited         |-> {},
   written_off      |-> {},
   paid             |-> {}]

MayMove(from, to) == from = to \/ to \in Transition[from]

CollectibleStates == {"issued", "payment_pending", "partially_paid", "overdue"}
TerminalStates == {"credited", "written_off"}

PaymentKind == {"payment_pending", "partially_paid", "paid", "overdue"}
AdjustmentKind == {"disputed", "credited", "written_off"}

\* An approval is named by the status it asks for.
ApprovalKind == {"issued"} \cup PaymentKind \cup AdjustmentKind

LivePromise == {"open", "missed"}
Promise ==
  [amount : 1..Total, base : 0..Total, lapsed : BOOLEAN,
   status : LivePromise \cup {"met", "met_late", "superseded", "cancelled"}]

Scenario == {"FU26", "FU27"}
PromiseState == {"none"} \cup LivePromise
                  \cup {"met", "met_late", "superseded", "cancelled"}
Fingerprint ==
  [paid : 0..Total, rules : Nat, promise : Nat, state : PromiseState]
Key == [facts : Fingerprint, scenario : Scenario]

ClerkPc == {"idle", "drafting", "checking_draft", "checking_pending",
            "marking", "asking", "freezing"}

VARIABLES
  status,     \* the state of each invoice
  received,   \* the sum of its succeeded receipts
  receipt,    \* the receipt each provider event is the evidence of
  pending,    \* its undecided approvals of each kind
  promises,   \* its payment promises, in the order of their revisions
  timed,      \* the promises whose deadline has an evaluation in the queue
  revision,   \* of its collection settings, 0 when it has none
  collecting, \* the settings enable collection and do not hold it
  enrolled,   \* the keys of its collection sequences, ended ones included
  open,       \* the keys of those that are scheduled, waiting or held
  pc, at      \* where each request is, and the invoice it is about

moneyVars == <<received, receipt>>
promiseVars == <<promises, timed>>
ruleVars == <<revision, collecting>>
planVars == <<enrolled, open>>
clerkVars == <<pc, at>>
recordVars == <<moneyVars, promiseVars, ruleVars>>
vars == <<status, pending, recordVars, planVars, clerkVars>>

Init ==
  /\ status = [i \in Invoice |-> "none"]
  /\ received = [i \in Invoice |-> 0]
  /\ receipt = [e \in Event |-> NoReceipt]
  /\ pending = [i \in Invoice |-> [k \in ApprovalKind |-> 0]]
  /\ promises = [i \in Invoice |-> <<>>]
  /\ timed = [i \in Invoice |-> {}]
  /\ revision = [i \in Invoice |-> 0]
  /\ collecting = [i \in Invoice |-> FALSE]
  /\ enrolled = [i \in Invoice |-> {}]
  /\ open = [i \in Invoice |-> {}]
  /\ pc = [c \in Clerk |-> "idle"]
  /\ at = [c \in Clerk |-> NoInvoice]
-----------------------------------------------------------------------------
(* What a transaction reads of an invoice before it acts on it.            *)

Remaining(i) == Total - received[i]
Newest(i) == promises[i][Len(promises[i])]

\* An open promise past its deadline counts as missed before it is marked.
StateOfPromise(i) ==
  IF promises[i] = <<>> THEN "none"
  ELSE IF Newest(i).status = "open" /\ Newest(i).lapsed THEN "missed"
  ELSE Newest(i).status

UnderReview(i) == \E k \in AdjustmentKind : pending[i][k] > 0

\* No reason holds the collection of the invoice.  A client's reply and an
\* unresolved dispatch hold it too: wherever this is a guard, the action may
\* just as well not happen.
MayCollect(i) ==
  /\ status[i] \in CollectibleStates
  /\ Remaining(i) > 0
  /\ ~UnderReview(i)
  /\ revision[i] > 0 => collecting[i]
  /\ StateOfPromise(i) # "open"

\* What a collection sequence is bound to.
Facts(i) == [paid |-> received[i], rules |-> revision[i],
             promise |-> Len(promises[i]), state |-> StateOfPromise(i)]

\* Promises that the receipts since they were made have covered are met.
Settled(ps, paid) ==
  [n \in DOMAIN ps |->
     IF ps[n].status \in LivePromise /\ paid - ps[n].base >= ps[n].amount
       THEN [ps[n] EXCEPT !.status = IF ps[n].lapsed THEN "met_late" ELSE "met"]
       ELSE ps[n]]

LiveAt(ps) == {n \in DOMAIN ps : ps[n].status \in LivePromise}

\* Mutant: only the first scenario is stopped.
StopReminders(i) ==
  /\ open' = [open EXCEPT ![i] = {key \in @ : key.scenario = "FU27"}]
  /\ UNCHANGED enrolled

\* stopRelatedFollowUps ends every open sequence of the invoice.
StopRelated(i) == open' = [open EXCEPT ![i] = {}] /\ UNCHANGED enrolled
-----------------------------------------------------------------------------
(* The request handlers.                                                   *)

Goto(c, to, i) == pc' = [pc EXCEPT ![c] = to] /\ at' = [at EXCEPT ![c] = i]
Return(c) == Goto(c, "idle", NoInvoice)

\* A step that only reads, and remembers what it read in where it goes on.
Reads(c, to, i) ==
  Goto(c, to, i) /\ UNCHANGED <<status, pending, recordVars, planVars>>

\* invoices.draft: read the invoices of the placement ...
ReadExisting(c) ==
  /\ pc[c] = "idle"
  /\ \A i \in Invoice : status[i] \in {"none"} \cup TerminalStates
  /\ Reads(c, "drafting", NoInvoice)

\* ... and insert a new one.
InsertDraft(c, i) ==
  /\ pc[c] = "drafting" /\ status[i] = "none"
  /\ status' = [status EXCEPT ![i] = "draft"]
  /\ Return(c)
  /\ UNCHANGED <<pending, recordVars, planVars>>

\* invoices.requestIssueApproval: it asks again however often it is called.
RequestIssueApproval(c, i) ==
  /\ pc[c] = "idle" /\ status[i] \in {"draft", "approval_pending"}
  /\ Reads(c, "marking", i)

\* consequential.requestInvoiceIssue: read the invoice, then its approvals.
RequestInvoiceIssue(c, i) ==
  /\ pc[c] = "idle" /\ status[i] \in {"draft", "approval_pending"}
  /\ Reads(c, IF status[i] = "draft" THEN "checking_draft"
              ELSE "checking_pending", i)

CheckPending(c) ==
  /\ pc[c] \in {"checking_draft", "checking_pending"}
  /\ IF pending[at[c]]["issued"] > 0 THEN Reads(c, "idle", NoInvoice)
     ELSE Reads(c, IF pc[c] = "checking_draft" THEN "marking" ELSE "asking",
                at[c])

\* The write names the invoice only, whatever became of it since the read.
MarkApprovalPending(c) ==
  /\ pc[c] = "marking"
  /\ status' = [status EXCEPT ![at[c]] = "approval_pending"]
  /\ Goto(c, "asking", at[c])
  /\ UNCHANGED <<pending, recordVars, planVars>>

AskFor(i, k) ==
  /\ SumFunction(pending[i]) < MaxPending
  /\ pending' = [pending EXCEPT ![i][k] = @ + 1]

AskToIssue(c) ==
  /\ pc[c] = "asking"
  /\ AskFor(at[c], "issued")
  /\ Return(c)
  /\ UNCHANGED <<status, recordVars, planVars>>

\* consequential.requestInvoiceAction asks for any target from any state, and
\* ends the collection of an invoice under review in a transaction of its own.
RequestInvoiceAction(c, i, k) ==
  /\ pc[c] = "idle" /\ status[i] # "none"
  /\ AskFor(i, k)
  /\ IF k \in AdjustmentKind THEN Goto(c, "freezing", i) ELSE UNCHANGED clerkVars
  /\ UNCHANGED <<status, recordVars, planVars>>

Freeze(c) ==
  /\ pc[c] = "freezing"
  /\ StopRelated(at[c])
  /\ Return(c)
  /\ UNCHANGED <<status, pending, recordVars>>

\* A request is lost between two of its awaits when its process dies.
Abandon(c) == pc[c] # "idle" /\ Reads(c, "idle", NoInvoice)
-----------------------------------------------------------------------------
(* The decision of an approval.                                            *)

\* Mutant: a settlement is approved without the receipts for it.
MayApplyUnevidenced(i, k) == k # "issued" => MayMove(status[i], k)

\* The issue of an invoice is applied as it is; every other target is checked
\* against the transition table and, for a settlement, against the receipts.
MayApply(i, k) ==
  k # "issued" =>
    /\ MayMove(status[i], k)
    /\ k = "paid" => received[i] >= Total
    /\ k = "partially_paid" => received[i] \in 1..(Total - 1)

\* An effect that is refused rolls the decision back.
Approve(i, k) ==
  /\ pending[i][k] > 0
  /\ MayApply(i, k)
  /\ pending' = [pending EXCEPT ![i][k] = @ - 1]
  /\ status' = [status EXCEPT ![i] = k]
  /\ UNCHANGED <<recordVars, planVars, clerkVars>>

Reject(i, k) ==
  /\ pending[i][k] > 0
  /\ pending' = [pending EXCEPT ![i][k] = @ - 1]
  /\ UNCHANGED <<status, recordVars, planVars, clerkVars>>
-----------------------------------------------------------------------------
(* Receipts and promises.                                                  *)

\* A receipt is positive and within the balance.
Accepts(i, amount) == amount \in 1..Remaining(i)

\* Mutant: a repeated event is recorded again.
IsAnyEvent(e) == TRUE

\* The event has no receipt yet.
IsNew(e) == receipt[e] = NoReceipt

\* recordInvoicePayment: an event that has a receipt is answered from it.
RecordPayment(i, e, amount) ==
  LET to == IF amount = Remaining(i) THEN "paid" ELSE "partially_paid"
      paid == received[i] + amount
      kept == Settled(promises[i], paid) IN
  /\ IsNew(e)
  /\ status[i] \in CollectibleStates
  /\ Accepts(i, amount)
  /\ MayMove(IF status[i] = "issued" THEN "payment_pending" ELSE status[i], to)
  /\ receipt' = [receipt EXCEPT ![e] = [of |-> i, amount |-> amount]]
  /\ received' = [received EXCEPT ![i] = paid]
  /\ status' = [status EXCEPT ![i] = to]
  /\ promises' = [promises EXCEPT ![i] = kept]
  /\ timed' = [timed EXCEPT ![i] = @ \ (LiveAt(promises[i]) \ LiveAt(kept))]
  /\ StopRelated(i)
  /\ UNCHANGED <<pending, ruleVars, clerkVars>>

\* Mutant: a missed promise is not superseded.
ReplacedOpen(ps) == {n \in {Len(ps)} \cap LiveAt(ps) : ps[n].status = "open"}

\* The promise a new one supersedes.
Replaced(ps) == {Len(ps)} \cap LiveAt(ps)

\* Mutant: the jobs are keyed by invoice, and the row of an earlier promise,
\* cancelled or done, keeps the next one from being inserted.
ScheduledOnce(jobs, n) == IF n = 1 THEN {n} ELSE jobs

\* scheduleCollectionEvaluation: each promise has a job of its own.
Scheduled(jobs, n) == jobs \cup {n}

\* recordPaymentPromise: the newest promise, if it is live, is replaced.
RecordPromise(i, amount) ==
  LET ps == promises[i]
      n == Len(ps)
      old == Replaced(ps)
      kept == [m \in DOMAIN ps |->
                 IF m \in old THEN [ps[m] EXCEPT !.status = "superseded"]
                 ELSE ps[m]] IN
  /\ n < MaxPromises
  /\ status[i] \in CollectibleStates /\ Accepts(i, amount)
  /\ promises' = [promises EXCEPT ![i] =
                    Append(kept, [amount |-> amount, base |-> received[i],
                                  lapsed |-> FALSE, status |-> "open"])]
  /\ timed' = [timed EXCEPT ![i] = Scheduled(@ \ old, n + 1)]
  /\ StopRelated(i)
  /\ UNCHANGED <<status, moneyVars, pending, ruleVars, clerkVars>>

CancelPromise(i, n) ==
  /\ n \in LiveAt(promises[i])
  /\ promises' = [promises EXCEPT ![i][n].status = "cancelled"]
  /\ timed' = [timed EXCEPT ![i] = @ \ {n}]
  /\ StopRelated(i)
  /\ UNCHANGED <<status, moneyVars, pending, ruleVars, clerkVars>>
-----------------------------------------------------------------------------
(* Collection.                                                             *)

SaveSettings(i, enable) ==
  /\ revision[i] < MaxRevision
  /\ status[i] # "none"
  /\ enable => status[i] \in CollectibleStates
  /\ revision' = [revision EXCEPT ![i] = @ + 1]
  /\ collecting' = [collecting EXCEPT ![i] = enable]
  /\ StopRelated(i)
  /\ UNCHANGED <<status, moneyVars, pending, promiseVars, clerkVars>>

\* enrollFollowUpInTransaction: a key that has a sequence keeps it, and an
\* invoice has one open sequence at most.
Enroll(i, key) ==
  /\ key \notin enrolled[i] /\ open[i] = {}
  /\ Cardinality(enrolled[i]) < MaxSequences
  /\ enrolled' = [enrolled EXCEPT ![i] = @ \cup {key}]
  /\ open' = [open EXCEPT ![i] = {key}]

\* The owner enrolls a sequence by hand; only a missed promise has the second
\* scenario.
EnrollByHand(i, s) ==
  /\ MayCollect(i)
  /\ s = "FU27" => StateOfPromise(i) = "missed"
  /\ Enroll(i, [facts |-> Facts(i), scenario |-> s])
  /\ UNCHANGED <<status, pending, recordVars, clerkVars>>

\* replanFollowUp binds a sequence, ended or not, to the current facts.
Replan(i, key) ==
  LET next == [key EXCEPT !.facts = Facts(i)] IN
  /\ key \in enrolled[i]
  /\ MayCollect(i)
  /\ key.scenario = "FU27" => StateOfPromise(i) = "missed"
  /\ next \notin enrolled[i] \ {key}
  /\ open[i] \subseteq {key}
  /\ enrolled' = [enrolled EXCEPT ![i] = (@ \ {key}) \cup {next}]
  /\ open' = [open EXCEPT ![i] = {next}]
  /\ UNCHANGED <<status, pending, recordVars, clerkVars>>

\* A sequence ends by itself: answered, exhausted or cancelled by the owner.
EndSequence(i) ==
  /\ open[i] # {}
  /\ StopRelated(i)
  /\ UNCHANGED <<status, pending, recordVars, clerkVars>>

\* The polls visit invoices that have settings; a receipt, a cancelled promise
\* and a deadline leave an evaluation in the queue.
Unvisited(i) ==
  /\ revision[i] = 0 /\ received[i] = 0
  /\ \A n \in DOMAIN promises[i] :
       promises[i][n].status # "cancelled" /\ ~promises[i][n].lapsed

\* evaluateInvoiceCollection, run by a poll or by a job of the queue: settle the
\* promises, mark the missed one, age the invoice past its due date and, when
\* nothing holds it and its grace period is over, enroll a sequence for what
\* the records say by then.  A promise's job runs once its deadline has passed;
\* the emergency stop puts it off.
Evaluate(i, job, pastDue) ==
  LET kept == Settled(promises[i], received[i])
      missed == {n \in {Len(promises[i])} \cap LiveAt(kept) :
                   kept[n].status = "open" /\ kept[n].lapsed}
      late == StateOfPromise(i)' = "missed" IN
  /\ status[i] # "none"
  /\ IF job = 0 THEN ~Unvisited(i)
     ELSE job \in timed[i] /\ promises[i][job].lapsed
  /\ promises' = [promises EXCEPT ![i] =
                    [n \in DOMAIN kept |->
                       IF n \in missed THEN [kept[n] EXCEPT !.status = "missed"]
                       ELSE kept[n]]]
  /\ timed' = [timed EXCEPT ![i] =
                 @ \ ({job} \cup (LiveAt(promises[i]) \ LiveAt(kept)))]
  /\ status' = [status EXCEPT ![i] =
                  IF /\ Remaining(i) > 0 /\ pastDue
                     /\ status[i] \in {"issued", "payment_pending"}
                  THEN "overdue" ELSE @]
  /\ UNCHANGED <<moneyVars, pending, ruleVars, clerkVars>>
  /\ \/ UNCHANGED planVars
     \/ /\ collecting[i] /\ MayCollect(i)'
        /\ pastDue \/ late
        /\ Enroll(i, [facts |-> Facts(i)',
                      scenario |-> IF late THEN "FU27" ELSE "FU26"])
-----------------------------------------------------------------------------
(* Time.                                                                   *)

PromiseLapses(i, n) ==
  /\ n \in DOMAIN promises[i] /\ ~promises[i][n].lapsed
  /\ promises[i][n].status = "open"
  /\ promises' = [promises EXCEPT ![i][n].lapsed = TRUE]
  /\ UNCHANGED <<status, moneyVars, pending, timed, ruleVars, planVars,
                 clerkVars>>
-----------------------------------------------------------------------------
Request(c) ==
  \/ ReadExisting(c) \/ CheckPending(c) \/ MarkApprovalPending(c)
  \/ AskToIssue(c) \/ Freeze(c) \/ Abandon(c)
  \/ \E i \in Invoice :
       \/ InsertDraft(c, i) \/ RequestIssueApproval(c, i)
       \/ RequestInvoiceIssue(c, i)
       \/ \E k \in PaymentKind \cup AdjustmentKind :
            RequestInvoiceAction(c, i, k)

Record(i) ==
  \/ \E k \in ApprovalKind : Approve(i, k) \/ Reject(i, k)
  \/ \E e \in Event, amount \in 1..Total : RecordPayment(i, e, amount)
  \/ \E amount \in 1..Total : RecordPromise(i, amount)
  \/ \E n \in DOMAIN promises[i] : CancelPromise(i, n) \/ PromiseLapses(i, n)
  \/ \E enable \in BOOLEAN : SaveSettings(i, enable)
  \/ \E s \in Scenario : EnrollByHand(i, s)
  \/ \E key \in enrolled[i] : Replan(i, key)
  \/ \E job \in {0} \cup timed[i], pastDue \in BOOLEAN :
       Evaluate(i, job, pastDue)
  \/ EndSequence(i)

Next == (\E c \in Clerk : Request(c)) \/ (\E i \in Invoice : Record(i))

Spec == Init /\ [][Next]_vars
-----------------------------------------------------------------------------
(* Properties.                                                             *)

TypeOK ==
  /\ status \in [Invoice -> InvoiceStatus]
  /\ received \in [Invoice -> 0..Total]
  /\ receipt \in [Event -> [of : Invoice, amount : 1..Total] \cup {NoReceipt}]
  /\ pending \in [Invoice -> [ApprovalKind -> Nat]]
  /\ promises \in [Invoice -> Seq(Promise)]
  /\ timed \in [Invoice -> SUBSET (Nat \ {0})]
  /\ revision \in [Invoice -> Nat]
  /\ collecting \in [Invoice -> BOOLEAN]
  /\ enrolled \in [Invoice -> SUBSET Key]
  /\ open \in [Invoice -> SUBSET Key]
  /\ pc \in [Clerk -> ClerkPc]
  /\ at \in [Clerk -> Invoice \cup {NoInvoice}]

\* However receipts, decisions and late requests interleave, the receipts of
\* an invoice add up to what it has received, each event counted once: an
\* invoice that was wrongly put back to an open state is never paid twice.
EventsCountOnce ==
  \A i \in Invoice :
    received[i] = SumFunctionOnSet(
      [e \in {f \in Event : receipt[f] # NoReceipt} |-> receipt[e].amount],
      {e \in Event : receipt[e] # NoReceipt /\ receipt[e].of = i})

\* An invoice is shown as paid only when its receipts cover it, and as partly
\* paid only while they cover a part (approvals cannot invent a settlement).
PaidMeansSettled ==
  \A i \in Invoice :
    /\ status[i] = "paid" => received[i] = Total
    /\ status[i] = "partially_paid" => received[i] \in 1..(Total - 1)

\* Only the newest promise can be live, what it promises is still to be paid,
\* and it never asks for more than the invoice.
PromisesAreAccountable ==
  \A i \in Invoice : \A n \in DOMAIN promises[i] :
    LET p == promises[i][n] IN
    /\ p.base + p.amount <= Total
    /\ p.status \in LivePromise =>
         n = Len(promises[i]) /\ received[i] < p.base + p.amount
    /\ p.status \in {"met", "met_late"} => received[i] >= p.base + p.amount

\* The deadline of every open promise has its evaluation in the queue, so that
\* no promise is kept open for want of somebody to judge it.
OpenPromiseIsTimed ==
  \A i \in Invoice : \A n \in DOMAIN promises[i] :
    promises[i][n].status = "open" => n \in timed[i]

\* The open collection sequence of an invoice is the only one, and what it
\* quotes is what the records say: no message asks for a balance a receipt has
\* changed, nor while a promise is open.
OpenSequenceIsCurrent ==
  \A i \in Invoice :
    /\ \A key \in open[i] :
         /\ open[i] = {key} /\ key \in enrolled[i]
         /\ key.facts = Facts(i)
    /\ open[i] # {} => Remaining(i) > 0 /\ StateOfPromise(i) # "open"

\* Approval execution validates the current transition of an invoice, so that
\* a stale approval cannot resurrect a paid one.
ApprovalsFollowTable ==
  [][\A i \in Invoice, k \in ApprovalKind :
       Approve(i, k) => MayMove(status[i], status'[i])]_vars
=============================================================================
