------------------------ MODULE InvoiceLedger_proofs ------------------------
(* Theorems about InvoiceLedger for every set of invoices, handlers and    *)
(* events and every total.                                                 *)
EXTENDS InvoiceLedger, FiniteSetTheorems, TLAPS

\* A function on an initial segment is a sequence.
LEMMA SegmentIsSeq ==
  ASSUME NEW S, NEW n \in Nat, NEW f \in [1..n -> S]
  PROVE  f \in Seq(S) /\ Len(f) = n
OBVIOUS

\* Settling promises changes statuses only: it keeps a sequence of promises of
\* the same length.
LEMMA SettledType ==
  ASSUME NEW ps \in Seq(Promise), NEW paid \in 0..Total
  PROVE  /\ Settled(ps, paid) \in Seq(Promise)
         /\ Len(Settled(ps, paid)) = Len(ps)
         /\ DOMAIN Settled(ps, paid) = 1..Len(ps)
<1> DEFINE kept == Settled(ps, paid)
<1>1. DOMAIN ps = 1..Len(ps) /\ Len(ps) \in Nat
  OBVIOUS
<1>2. \A n \in 1..Len(ps) :
        (IF ps[n].status \in LivePromise /\ paid - ps[n].base >= ps[n].amount
         THEN [ps[n] EXCEPT !.status =
                 IF ps[n].lapsed THEN "met_late" ELSE "met"]
         ELSE ps[n]) \in Promise
  <2> TAKE n \in 1..Len(ps)
  <2>1. ps[n] \in Promise
    OBVIOUS
  <2> QED
    BY <2>1 DEF Promise
<1>3. kept \in [1..Len(ps) -> Promise]
  BY <1>1, <1>2 DEF Settled
<1>4. DOMAIN kept = 1..Len(ps)
  BY <1>3
<1> HIDE DEF kept
<1>5. kept \in Seq(Promise) /\ Len(kept) = Len(ps)
  BY <1>1, <1>3, SegmentIsSeq
<1> QED
  BY <1>4, <1>5 DEF kept

\* The empty ledger is well typed.
LEMMA TypeInit == Init => TypeOK
BY LedgerAssumption DEF Init, TypeOK, InvoiceStatus, ClerkPc

\* The status of one promise is replaced.
LEMMA RestatusType ==
  ASSUME NEW ps \in Seq(Promise), NEW n \in DOMAIN ps,
         NEW s \in LivePromise
                    \cup {"met", "met_late", "superseded", "cancelled"}
  PROVE  /\ [ps EXCEPT ![n].status = s] \in Seq(Promise)
         /\ Len([ps EXCEPT ![n].status = s]) = Len(ps)
<1>1. ps[n] \in Promise
  OBVIOUS
<1>2. [ps[n] EXCEPT !.status = s] \in Promise
  BY <1>1 DEF Promise
<1> QED
  BY <1>2

\* The promises of an invoice once a new one supersedes the newest.
Superseding(ps) ==
  [m \in DOMAIN ps |->
     IF m \in Replaced(ps) THEN [ps[m] EXCEPT !.status = "superseded"]
     ELSE ps[m]]

\* Superseding keeps a sequence of promises of the same length.
LEMMA SupersedingType ==
  ASSUME NEW ps \in Seq(Promise)
  PROVE  Superseding(ps) \in Seq(Promise) /\ Len(Superseding(ps)) = Len(ps)
<1>1. \A m \in 1..Len(ps) :
        /\ ps[m] \in Promise
        /\ [ps[m] EXCEPT !.status = "superseded"] \in Promise
  <2> TAKE m \in 1..Len(ps)
  <2>1. ps[m] \in Promise
    OBVIOUS
  <2> QED
    BY <2>1 DEF Promise
<1>2. Superseding(ps) \in [1..Len(ps) -> Promise] /\ Len(ps) \in Nat
  BY <1>1 DEF Superseding
<1> QED
  BY <1>2, SegmentIsSeq

\* The state of the newest of a sequence of promises is one of the known ones.
LEMMA StateType ==
  ASSUME NEW ps \in Seq(Promise)
  PROVE  (IF ps = <<>> THEN "none"
          ELSE IF /\ ps[Len(ps)].status = "open"
                  /\ ps[Len(ps)].lapsed
               THEN "missed" ELSE ps[Len(ps)].status) \in PromiseState
<1>1. CASE ps = <<>>
  BY <1>1 DEF PromiseState
<1>2. CASE ps # <<>>
  <2>1. ps[Len(ps)] \in Promise
    BY <1>2
  <2> QED
    BY <1>2, <2>1 DEF PromiseState, Promise, LivePromise
<1> QED
  BY <1>1, <1>2

\* What a transaction reads of an invoice has its type.
LEMMA FactsType ==
  ASSUME promises \in [Invoice -> Seq(Promise)], received \in [Invoice
         -> 0..Total],
         revision \in [Invoice -> Nat], NEW i \in Invoice
  PROVE  Facts(i) \in Fingerprint /\ StateOfPromise(i) \in PromiseState
<1>1. promises[i] \in Seq(Promise) /\ Len(promises[i]) \in Nat
  OBVIOUS
<1>2. StateOfPromise(i) \in PromiseState
  <2>1. CASE promises[i] = <<>>
    BY <2>1 DEF StateOfPromise, PromiseState
  <2>2. CASE promises[i] # <<>>
    <3>1. Newest(i) \in Promise
      BY <1>1, <2>2 DEF Newest
    <3> QED
      BY <2>2, <3>1 DEF StateOfPromise, PromiseState, Promise, LivePromise
  <2> QED
    BY <2>1, <2>2
<1> QED
  BY <1>1, <1>2 DEF Facts, Fingerprint

\* One approval more is asked for.
LEMMA AskType ==
  ASSUME TypeOK, NEW i, NEW k \in ApprovalKind, AskFor(i, k)
  PROVE  pending' \in [Invoice -> [ApprovalKind -> Nat]]
<1>1. pending' = [pending EXCEPT ![i][k] = @ + 1]
  BY DEF AskFor
<1>2. CASE i \in Invoice
  <2>1. [pending[i] EXCEPT ![k] = @ + 1] \in [ApprovalKind -> Nat]
    BY <1>2 DEF TypeOK
  <2> QED
    BY <1>1, <1>2, <2>1 DEF TypeOK
<1>3. CASE i \notin Invoice
  BY <1>1, <1>3 DEF TypeOK
<1> QED
  BY <1>2, <1>3

\* Every step of the requests, the decisions, the commands and the evaluations
\* keeps every variable in its set.
LEMMA TypeNext == TypeOK /\ [Next]_vars => TypeOK'
<1> SUFFICES ASSUME TypeOK, [Next]_vars PROVE TypeOK'
  OBVIOUS
<1> USE DEF moneyVars, promiseVars, ruleVars, planVars, clerkVars, recordVars
<1>1. ASSUME NEW c \in Clerk, ReadExisting(c) PROVE TypeOK'
  BY <1>1 DEF TypeOK, ReadExisting, Reads, Goto, ClerkPc
<1>2. ASSUME NEW c \in Clerk, CheckPending(c) PROVE TypeOK'
  BY <1>2 DEF TypeOK, CheckPending, Reads, Goto, ClerkPc
<1>3. ASSUME NEW c \in Clerk, MarkApprovalPending(c) PROVE TypeOK'
  BY <1>3 DEF TypeOK, MarkApprovalPending, Goto, ClerkPc, InvoiceStatus
<1>4. ASSUME NEW c \in Clerk, AskToIssue(c) PROVE TypeOK'
  <2>1. pending' \in [Invoice -> [ApprovalKind -> Nat]]
    BY <1>4, AskType DEF AskToIssue, ApprovalKind
  <2> QED
    BY <1>4, <2>1 DEF TypeOK, AskToIssue, Return, Goto, ClerkPc
<1>5. ASSUME NEW c \in Clerk, Freeze(c) PROVE TypeOK'
  BY <1>5 DEF TypeOK, Freeze, StopRelated, Return, Goto, ClerkPc
<1>6. ASSUME NEW c \in Clerk, Abandon(c) PROVE TypeOK'
  BY <1>6 DEF TypeOK, Abandon, Reads, Goto, ClerkPc
<1>7. ASSUME NEW c \in Clerk, NEW i \in Invoice, InsertDraft(c, i)
      PROVE  TypeOK'
  BY <1>7 DEF TypeOK, InsertDraft, Return, Goto, ClerkPc, InvoiceStatus
<1>8. ASSUME NEW c \in Clerk, NEW i \in Invoice, RequestIssueApproval(c, i)
      PROVE  TypeOK'
  BY <1>8 DEF TypeOK, RequestIssueApproval, Reads, Goto, ClerkPc
<1>9. ASSUME NEW c \in Clerk, NEW i \in Invoice, RequestInvoiceIssue(c, i)
      PROVE  TypeOK'
  BY <1>9 DEF TypeOK, RequestInvoiceIssue, Reads, Goto, ClerkPc
<1>10. ASSUME NEW c \in Clerk, NEW i \in Invoice,
              NEW k \in PaymentKind \cup AdjustmentKind,
              RequestInvoiceAction(c, i, k)
       PROVE  TypeOK'
  <2>1. pending' \in [Invoice -> [ApprovalKind -> Nat]]
    BY <1>10, AskType DEF RequestInvoiceAction, ApprovalKind
  <2> QED
    BY <1>10, <2>1 DEF TypeOK, RequestInvoiceAction, Goto, ClerkPc
<1>11. ASSUME NEW i \in Invoice, NEW k \in ApprovalKind, Approve(i, k)
       PROVE  TypeOK'
  <2>1. pending' \in [Invoice -> [ApprovalKind -> Nat]]
    BY <1>11 DEF TypeOK, Approve
  <2>2. k \in InvoiceStatus
    BY DEF ApprovalKind, PaymentKind, AdjustmentKind, InvoiceStatus
  <2> QED
    BY <1>11, <2>1, <2>2 DEF TypeOK, Approve
<1>12. ASSUME NEW i \in Invoice, NEW k \in ApprovalKind, Reject(i, k)
       PROVE  TypeOK'
  <2>1. pending' \in [Invoice -> [ApprovalKind -> Nat]]
    BY <1>12 DEF TypeOK, Reject
  <2> QED
    BY <1>12, <2>1 DEF TypeOK, Reject
<1>13. ASSUME NEW i \in Invoice, NEW e \in Event, NEW amount \in 1..Total,
              RecordPayment(i, e, amount)
       PROVE  TypeOK'
  <2> DEFINE kept == Settled(promises[i], received[i] + amount)
  <2>1. received[i] + amount \in 0..Total
    BY <1>13, LedgerAssumption DEF TypeOK, RecordPayment, Accepts, Remaining
  <2>2. kept \in Seq(Promise)
    BY <2>1, SettledType DEF TypeOK
  <2>3. /\ status' \in [Invoice -> InvoiceStatus]
        /\ received' \in [Invoice -> 0..Total]
        /\ receipt' \in [Event -> [of : Invoice, amount : 1..Total]
                                    \cup {NoReceipt}]
    BY <1>13, <2>1 DEF TypeOK, RecordPayment, InvoiceStatus
  <2> HIDE DEF kept
  <2>4. /\ promises' = [promises EXCEPT ![i] = kept]
        /\ timed' \in [Invoice -> SUBSET (Nat \ {0})]
        /\ open' \in [Invoice -> SUBSET Key]
    BY <1>13 DEF TypeOK, RecordPayment, StopRelated, kept
  <2>5. promises' \in [Invoice -> Seq(Promise)]
    BY <2>2, <2>4 DEF TypeOK
  <2>6. UNCHANGED <<pending, ruleVars, clerkVars, enrolled>>
    BY <1>13 DEF RecordPayment, StopRelated
  <2> QED
    BY <2>3, <2>4, <2>5, <2>6 DEF TypeOK
<1>14. ASSUME NEW i \in Invoice, NEW amount \in 1..Total,
              RecordPromise(i, amount)
       PROVE  TypeOK'
  <2> DEFINE ps == promises[i]
             kept == Superseding(ps)
             new == [amount |-> amount, base |-> received[i],
                     lapsed |-> FALSE, status |-> "open"]
  <2>1. ps \in Seq(Promise) /\ Len(ps) \in Nat
    BY DEF TypeOK
  <2>4. kept \in Seq(Promise)
    BY <2>1, SupersedingType
  <2>5. new \in Promise
    BY DEF TypeOK, Promise, LivePromise
  <2> HIDE DEF kept, new
  <2>6. Append(kept, new) \in Seq(Promise)
    BY <2>4, <2>5
  <2>7. /\ promises' = [promises EXCEPT ![i] = Append(kept, new)]
        /\ timed' = [timed EXCEPT ![i] =
                       Scheduled(@ \ Replaced(ps), Len(ps) + 1)]
        /\ open' = [open EXCEPT ![i] = {}]
        /\ UNCHANGED <<status, moneyVars, pending, ruleVars, clerkVars,
                       enrolled>>
    BY <1>14 DEF RecordPromise, StopRelated, Superseding, kept, new
  <2>8. timed' \in [Invoice -> SUBSET (Nat \ {0})]
    BY <2>1, <2>7 DEF TypeOK, Scheduled
  <2> QED
    BY <2>6, <2>7, <2>8 DEF TypeOK
<1>15. ASSUME NEW i \in Invoice, NEW n \in DOMAIN promises[i],
              CancelPromise(i, n)
       PROVE  TypeOK'
  <2>1. [promises[i] EXCEPT ![n].status = "cancelled"] \in Seq(Promise)
    BY RestatusType DEF TypeOK
  <2>2. promises' = [promises EXCEPT ![i] =
                       [promises[i] EXCEPT ![n].status = "cancelled"]]
    BY <1>15 DEF TypeOK, CancelPromise
  <2>3. promises' \in [Invoice -> Seq(Promise)]
    BY <2>1, <2>2 DEF TypeOK
  <2> QED
    BY <1>15, <2>3 DEF TypeOK, CancelPromise, StopRelated
<1>16. ASSUME NEW i \in Invoice, NEW n \in DOMAIN promises[i],
              PromiseLapses(i, n)
       PROVE  TypeOK'
  <2>1. promises[i][n] \in Promise
    BY DEF TypeOK
  <2>2. [promises[i][n] EXCEPT !.lapsed = TRUE] \in Promise
    BY <2>1 DEF Promise
  <2>3. [promises[i] EXCEPT ![n].lapsed = TRUE] \in Seq(Promise)
    BY <2>2 DEF TypeOK
  <2>4. promises' = [promises EXCEPT ![i] =
                       [promises[i] EXCEPT ![n].lapsed = TRUE]]
    BY <1>16 DEF TypeOK, PromiseLapses
  <2>5. promises' \in [Invoice -> Seq(Promise)]
    BY <2>3, <2>4 DEF TypeOK
  <2> QED
    BY <1>16, <2>5 DEF TypeOK, PromiseLapses
<1>17. ASSUME NEW i \in Invoice, NEW enable \in BOOLEAN,
              SaveSettings(i, enable)
       PROVE  TypeOK'
  BY <1>17 DEF TypeOK, SaveSettings, StopRelated
<1>18. ASSUME NEW i \in Invoice, NEW s \in Scenario, EnrollByHand(i, s)
       PROVE  TypeOK'
  <2>1. [facts |-> Facts(i), scenario |-> s] \in Key
    BY FactsType DEF TypeOK, Key
  <2> QED
    BY <1>18, <2>1 DEF TypeOK, EnrollByHand, Enroll
<1>19. ASSUME NEW i \in Invoice, NEW key \in enrolled[i], Replan(i, key)
       PROVE  TypeOK'
  <2>1. key \in Key
    BY DEF TypeOK
  <2>2. [key EXCEPT !.facts = Facts(i)] \in Key
    BY <2>1, FactsType DEF TypeOK, Key
  <2> QED
    BY <1>19, <2>1, <2>2 DEF TypeOK, Replan
<1>20. ASSUME NEW i \in Invoice, EndSequence(i) PROVE TypeOK'
  BY <1>20 DEF TypeOK, EndSequence, StopRelated
<1>21. ASSUME NEW i \in Invoice, NEW job \in {0} \cup timed[i],
              NEW pastDue \in BOOLEAN, Evaluate(i, job, pastDue)
       PROVE  TypeOK'
  <2> DEFINE old == promises[i]
             kept == Settled(old, received[i])
             marked == [n \in DOMAIN kept |->
                          IF n \in {m \in {Len(old)} \cap LiveAt(kept) :
                                     /\ kept[m].status = "open"
                                     /\ kept[m].lapsed}
                          THEN [kept[n] EXCEPT !.status = "missed"]
                          ELSE kept[n]]
  <2>1. kept \in Seq(Promise) /\ DOMAIN kept = 1..Len(old) /\ Len(old) \in Nat
    BY SettledType DEF TypeOK
  <2>2. \A n \in 1..Len(old) :
          /\ kept[n] \in Promise
          /\ [kept[n] EXCEPT !.status = "missed"] \in Promise
    <3> TAKE n \in 1..Len(old)
    <3> HIDE DEF kept
    <3>1. kept[n] \in Promise
      BY <2>1
    <3> QED
      BY <3>1 DEF Promise, LivePromise
  <2>3. marked \in [1..Len(old) -> Promise]
    BY <2>1, <2>2
  <2>4. /\ promises' = [promises EXCEPT ![i] = marked]
        /\ timed' = [timed EXCEPT ![i] =
                       @ \ ({job} \cup (LiveAt(old) \ LiveAt(kept)))]
        /\ status' \in [Invoice -> InvoiceStatus]
        /\ UNCHANGED <<moneyVars, pending, ruleVars, clerkVars>>
    BY <1>21 DEF Evaluate, TypeOK, InvoiceStatus
  <2> HIDE DEF kept, marked
  <2>5. promises' \in [Invoice -> Seq(Promise)]
    BY <2>1, <2>3, <2>4, SegmentIsSeq DEF TypeOK
  <2>6. timed' \in [Invoice -> SUBSET (Nat \ {0})]
    BY <2>4 DEF TypeOK
  <2>7. Facts(i)' \in Fingerprint
    <3>1. promises'[i] \in Seq(Promise)
      BY <2>5
    <3>2. StateOfPromise(i)' \in PromiseState
      BY <3>1, StateType DEF StateOfPromise, Newest
    <3>3. Len(promises'[i]) \in Nat
      BY <3>1
    <3>4. received'[i] \in 0..Total /\ revision'[i] \in Nat
      BY <2>4 DEF TypeOK
    <3>5. Facts(i)' = [paid |-> received'[i], rules |-> revision'[i],
                      promise |-> Len(promises'[i]),
                      state |-> StateOfPromise(i)']
      BY DEF Facts
    <3> QED
      BY <3>2, <3>3, <3>4, <3>5 DEF Fingerprint
  <2>8. \/ UNCHANGED planVars
        \/ \E s \in Scenario : Enroll(i, [facts |-> Facts(i)', scenario |-> s])
    BY <1>21 DEF Evaluate, Scenario
  <2>9. /\ enrolled' \in [Invoice -> SUBSET Key]
        /\ open' \in [Invoice -> SUBSET Key]
    <3>1. CASE UNCHANGED planVars
      BY <3>1 DEF TypeOK
    <3>2. ASSUME NEW s \in Scenario,
                 Enroll(i, [facts |-> Facts(i)', scenario |-> s])
          PROVE  /\ enrolled' \in [Invoice -> SUBSET Key]
                 /\ open' \in [Invoice -> SUBSET Key]
      <4>1. [facts |-> Facts(i)', scenario |-> s] \in Key
        BY <2>7 DEF Key
      <4> QED
        BY <3>2, <4>1 DEF TypeOK, Enroll
    <3> QED
      BY <2>8, <3>1, <3>2
  <2> QED
    BY <2>4, <2>5, <2>6, <2>9 DEF TypeOK
<1>22. CASE UNCHANGED vars
  BY <1>22 DEF TypeOK, vars
<1> QED
  BY <1>1, <1>2, <1>3, <1>4, <1>5, <1>6, <1>7, <1>8, <1>9, <1>10, <1>11,
     <1>12, <1>13, <1>14, <1>15, <1>16, <1>17, <1>18, <1>19, <1>20, <1>21,
     <1>22
  DEF Next, Request, Record

\* Every variable keeps its type.
THEOREM TypeCorrect == Spec => []TypeOK
<1> QED
  BY TypeInit, TypeNext, PTL DEF Spec

-----------------------------------------------------------------------------
(* Settlement.                                                             *)

\* Every step keeps the status of an invoice in step with what it has
\* received.
LEMMA SettledNext ==
  TypeOK /\ PaidMeansSettled /\ [Next]_vars => PaidMeansSettled'
<1> SUFFICES ASSUME TypeOK, PaidMeansSettled, [Next]_vars
             PROVE  PaidMeansSettled'
  OBVIOUS
<1> USE DEF moneyVars, promiseVars, ruleVars, planVars, clerkVars, recordVars
<1>1. ASSUME UNCHANGED <<status, received>> PROVE PaidMeansSettled'
  BY <1>1 DEF PaidMeansSettled
<1>2. ASSUME NEW i \in Invoice,
             NEW s \in InvoiceStatus \ {"paid", "partially_paid"},
             status' = [status EXCEPT ![i] = s], UNCHANGED received
      PROVE  PaidMeansSettled'
  BY <1>2 DEF PaidMeansSettled, TypeOK
<1>3. ASSUME NEW c \in Clerk, MarkApprovalPending(c) PROVE PaidMeansSettled'
  BY <1>3 DEF PaidMeansSettled, TypeOK, MarkApprovalPending
<1>4. ASSUME NEW c \in Clerk, NEW i \in Invoice, InsertDraft(c, i)
      PROVE  PaidMeansSettled'
  BY <1>2, <1>4 DEF InsertDraft, InvoiceStatus
<1>5. ASSUME NEW i \in Invoice, NEW k \in ApprovalKind, Approve(i, k)
      PROVE  PaidMeansSettled'
  <2>1. received[i] \in 0..Total /\ Total \in Nat
    BY LedgerAssumption DEF TypeOK
  <2> QED
    BY <1>5, <2>1 DEF PaidMeansSettled, TypeOK, Approve, MayApply
<1>6. ASSUME NEW i \in Invoice, NEW e \in Event, NEW amount \in 1..Total,
             RecordPayment(i, e, amount)
      PROVE  PaidMeansSettled'
  <2>1. /\ received' = [received EXCEPT ![i] = received[i] + amount]
        /\ status' = [status EXCEPT ![i] = IF amount = Total - received[i]
                                          THEN "paid" ELSE "partially_paid"]
        /\ amount \in 1..(Total - received[i])
    BY <1>6 DEF RecordPayment, Remaining, Accepts
  <2>2. received[i] \in 0..Total /\ Total \in Nat
    BY LedgerAssumption DEF TypeOK
  <2>3. /\ status'[i] = "paid" => received'[i] = Total
        /\ status'[i] = "partially_paid" => received'[i] \in 1..(Total - 1)
    <3>1. /\ received'[i] = received[i] + amount
          /\ amount = Total - received[i] => status'[i] = "paid"
          /\ amount # Total - received[i] => status'[i] = "partially_paid"
      BY <2>1 DEF TypeOK
    <3> QED
      BY <2>1, <2>2, <3>1
  <2>4. \A j \in Invoice \ {i} :
          status'[j] = status[j] /\ received'[j] = received[j]
    BY <2>1 DEF TypeOK
  <2> QED
    BY <2>3, <2>4 DEF PaidMeansSettled
<1>7. ASSUME NEW i \in Invoice, NEW job \in {0} \cup timed[i],
             NEW pastDue \in BOOLEAN, Evaluate(i, job, pastDue)
      PROVE  PaidMeansSettled'
  <2>1. UNCHANGED received /\ (\/ status' = [status EXCEPT ![i] = "overdue"]
                             \/ status' = [status EXCEPT ![i] = status[i]])
    BY <1>7 DEF Evaluate
  <2> QED
    BY <2>1 DEF PaidMeansSettled, TypeOK
<1>8. ASSUME NEW c \in Clerk, Request(c) PROVE PaidMeansSettled'
  BY <1>1, <1>3, <1>4, <1>8
  DEF Request, Reads, ReadExisting, CheckPending, AskToIssue, Freeze, Abandon,
      RequestIssueApproval, RequestInvoiceIssue, RequestInvoiceAction
<1>9. ASSUME NEW i \in Invoice, Record(i) PROVE PaidMeansSettled'
  BY <1>1, <1>5, <1>6, <1>7, <1>9
  DEF Record, Reject, RecordPromise, CancelPromise, PromiseLapses,
      SaveSettings, EnrollByHand, Replan, EndSequence
<1>10. CASE UNCHANGED vars
  BY <1>1, <1>10 DEF vars
<1> QED
  BY <1>8, <1>9, <1>10 DEF Next

\* An invoice shown as paid is covered by receipts, and one shown as partly
\* paid is covered in part, whatever is approved and whenever.
THEOREM SettlementsAreEvidenced == Spec => []PaidMeansSettled
<1>1. Init => PaidMeansSettled
  BY DEF Init, PaidMeansSettled
<1>2. TypeOK /\ PaidMeansSettled /\ [Next]_vars => PaidMeansSettled'
  BY SettledNext
<1> QED
  BY TypeCorrect, <1>1, <1>2, PTL DEF Spec

-----------------------------------------------------------------------------
(* Promises.                                                               *)

\* PromisesAreAccountable of one invoice.
Accountable(ps, paid) ==
  \A n \in DOMAIN ps :
    /\ ps[n].base + ps[n].amount <= Total
    /\ ps[n].status \in LivePromise =>
         n = Len(ps) /\ paid < ps[n].base + ps[n].amount
    /\ ps[n].status \in {"met", "met_late"} =>
         paid >= ps[n].base + ps[n].amount

\* The promises are the same and no status became live or met.
Restated(ps, qs) ==
  /\ Len(qs) = Len(ps)
  /\ \A n \in 1..Len(ps) :
       /\ qs[n].amount = ps[n].amount /\ qs[n].base = ps[n].base
       /\ qs[n].status \in LivePromise => ps[n].status \in LivePromise
       /\ qs[n].status \in {"met", "met_late"} =>
            ps[n].status \in {"met", "met_late"}

\* Statuses that only leave the live ones keep the promises accountable.
LEMMA RestatedIsAccountable ==
  ASSUME NEW ps \in Seq(Promise), NEW qs \in Seq(Promise), NEW paid \in
         0..Total,
         Accountable(ps, paid), Restated(ps, qs)
  PROVE  Accountable(qs, paid)
BY DEF Accountable, Restated

\* What one promise becomes when it is settled.
LEMMA SettledAt ==
  ASSUME NEW ps \in Seq(Promise), NEW paid \in 0..Total, NEW n \in 1..Len(ps)
  PROVE  /\ ps[n] \in Promise
         /\ Settled(ps, paid)[n].amount = ps[n].amount
         /\ Settled(ps, paid)[n].base = ps[n].base
         /\ Settled(ps, paid)[n].lapsed = ps[n].lapsed
         /\ ps[n].status \in LivePromise /\ paid - ps[n].base >= ps[n].amount
              => Settled(ps, paid)[n].status \in {"met", "met_late"}
         /\ ~(/\ ps[n].status \in LivePromise
              /\ paid - ps[n].base >= ps[n].amount)
              => Settled(ps, paid)[n] = ps[n]
<1>1. ps[n] \in Promise /\ n \in DOMAIN ps
  OBVIOUS
<1>2. Settled(ps, paid)[n] =
        IF ps[n].status \in LivePromise /\ paid - ps[n].base >= ps[n].amount
        THEN [ps[n] EXCEPT !.status =
                IF ps[n].lapsed THEN "met_late" ELSE "met"]
        ELSE ps[n]
  BY <1>1 DEF Settled
<1> QED
  BY <1>1, <1>2 DEF Promise

\* Settling promises after a receipt keeps them accountable for the new sum.
LEMMA SettledIsAccountable ==
  ASSUME NEW ps \in Seq(Promise), NEW paid \in 0..Total, NEW more \in 0..Total,
         paid <= more, Accountable(ps, paid)
  PROVE  Accountable(Settled(ps, more), more)
<1> DEFINE kept == Settled(ps, more)
<1>1. kept \in Seq(Promise) /\ Len(kept) = Len(ps) /\ DOMAIN kept = 1..Len(ps)
  BY SettledType
<1> SUFFICES ASSUME NEW n \in 1..Len(ps)
             PROVE  /\ kept[n].base + kept[n].amount <= Total
                    /\ kept[n].status \in LivePromise =>
                         n = Len(ps) /\ more < kept[n].base + kept[n].amount
                    /\ kept[n].status \in {"met", "met_late"} =>
                         more >= kept[n].base + kept[n].amount
  BY <1>1 DEF Accountable
<1>2. /\ ps[n].base \in Nat /\ ps[n].amount \in Nat
      /\ ps[n].base + ps[n].amount <= Total
      /\ ps[n].status \in LivePromise => n = Len(ps)
      /\ ps[n].status \in {"met", "met_late"} =>
           paid >= ps[n].base + ps[n].amount
  <2>1. ps[n] \in Promise /\ n \in DOMAIN ps /\ Total \in Nat
    BY LedgerAssumption
  <2>2. ps[n].base \in Nat /\ ps[n].amount \in Nat
    BY <2>1 DEF Promise
  <2> QED
    BY <2>1, <2>2 DEF Accountable
<1>3. CASE ps[n].status \in LivePromise /\ more - ps[n].base >= ps[n].amount
  <2>1. kept[n].status \in {"met", "met_late"} /\ kept[n].base = ps[n].base
        /\ kept[n].amount = ps[n].amount
    BY <1>3, SettledAt
  <2> QED
    BY <1>2, <1>3, <2>1, LedgerAssumption DEF LivePromise
<1>4. CASE ~(ps[n].status \in LivePromise /\ more - ps[n].base >= ps[n].amount)
  <2>1. kept[n] = ps[n]
    BY <1>4, SettledAt
  <2> QED
    BY <1>2, <1>4, <2>1, LedgerAssumption DEF LivePromise
<1> QED
  BY <1>3, <1>4

\* Accountable promises were settled by the last receipt: there is nothing
\* left.
LEMMA NothingToSettle ==
  ASSUME NEW ps \in Seq(Promise), NEW paid \in 0..Total, Accountable(ps, paid)
  PROVE  Settled(ps, paid) = ps
<1>1. ASSUME NEW n \in DOMAIN ps
      PROVE  ~(/\ ps[n].status \in LivePromise
               /\ paid - ps[n].base >= ps[n].amount)
  <2>1. ps[n] \in Promise
    OBVIOUS
  <2>2. ps[n].base \in Nat /\ ps[n].amount \in Nat /\ paid \in Nat
    BY <2>1, LedgerAssumption DEF Promise
  <2>3. ps[n].status \in LivePromise => paid < ps[n].base + ps[n].amount
    BY DEF Accountable
  <2> QED
    BY <2>2, <2>3
<1>2. Settled(ps, paid) = [n \in DOMAIN ps |-> ps[n]]
  BY <1>1 DEF Settled
<1> QED
  BY <1>2

\* The promises of an invoice after an evaluation: what is open and past its
\* deadline is missed.
Judged(ps) ==
  [n \in DOMAIN ps |->
     IF n = Len(ps) /\ ps[n].status = "open" /\ ps[n].lapsed
     THEN [ps[n] EXCEPT !.status = "missed"] ELSE ps[n]]

\* Judging promises keeps a sequence of promises of the same length, and
\* changes the newest one at most.
LEMMA JudgedIs ==
  ASSUME NEW ps \in Seq(Promise)
  PROVE  /\ Judged(ps) \in Seq(Promise) /\ Len(Judged(ps)) = Len(ps)
         /\ \A n \in 1..Len(ps) :
              Judged(ps)[n] = IF n = Len(ps) /\ ps[n].status = "open"
                                 /\ ps[n].lapsed
                              THEN [ps[n] EXCEPT !.status = "missed"]
                              ELSE ps[n]
         /\ Restated(ps, Judged(ps))
<1>1. \A n \in 1..Len(ps) :
        ps[n] \in Promise /\ [ps[n] EXCEPT !.status = "missed"] \in Promise
  <2> TAKE n \in 1..Len(ps)
  <2>1. ps[n] \in Promise
    OBVIOUS
  <2> QED
    BY <2>1 DEF Promise, LivePromise
<1>2. Judged(ps) \in [1..Len(ps) -> Promise] /\ Len(ps) \in Nat
  BY <1>1 DEF Judged
<1>3. Judged(ps) \in Seq(Promise) /\ Len(Judged(ps)) = Len(ps)
  BY <1>2, SegmentIsSeq
<1>4. \A n \in 1..Len(ps) :
        Judged(ps)[n] = IF n = Len(ps) /\ ps[n].status = "open" /\ ps[n].lapsed
                        THEN [ps[n] EXCEPT !.status = "missed"] ELSE ps[n]
  BY DEF Judged
<1>5. Restated(ps, Judged(ps))
  BY <1>1, <1>3, <1>4 DEF Restated, Promise, LivePromise
<1> QED
  BY <1>3, <1>4, <1>5

\* An evaluation finds nothing to settle, and only judges the newest promise.
LEMMA EvaluateJudges ==
  ASSUME TypeOK, NEW i \in Invoice, NEW job, NEW pastDue,
         Accountable(promises[i], received[i]), Evaluate(i, job, pastDue)
  PROVE  /\ promises' = [promises EXCEPT ![i] = Judged(promises[i])]
         /\ timed' = [timed EXCEPT ![i] = @ \ {job}]
<1> DEFINE ps == promises[i]
<1>1. ps \in Seq(Promise) /\ received[i] \in 0..Total
  BY DEF TypeOK
<1>2. Settled(ps, received[i]) = ps
  BY <1>1, NothingToSettle
<1>3. promises' = [promises EXCEPT ![i] =
        [n \in DOMAIN ps |->
           IF n \in {m \in {Len(ps)} \cap LiveAt(ps) :
                       ps[m].status = "open" /\ ps[m].lapsed}
           THEN [ps[n] EXCEPT !.status = "missed"] ELSE ps[n]]]
  BY <1>2 DEF Evaluate
<1>4. Judged(ps) = [n \in DOMAIN ps |->
        IF n \in {m \in {Len(ps)} \cap LiveAt(ps) :
                    ps[m].status = "open" /\ ps[m].lapsed}
        THEN [ps[n] EXCEPT !.status = "missed"] ELSE ps[n]]
  BY DEF Judged, LiveAt, LivePromise
<1>5. timed' = [timed EXCEPT ![i] = @ \ ({job} \cup (LiveAt(ps) \ LiveAt(ps)))]
  BY <1>2 DEF Evaluate
<1>6. timed[i] \ ({job} \cup (LiveAt(ps) \ LiveAt(ps))) = timed[i] \ {job}
  OBVIOUS
<1> QED
  BY <1>3, <1>4, <1>5, <1>6

\* Every step keeps the promises of every invoice accountable.
LEMMA AccountableNext ==
  TypeOK /\ PromisesAreAccountable /\ [Next]_vars => PromisesAreAccountable'
<1> SUFFICES ASSUME TypeOK, PromisesAreAccountable, [Next]_vars
             PROVE  PromisesAreAccountable'
  OBVIOUS
<1> USE DEF moneyVars, promiseVars, ruleVars, planVars, clerkVars, recordVars
<1> DEFINE Acc(i) == Accountable(promises[i], received[i])
<1>1. ASSUME UNCHANGED <<promises, received>> PROVE PromisesAreAccountable'
  BY <1>1 DEF PromisesAreAccountable
\* Only one invoice is concerned.
<1>2. ASSUME NEW i \in Invoice, NEW ps \in Seq(Promise), NEW paid \in 0..Total,
             promises' = [promises EXCEPT ![i] = ps],
             received' = [received EXCEPT ![i] = paid],
             Accountable(ps, paid)
      PROVE  PromisesAreAccountable'
  <2>1. \A j \in Invoice : Accountable(promises'[j], received'[j])
    <3> TAKE j \in Invoice
    <3>1. CASE j = i
      BY <1>2, <3>1 DEF TypeOK
    <3>2. CASE j # i
      BY <1>2, <3>2 DEF TypeOK, PromisesAreAccountable, Accountable
    <3> QED
      BY <3>1, <3>2
  <2> QED
    BY <2>1 DEF PromisesAreAccountable, Accountable
<1>3. ASSUME NEW i \in Invoice
      PROVE  /\ promises[i] \in Seq(Promise) /\ received[i] \in 0..Total
             /\ received = [received EXCEPT ![i] = received[i]]
             /\ Acc(i)
  BY DEF TypeOK, PromisesAreAccountable, Accountable
<1> HIDE DEF Acc
<1>4. ASSUME NEW i \in Invoice, NEW ps \in Seq(Promise),
             promises' = [promises EXCEPT ![i] = ps], UNCHANGED received,
             Restated(promises[i], ps)
      PROVE  PromisesAreAccountable'
  <2>1. Accountable(ps, received[i])
    BY <1>3, <1>4, RestatedIsAccountable DEF Acc
  <2> QED
    BY <1>2, <1>3, <1>4, <2>1
<1>5. ASSUME NEW i \in Invoice, NEW e \in Event, NEW amount \in 1..Total,
             RecordPayment(i, e, amount)
      PROVE  PromisesAreAccountable'
  <2> DEFINE paid == received[i] + amount
  <2>1. paid \in 0..Total /\ received[i] <= paid
    BY <1>3, <1>5, LedgerAssumption DEF RecordPayment, Accepts, Remaining
  <2>2. /\ promises' = [promises EXCEPT ![i] = Settled(promises[i], paid)]
        /\ received' = [received EXCEPT ![i] = paid]
    BY <1>5 DEF RecordPayment
  <2> HIDE DEF paid
  <2>3. /\ Settled(promises[i], paid) \in Seq(Promise)
        /\ Accountable(Settled(promises[i], paid), paid)
    BY <1>3, <2>1, SettledType, SettledIsAccountable DEF Acc
  <2> QED
    BY <1>2, <2>1, <2>2, <2>3
<1>6. ASSUME NEW i \in Invoice, NEW amount \in 1..Total,
             RecordPromise(i, amount)
      PROVE  PromisesAreAccountable'
  <2> DEFINE ps == promises[i]
             kept == Superseding(ps)
             new == [amount |-> amount, base |-> received[i],
                     lapsed |-> FALSE, status |-> "open"]
  <2>1. /\ promises' = [promises EXCEPT ![i] = Append(kept, new)]
        /\ UNCHANGED received /\ received[i] + amount <= Total
    BY <1>3, <1>6, LedgerAssumption
    DEF RecordPromise, Superseding, Accepts, Remaining
  <2>2. kept \in Seq(Promise) /\ Len(kept) = Len(ps) /\ Len(ps) \in Nat
    BY <1>3, SupersedingType
  <2>3. \A m \in 1..Len(ps) :
          /\ kept[m].amount = ps[m].amount /\ kept[m].base = ps[m].base
          /\ kept[m].status \notin LivePromise
          /\ kept[m].status \in {"met", "met_late"} =>
               kept[m].status = ps[m].status
    <3> TAKE m \in 1..Len(ps)
    <3>1. ps[m] \in Promise /\ m \in DOMAIN ps
      BY <1>3
    <3>2. ps[m].status \in LivePromise => m \in Replaced(ps)
      BY <1>3, <3>1 DEF Acc, Accountable, Replaced, LiveAt
    <3>3. CASE m \in Replaced(ps)
      BY <3>1, <3>3 DEF Superseding, Promise, LivePromise
    <3>4. CASE m \notin Replaced(ps)
      BY <3>1, <3>2, <3>4 DEF Superseding
    <3> QED
      BY <3>3, <3>4
  <2>4. new \in Promise /\ new.base + new.amount <= Total
        /\ received[i] < new.base + new.amount /\ new.status = "open"
    BY <1>3, <2>1, LedgerAssumption DEF Promise, LivePromise
  <2>5. \A m \in 1..Len(ps) :
          /\ ps[m].base + ps[m].amount <= Total
          /\ ps[m].status \in {"met", "met_late"} =>
               received[i] >= ps[m].base + ps[m].amount
    BY <1>3 DEF Acc, Accountable
  <2> HIDE DEF kept, new
  <2>6. Append(kept, new) \in Seq(Promise)
    BY <2>2, <2>4
  <2>7. Accountable(Append(kept, new), received[i])
    <3>1. DOMAIN Append(kept, new) = 1..(Len(ps) + 1)
          /\ Len(Append(kept, new)) = Len(ps) + 1
          /\ Append(kept, new)[Len(ps) + 1] = new
          /\ \A m \in 1..Len(ps) : Append(kept, new)[m] = kept[m]
      BY <2>2, <2>4
    <3> QED
      BY <2>2, <2>3, <2>4, <2>5, <3>1 DEF Accountable
  <2> QED
    BY <1>2, <1>3, <2>1, <2>6, <2>7
<1>7. ASSUME NEW i \in Invoice, NEW n \in DOMAIN promises[i],
             CancelPromise(i, n)
      PROVE  PromisesAreAccountable'
  <2> DEFINE ps == [promises[i] EXCEPT ![n].status = "cancelled"]
  <2>1. promises' = [promises EXCEPT ![i] = ps] /\ UNCHANGED received
    BY <1>7 DEF TypeOK, CancelPromise
  <2>2. ps \in Seq(Promise) /\ Len(ps) = Len(promises[i])
    BY <1>3, RestatusType
  <2>3. \A m \in DOMAIN promises[i] : promises[i][m] \in Promise
    BY <1>3
  <2>4. Restated(promises[i], ps)
    <3>1. \A m \in DOMAIN promises[i] :
            /\ ps[m].amount = promises[i][m].amount
            /\ ps[m].base = promises[i][m].base
            /\ \/ ps[m].status = "cancelled"
               \/ ps[m].status = promises[i][m].status
      BY <1>3, <2>2, <2>3 DEF Promise
    <3>2. DOMAIN promises[i] = 1..Len(promises[i])
      BY <1>3
    <3> HIDE DEF ps
    <3> QED
      BY <2>2, <3>1, <3>2 DEF Restated, LivePromise
  <2> HIDE DEF ps
  <2> QED
    BY <1>4, <2>1, <2>2, <2>4
<1>8. ASSUME NEW i \in Invoice, NEW n \in DOMAIN promises[i],
             PromiseLapses(i, n)
      PROVE  PromisesAreAccountable'
  <2> DEFINE ps == [promises[i] EXCEPT ![n].lapsed = TRUE]
  <2>1. promises' = [promises EXCEPT ![i] = ps] /\ UNCHANGED received
    BY <1>8 DEF TypeOK, PromiseLapses
  <2>2. \A m \in DOMAIN promises[i] : promises[i][m] \in Promise
    BY <1>3
  <2>3. ps \in Seq(Promise) /\ Len(ps) = Len(promises[i])
    <3>1. [promises[i][n] EXCEPT !.lapsed = TRUE] \in Promise
      BY <2>2 DEF Promise
    <3> QED
      BY <1>3, <3>1
  <2>4. Restated(promises[i], ps)
    <3>1. \A m \in DOMAIN promises[i] :
            /\ ps[m].amount = promises[i][m].amount
            /\ ps[m].base = promises[i][m].base
            /\ ps[m].status = promises[i][m].status
      BY <1>3, <2>2 DEF Promise
    <3>2. DOMAIN promises[i] = 1..Len(promises[i])
      BY <1>3
    <3> HIDE DEF ps
    <3> QED
      BY <2>3, <3>1, <3>2 DEF Restated
  <2> HIDE DEF ps
  <2> QED
    BY <1>4, <2>1, <2>3, <2>4
<1>9. ASSUME NEW i \in Invoice, NEW job \in {0} \cup timed[i],
             NEW pastDue \in BOOLEAN, Evaluate(i, job, pastDue)
      PROVE  PromisesAreAccountable'
  <2>1. promises' = [promises EXCEPT ![i] = Judged(promises[i])]
    BY <1>3, <1>9, EvaluateJudges DEF Acc
  <2>2. Judged(promises[i]) \in Seq(Promise)
        /\ Restated(promises[i], Judged(promises[i]))
    BY <1>3, JudgedIs
  <2>3. UNCHANGED received
    BY <1>9 DEF Evaluate
  <2> QED
    BY <1>4, <2>1, <2>2, <2>3
<1>10. ASSUME NEW c \in Clerk, Request(c) PROVE PromisesAreAccountable'
  BY <1>1, <1>10
  DEF Request, Reads, ReadExisting, CheckPending, MarkApprovalPending,
      AskToIssue, Freeze, Abandon, InsertDraft, RequestIssueApproval,
      RequestInvoiceIssue, RequestInvoiceAction
<1>11. ASSUME NEW i \in Invoice, Record(i) PROVE PromisesAreAccountable'
  BY <1>1, <1>5, <1>6, <1>7, <1>8, <1>9, <1>11
  DEF Record, Approve, Reject, SaveSettings, EnrollByHand, Replan, EndSequence
<1>12. CASE UNCHANGED vars
  BY <1>1, <1>12 DEF vars
<1> QED
  BY <1>10, <1>11, <1>12 DEF Next

\* Only the newest promise of an invoice is live, and what it promises is still
\* to be paid, however receipts, promises and evaluations interleave.
THEOREM PromisesStayAccountable == Spec => []PromisesAreAccountable
<1>1. Init => PromisesAreAccountable
  BY DEF Init, PromisesAreAccountable
<1>2. /\ TypeOK /\ PromisesAreAccountable
      /\ [Next]_vars
      => PromisesAreAccountable'
  BY AccountableNext
<1> QED
  BY TypeCorrect, <1>1, <1>2, PTL DEF Spec

-----------------------------------------------------------------------------
(* Deadlines.                                                              *)

\* OpenPromiseIsTimed of one invoice.
Timed(ps, jobs) ==
  \A n \in DOMAIN ps : ps[n].status = "open" => n \in jobs

\* Every step keeps a job for every open promise.
LEMMA TimedNext ==
  ASSUME TypeOK, PromisesAreAccountable, OpenPromiseIsTimed, [Next]_vars
  PROVE  OpenPromiseIsTimed'
<1> USE DEF moneyVars, promiseVars, ruleVars, planVars, clerkVars, recordVars
<1>1. ASSUME UNCHANGED <<promises, timed>> PROVE OpenPromiseIsTimed'
  BY <1>1 DEF OpenPromiseIsTimed
\* Only one invoice is concerned.
<1>2. ASSUME NEW i \in Invoice, NEW ps, NEW jobs,
             promises' = [promises EXCEPT ![i] = ps],
             timed' = [timed EXCEPT ![i] = jobs],
             Timed(ps, jobs)
      PROVE  OpenPromiseIsTimed'
  <2>1. \A j \in Invoice : Timed(promises'[j], timed'[j])
    <3> TAKE j \in Invoice
    <3>1. CASE j = i
      BY <1>2, <3>1 DEF TypeOK
    <3>2. CASE j # i
      BY <1>2, <3>2 DEF TypeOK, OpenPromiseIsTimed, Timed
    <3> QED
      BY <3>1, <3>2
  <2> QED
    BY <2>1 DEF OpenPromiseIsTimed, Timed
<1>3. ASSUME NEW i \in Invoice
      PROVE  /\ promises[i] \in Seq(Promise) /\ received[i] \in 0..Total
             /\ timed[i] \subseteq Nat \ {0}
             /\ Timed(promises[i], timed[i])
             /\ Accountable(promises[i], received[i])
  BY DEF TypeOK, OpenPromiseIsTimed, Timed, PromisesAreAccountable, Accountable
<1>4. ASSUME NEW i \in Invoice, NEW e \in Event, NEW amount \in 1..Total,
             RecordPayment(i, e, amount)
      PROVE  OpenPromiseIsTimed'
  <2> DEFINE paid == received[i] + amount
             kept == Settled(promises[i], paid)
             jobs == timed[i] \ (LiveAt(promises[i]) \ LiveAt(kept))
  <2>1. paid \in 0..Total
    BY <1>3, <1>4, LedgerAssumption DEF RecordPayment, Accepts, Remaining
  <2>2. /\ promises' = [promises EXCEPT ![i] = kept]
        /\ timed' = [timed EXCEPT ![i] = jobs]
    BY <1>4 DEF RecordPayment
  <2> HIDE DEF paid
  <2>3. DOMAIN kept = 1..Len(promises[i]) /\ DOMAIN kept = DOMAIN promises[i]
    BY <1>3, <2>1, SettledType
  <2>4. \A n \in DOMAIN kept : kept[n].status = "open" =>
          promises[i][n].status = "open"
    BY <1>3, <2>1, <2>3, SettledAt
  <2>5. Timed(kept, jobs)
    BY <1>3, <2>3, <2>4 DEF Timed, LiveAt, LivePromise
  <2> HIDE DEF kept, jobs
  <2> QED
    BY <1>2, <2>2, <2>5
<1>5. ASSUME NEW i \in Invoice, NEW amount \in 1..Total,
             RecordPromise(i, amount)
      PROVE  OpenPromiseIsTimed'
  <2> DEFINE ps == promises[i]
             kept == Superseding(ps)
             new == [amount |-> amount, base |-> received[i],
                     lapsed |-> FALSE, status |-> "open"]
             jobs == (timed[i] \ Replaced(ps)) \cup {Len(ps) + 1}
  <2>1. /\ promises' = [promises EXCEPT ![i] = Append(kept, new)]
        /\ timed' = [timed EXCEPT ![i] = jobs]
    BY <1>5 DEF RecordPromise, Superseding, Scheduled
  <2>2. Len(ps) \in Nat /\ DOMAIN ps = 1..Len(ps)
    BY <1>3
  <2>3. \A m \in 1..Len(ps) : kept[m].status = "open" => m \in jobs
    <3> TAKE m \in 1..Len(ps)
    <3>1. ps[m] \in Promise
      BY <1>3
    <3>2. CASE m \in Replaced(ps)
      BY <2>2, <3>1, <3>2 DEF Superseding, Promise
    <3>3. CASE m \notin Replaced(ps)
      BY <1>3, <2>2, <3>3 DEF Superseding, Timed
    <3> QED
      BY <3>2, <3>3
  <2>4. kept \in Seq(Promise) /\ Len(kept) = Len(ps)
    BY <1>3, SupersedingType
  <2> HIDE DEF kept, new
  <2>5. DOMAIN Append(kept, new) = 1..(Len(ps) + 1)
        /\ \A m \in 1..Len(ps) : Append(kept, new)[m] = kept[m]
    BY <2>2, <2>4
  <2>6. Timed(Append(kept, new), jobs)
    BY <2>2, <2>3, <2>5 DEF Timed
  <2> HIDE DEF jobs
  <2> QED
    BY <1>2, <2>1, <2>6
<1>6. ASSUME NEW i \in Invoice, NEW n \in DOMAIN promises[i],
             CancelPromise(i, n)
      PROVE  OpenPromiseIsTimed'
  <2> DEFINE ps == [promises[i] EXCEPT ![n].status = "cancelled"]
  <2>1. /\ promises' = [promises EXCEPT ![i] = ps]
        /\ timed' = [timed EXCEPT ![i] = timed[i] \ {n}]
    BY <1>6 DEF TypeOK, CancelPromise
  <2>2. promises[i][n] \in Promise
    BY <1>3
  <2>3. Timed(ps, timed[i] \ {n})
    BY <1>3, <2>2 DEF Timed, Promise
  <2> HIDE DEF ps
  <2> QED
    BY <1>2, <2>1, <2>3
<1>7. ASSUME NEW i \in Invoice, NEW n \in DOMAIN promises[i],
             PromiseLapses(i, n)
      PROVE  OpenPromiseIsTimed'
  <2> DEFINE ps == [promises[i] EXCEPT ![n].lapsed = TRUE]
  <2>1. /\ promises' = [promises EXCEPT ![i] = ps]
        /\ timed' = [timed EXCEPT ![i] = timed[i]]
    BY <1>7 DEF TypeOK, PromiseLapses
  <2>2. promises[i][n] \in Promise
    BY <1>3
  <2>3. Timed(ps, timed[i])
    BY <1>3, <2>2 DEF Timed, Promise
  <2> HIDE DEF ps
  <2> QED
    BY <1>2, <2>1, <2>3
<1>8. ASSUME NEW i \in Invoice, NEW job \in {0} \cup timed[i],
             NEW pastDue \in BOOLEAN, Evaluate(i, job, pastDue)
      PROVE  OpenPromiseIsTimed'
  <2> DEFINE ps == promises[i]
  <2>1. /\ promises' = [promises EXCEPT ![i] = Judged(ps)]
        /\ timed' = [timed EXCEPT ![i] = timed[i] \ {job}]
    BY <1>3, <1>8, EvaluateJudges
  <2>2. job # 0 => ps[job].lapsed
    BY <1>8 DEF Evaluate
  <2>3. ASSUME NEW n \in 1..Len(ps), Judged(ps)[n].status = "open"
        PROVE  n \in timed[i] \ {job}
    <3>1. ps[n] \in Promise /\ n \in DOMAIN ps
      BY <1>3
    <3>2. ps[n].status = "open" /\ ~(n = Len(ps) /\ ps[n].lapsed)
      <4>1. Judged(ps)[n] = IF n = Len(ps) /\ ps[n].status = "open"
                               /\ ps[n].lapsed
                            THEN [ps[n] EXCEPT !.status = "missed"] ELSE ps[n]
        BY <1>3, JudgedIs
      <4> QED
        BY <2>3, <3>1, <4>1 DEF Promise
    <3>3. n = Len(ps) /\ n \in timed[i]
      BY <1>3, <3>1, <3>2 DEF Accountable, Timed, LivePromise
    <3> QED
      BY <2>2, <3>2, <3>3
  <2>4. DOMAIN Judged(ps) = 1..Len(ps)
    BY <1>3 DEF Judged
  <2>5. Timed(Judged(ps), timed[i] \ {job})
    BY <2>3, <2>4 DEF Timed
  <2> QED
    BY <1>2, <2>1, <2>5
<1>9. ASSUME NEW c \in Clerk, Request(c) PROVE OpenPromiseIsTimed'
  BY <1>1, <1>9
  DEF Request, Reads, ReadExisting, CheckPending, MarkApprovalPending,
      AskToIssue, Freeze, Abandon, InsertDraft, RequestIssueApproval,
      RequestInvoiceIssue, RequestInvoiceAction
<1>10. ASSUME NEW i \in Invoice, Record(i) PROVE OpenPromiseIsTimed'
  BY <1>1, <1>4, <1>5, <1>6, <1>7, <1>8, <1>10
  DEF Record, Approve, Reject, SaveSettings, EnrollByHand, Replan, EndSequence
<1>11. CASE UNCHANGED vars
  BY <1>1, <1>11 DEF vars
<1> QED
  BY <1>9, <1>10, <1>11 DEF Next

\* Every open promise has its evaluation in the queue.  It needs that only the
\* newest promise is live: an evaluation takes its own job away and judges that
\* one promise.
THEOREM DeadlinesAreKept == Spec => []OpenPromiseIsTimed
<1>1. Init => OpenPromiseIsTimed
  BY DEF Init, OpenPromiseIsTimed
<1>2. /\ TypeOK /\ PromisesAreAccountable /\ OpenPromiseIsTimed
      /\ [Next]_vars
      => OpenPromiseIsTimed'
  BY TimedNext
<1> QED
  BY TypeCorrect, PromisesStayAccountable, <1>1, <1>2, PTL DEF Spec

-----------------------------------------------------------------------------
(* Collection sequences.                                                   *)

\* OpenSequenceIsCurrent of one invoice.
CurrentAt(i) ==
  /\ \A key \in open[i] :
       open[i] = {key} /\ key \in enrolled[i] /\ key.facts = Facts(i)
  /\ open[i] # {} => Remaining(i) > 0 /\ StateOfPromise(i) # "open"

\* What is known of the other invoices does not change.
Untouched(j) ==
  /\ open'[j] = open[j] /\ enrolled'[j] = enrolled[j]
  /\ received'[j] = received[j] /\ revision'[j] = revision[j]
  /\ promises'[j] = promises[j]

\* An invoice nothing happened to keeps a current sequence current.
LEMMA UntouchedStaysCurrent ==
  ASSUME NEW j, CurrentAt(j), Untouched(j) PROVE CurrentAt(j)'
BY DEF CurrentAt, Untouched, Facts, Remaining, StateOfPromise, Newest

\* Every step keeps the open sequence of every invoice current.
LEMMA CurrentNext ==
  ASSUME TypeOK, PromisesAreAccountable, OpenSequenceIsCurrent, [Next]_vars
  PROVE  OpenSequenceIsCurrent'
<1> USE DEF moneyVars, promiseVars, ruleVars, planVars, clerkVars, recordVars
<1> SUFFICES \A j \in Invoice : CurrentAt(j)'
  BY DEF OpenSequenceIsCurrent, CurrentAt
<1>1. \A j \in Invoice : CurrentAt(j)
  BY DEF OpenSequenceIsCurrent, CurrentAt
<1>2. ASSUME UNCHANGED <<open, enrolled, received, revision, promises>>
      PROVE  \A j \in Invoice : CurrentAt(j)'
  BY <1>1, <1>2, UntouchedStaysCurrent DEF Untouched
\* What changes the facts of an invoice ends its sequences.
<1>3. ASSUME NEW i \in Invoice, open'[i] = {},
             \A j \in Invoice \ {i} : Untouched(j)
      PROVE  \A j \in Invoice : CurrentAt(j)'
  <2>1. CurrentAt(i)'
    BY <1>3 DEF CurrentAt
  <2> QED
    BY <1>1, <1>3, <2>1, UntouchedStaysCurrent
\* A sequence is opened for the facts of the moment.
<1>4. ASSUME NEW i \in Invoice, NEW key,
             open'[i] = {key}, key \in enrolled'[i],
             key.facts = Facts(i)', Remaining(i)' > 0,
             StateOfPromise(i)' # "open",
             \A j \in Invoice \ {i} : Untouched(j)
      PROVE  \A j \in Invoice : CurrentAt(j)'
  <2>1. CurrentAt(i)'
    BY <1>4 DEF CurrentAt
  <2> QED
    BY <1>1, <1>4, <2>1, UntouchedStaysCurrent
<1>5. ASSUME NEW c \in Clerk, Freeze(c) PROVE \A j \in Invoice : CurrentAt(j)'
  <2>1. \A j \in Invoice : open'[j] = {} \/ Untouched(j)
    BY <1>5 DEF TypeOK, Freeze, StopRelated, Untouched
  <2>2. \A j \in Invoice : open'[j] = {} => CurrentAt(j)'
    BY DEF CurrentAt
  <2> QED
    BY <1>1, <2>1, <2>2, UntouchedStaysCurrent
<1>6. ASSUME NEW i \in Invoice, NEW e \in Event, NEW amount \in 1..Total,
             RecordPayment(i, e, amount)
      PROVE  \A j \in Invoice : CurrentAt(j)'
  BY <1>3, <1>6 DEF TypeOK, RecordPayment, StopRelated, Untouched
<1>7. ASSUME NEW i \in Invoice, NEW amount \in 1..Total,
             RecordPromise(i, amount)
      PROVE  \A j \in Invoice : CurrentAt(j)'
  BY <1>3, <1>7 DEF TypeOK, RecordPromise, StopRelated, Untouched
<1>8. ASSUME NEW i \in Invoice, NEW n \in DOMAIN promises[i],
             CancelPromise(i, n)
      PROVE  \A j \in Invoice : CurrentAt(j)'
  BY <1>3, <1>8 DEF TypeOK, CancelPromise, StopRelated, Untouched
<1>9. ASSUME NEW i \in Invoice, NEW enable \in BOOLEAN, SaveSettings(i, enable)
      PROVE  \A j \in Invoice : CurrentAt(j)'
  BY <1>3, <1>9 DEF TypeOK, SaveSettings, StopRelated, Untouched
<1>10. ASSUME NEW i \in Invoice, EndSequence(i)
       PROVE  \A j \in Invoice : CurrentAt(j)'
  BY <1>3, <1>10 DEF TypeOK, EndSequence, StopRelated, Untouched
<1>11. ASSUME NEW i \in Invoice, NEW s \in Scenario, EnrollByHand(i, s)
       PROVE  \A j \in Invoice : CurrentAt(j)'
  <2> DEFINE key == [facts |-> Facts(i), scenario |-> s]
  <2>1. /\ open' = [open EXCEPT ![i] = {key}]
        /\ enrolled' = [enrolled EXCEPT ![i] = @ \cup {key}]
        /\ UNCHANGED <<received, revision, promises>>
        /\ Remaining(i) > 0 /\ StateOfPromise(i) # "open"
    BY <1>11 DEF EnrollByHand, Enroll, MayCollect
  <2>2. /\ Facts(i)' = Facts(i) /\ Remaining(i)' = Remaining(i)
        /\ StateOfPromise(i)' = StateOfPromise(i)
    BY <2>1 DEF Facts, Remaining, StateOfPromise, Newest
  <2>3. \A j \in Invoice \ {i} : Untouched(j)
    BY <2>1 DEF TypeOK, Untouched
  <2>4. open'[i] = {key} /\ key \in enrolled'[i] /\ key.facts = Facts(i)
    BY <2>1 DEF TypeOK
  <2> HIDE DEF key
  <2> QED
    BY <1>4, <2>1, <2>2, <2>3, <2>4
<1>12. ASSUME NEW i \in Invoice, NEW old \in enrolled[i], Replan(i, old)
       PROVE  \A j \in Invoice : CurrentAt(j)'
  <2> DEFINE key == [old EXCEPT !.facts = Facts(i)]
  <2>1. /\ open' = [open EXCEPT ![i] = {key}]
        /\ enrolled' = [enrolled EXCEPT ![i] = (@ \ {old}) \cup {key}]
        /\ UNCHANGED <<received, revision, promises>>
        /\ Remaining(i) > 0 /\ StateOfPromise(i) # "open"
    BY <1>12 DEF Replan, MayCollect
  <2>2. /\ Facts(i)' = Facts(i) /\ Remaining(i)' = Remaining(i)
        /\ StateOfPromise(i)' = StateOfPromise(i)
    BY <2>1 DEF Facts, Remaining, StateOfPromise, Newest
  <2>3. \A j \in Invoice \ {i} : Untouched(j)
    BY <2>1 DEF TypeOK, Untouched
  <2>4. old \in Key
    BY DEF TypeOK
  <2>5. open'[i] = {key} /\ key \in enrolled'[i] /\ key.facts = Facts(i)
    BY <2>1, <2>4 DEF TypeOK, Key
  <2> HIDE DEF key
  <2> QED
    BY <1>4, <2>1, <2>2, <2>3, <2>5
<1>13. ASSUME NEW i \in Invoice, NEW n \in DOMAIN promises[i],
              PromiseLapses(i, n)
       PROVE  \A j \in Invoice : CurrentAt(j)'
  <2>1. promises[i] \in Seq(Promise) /\ promises[i][n].status = "open"
        /\ ~promises[i][n].lapsed
    BY <1>13 DEF TypeOK, PromiseLapses
  <2>2. n = Len(promises[i])
    BY <2>1 DEF PromisesAreAccountable, LivePromise
  <2>3. StateOfPromise(i) = "open"
    BY <2>1, <2>2 DEF StateOfPromise, Newest
  <2>4. open[i] = {}
    BY <1>1, <2>3 DEF CurrentAt
  <2> QED
    BY <1>3, <1>13, <2>4 DEF TypeOK, PromiseLapses, Untouched
<1>14. ASSUME NEW i \in Invoice, NEW job \in {0} \cup timed[i],
              NEW pastDue \in BOOLEAN, Evaluate(i, job, pastDue)
       PROVE  \A j \in Invoice : CurrentAt(j)'
  <2> DEFINE ps == promises[i]
  <2>1. ps \in Seq(Promise) /\ received[i] \in 0..Total
        /\ Accountable(ps, received[i])
    BY DEF TypeOK, PromisesAreAccountable, Accountable
  <2>2. promises' = [promises EXCEPT ![i] = Judged(ps)]
        /\ UNCHANGED <<received, revision>>
    BY <1>14, <2>1, EvaluateJudges DEF Evaluate
  <2>3. promises'[i] = Judged(ps)
    BY <2>2 DEF TypeOK
  <2>4. Len(Judged(ps)) = Len(ps) /\ Len(ps) \in Nat
    BY <2>1, JudgedIs
  <2>5. StateOfPromise(i)' = StateOfPromise(i)
    <3>1. CASE ps = <<>>
      <4>1. Judged(ps) = <<>>
        BY <3>1 DEF Judged
      <4> QED
        BY <2>3, <3>1, <4>1 DEF StateOfPromise
    <3>2. CASE ps # <<>>
      <4>1. Len(ps) \in 1..Len(ps) /\ ps[Len(ps)] \in Promise
        BY <2>1, <3>2
      <4>2. Judged(ps)[Len(ps)] =
              IF ps[Len(ps)].status = "open" /\ ps[Len(ps)].lapsed
              THEN [ps[Len(ps)] EXCEPT !.status = "missed"] ELSE ps[Len(ps)]
        BY <2>1, <4>1, JudgedIs
      <4>3. Judged(ps) # <<>>
        BY <2>1, <2>4, <3>2, <4>1, JudgedIs
      <4> QED
        BY <2>3, <2>4, <3>2, <4>1, <4>2, <4>3
        DEF StateOfPromise, Newest, Promise
    <3> QED
      BY <3>1, <3>2
  <2>6. Facts(i)' = Facts(i) /\ Remaining(i)' = Remaining(i)
    BY <2>2, <2>3, <2>4, <2>5 DEF Facts, Remaining
  <2>7. CASE UNCHANGED planVars
    <3>1. CurrentAt(i)'
      BY <1>1, <2>5, <2>6, <2>7 DEF CurrentAt
    <3>2. \A j \in Invoice \ {i} : Untouched(j)
      BY <2>2, <2>7 DEF TypeOK, Untouched
    <3> QED
      BY <1>1, <3>1, <3>2, UntouchedStaysCurrent
  <2>8. ASSUME MayCollect(i)', NEW s \in Scenario,
               Enroll(i, [facts |-> Facts(i)', scenario |-> s])
        PROVE  \A j \in Invoice : CurrentAt(j)'
    <3> DEFINE key == [facts |-> Facts(i)', scenario |-> s]
    <3>1. /\ open' = [open EXCEPT ![i] = {key}]
          /\ enrolled' = [enrolled EXCEPT ![i] = @ \cup {key}]
      BY <2>8 DEF Enroll
    <3>2. Remaining(i)' > 0 /\ StateOfPromise(i)' # "open"
      BY <2>8 DEF MayCollect
    <3>3. \A j \in Invoice \ {i} : Untouched(j)
      BY <2>2, <3>1 DEF TypeOK, Untouched
    <3>4. open'[i] = {key} /\ key \in enrolled'[i] /\ key.facts = Facts(i)'
      BY <3>1 DEF TypeOK
    <3> HIDE DEF key
    <3> QED
      BY <1>4, <3>2, <3>3, <3>4
  <2>9. \/ UNCHANGED planVars
        \/ /\ MayCollect(i)'
           /\ \E s \in Scenario :
                Enroll(i, [facts |-> Facts(i)', scenario |-> s])
    BY <1>14 DEF Evaluate, Scenario
  <2> QED
    BY <2>7, <2>8, <2>9
<1>15. ASSUME NEW c \in Clerk, Request(c)
       PROVE  \A j \in Invoice : CurrentAt(j)'
  BY <1>2, <1>5, <1>15
  DEF Request, Reads, ReadExisting, CheckPending, MarkApprovalPending,
      AskToIssue, Abandon, InsertDraft, RequestIssueApproval,
      RequestInvoiceIssue, RequestInvoiceAction
<1>16. ASSUME NEW i \in Invoice, Record(i)
       PROVE  \A j \in Invoice : CurrentAt(j)'
  BY <1>2, <1>6, <1>7, <1>8, <1>9, <1>10, <1>11, <1>12, <1>13, <1>14, <1>16
  DEF Record, Approve, Reject
<1>17. CASE UNCHANGED vars
  BY <1>2, <1>17 DEF vars
<1> QED
  BY <1>15, <1>16, <1>17 DEF Next

\* The open collection sequence of an invoice is the only one and quotes what
\* the records say.  It needs that a promise can only lapse while it is the
\* newest, and that an evaluation finds no promise left to settle.
THEOREM SequencesStayCurrent == Spec => []OpenSequenceIsCurrent
<1>1. Init => OpenSequenceIsCurrent
  BY DEF Init, OpenSequenceIsCurrent
<1>2. /\ TypeOK /\ PromisesAreAccountable /\ OpenSequenceIsCurrent
      /\ [Next]_vars
      => OpenSequenceIsCurrent'
  BY CurrentNext
<1> QED
  BY TypeCorrect, PromisesStayAccountable, <1>1, <1>2, PTL DEF Spec

-----------------------------------------------------------------------------
(* Sums over finite sets.                                                  *)

\* What holds of a subset of a finite set whenever it holds of the smaller ones
\* holds of all of them.
LEMMA SubsetInduction ==
  ASSUME NEW S, IsFiniteSet(S), NEW good,
         \A t \in SUBSET S : (SUBSET t) \ {t} \subseteq good => t \in good
  PROVE  SUBSET S \subseteq good
<1> DEFINE bad == {t \in SUBSET S : t \notin good}
<1>1. IsWellFoundedOn(StrictSubsetOrdering(S), SUBSET S)
  BY FS_StrictSubsetOrderingWellFounded, FS_FiniteSubsetsOfFinite
<1>2. ASSUME bad # {} PROVE FALSE
  <2>1. bad \subseteq SUBSET S
    OBVIOUS
  <2>2. PICK t \in bad : \A u \in bad : <<u, t>> \notin StrictSubsetOrdering(S)
    <3> HIDE DEF bad
    <3> QED
      BY <1>1, <1>2, <2>1, WFMin
  <2>3. ASSUME NEW u \in (SUBSET t) \ {t}, u \notin good PROVE FALSE
    <3>1. u \in bad /\ u \subseteq t /\ u # t
      BY <2>3
    <3>2. <<u, t>> \in StrictSubsetOrdering(S)
      BY <3>1 DEF StrictSubsetOrdering
    <3> QED
      BY <2>2, <3>1, <3>2
  <2> QED
    BY <2>3
<1> QED
  BY <1>2

\* How a sum goes through a set.
Chosen(s) == CHOOSE x \in s : TRUE
Iterates(it, f, S) ==
  it = [s \in SUBSET S |-> IF s = {} THEN 0 ELSE f[Chosen(s)] + it[s \ {Chosen(s)}]]

\* The sum over a set is what these iterations, chosen once, come to.
LEMMA SumUnfolds ==
  ASSUME NEW f, NEW S
  PROVE  SumFunctionOnSet(f, S) = (CHOOSE it : Iterates(it, f, S))[S]
BY DEF SumFunctionOnSet, FoldFunctionOnSet, MapThenFoldSet, Iterates, Chosen

\* An element is chosen among them.
LEMMA ChosenIn == ASSUME NEW s, s # {} PROVE Chosen(s) \in s
BY DEF Chosen

\* Two functions that iterate alike are the same.
LEMMA IteratesOnce ==
  ASSUME NEW f, NEW S, IsFiniteSet(S), NEW g, NEW h,
         Iterates(g, f, S), Iterates(h, f, S)
  PROVE  g = h
<1> DEFINE good == {t \in SUBSET S : g[t] = h[t]}
<1>1. ASSUME NEW t \in SUBSET S, (SUBSET t) \ {t} \subseteq good PROVE t \in good
  <2>1. CASE t = {}
    BY <2>1 DEF Iterates
  <2>2. CASE t # {}
    <3>1. Chosen(t) \in t
      BY <2>2, ChosenIn
    <3>2. g[t \ {Chosen(t)}] = h[t \ {Chosen(t)}]
      BY <1>1, <3>1
    <3>3. g[t] = f[Chosen(t)] + g[t \ {Chosen(t)}]
      BY <2>2 DEF Iterates
    <3>4. h[t] = f[Chosen(t)] + h[t \ {Chosen(t)}]
      BY <2>2 DEF Iterates
    <3> QED
      BY <3>2, <3>3, <3>4
  <2> QED
    BY <2>1, <2>2
<1>2. SUBSET S \subseteq good
  <2> HIDE DEF good
  <2> QED
    BY <1>1, SubsetInduction
<1>3. \A t \in SUBSET S : g[t] = h[t]
  BY <1>2
<1>4. /\ g = [t \in SUBSET S |-> g[t]]
      /\ h = [t \in SUBSET S |-> h[t]]
  <2>1. /\ \E e : g = [t \in SUBSET S |-> e[t]]
        /\ \E e : h = [t \in SUBSET S |-> e[t]]
    <3> DEFINE e1 == [s \in SUBSET S |-> IF s = {} THEN 0 ELSE f[Chosen(s)] + g[s \ {Chosen(s)}]]
               e2 == [s \in SUBSET S |-> IF s = {} THEN 0 ELSE f[Chosen(s)] + h[s \ {Chosen(s)}]]
    <3>1. g = [t \in SUBSET S |-> e1[t]] /\ h = [t \in SUBSET S |-> e2[t]]
      BY DEF Iterates
    <3> QED
      BY <3>1
  <2> QED
    BY <2>1
<1> QED
  BY <1>3, <1>4

\* The sum over a set is that of its chosen element and of the rest.
LEMMA SumStep ==
  ASSUME NEW f, NEW S, IsFiniteSet(S)
  PROVE  SumFunctionOnSet(f, S) =
           IF S = {} THEN 0
           ELSE f[Chosen(S)] + SumFunctionOnSet(f, S \ {Chosen(S)})
<1> DEFINE sum(t) == SumFunctionOnSet(f, t)
           next(t) == IF t = {} THEN 0 ELSE f[Chosen(t)] + sum(t \ {Chosen(t)})
           good == {t \in SUBSET S : sum(t) = next(t)}
<1>1. ASSUME NEW t \in SUBSET S, (SUBSET t) \ {t} \subseteq good PROVE t \in good
  <2> DEFINE g == [s \in SUBSET t |-> next(s)]
  <2>1. ASSUME NEW s \in SUBSET t, s # {}
        PROVE  g[s \ {Chosen(s)}] = sum(s \ {Chosen(s)})
    <3>1. Chosen(s) \in s
      BY <2>1, ChosenIn
    <3>2. s \ {Chosen(s)} \in (SUBSET t) \ {t}
      BY <3>1
    <3> QED
      BY <1>1, <3>2
  <2>2. Iterates(g, f, t)
    <3>1. \A s \in SUBSET t :
            next(s) = IF s = {} THEN 0 ELSE f[Chosen(s)] + g[s \ {Chosen(s)}]
      BY <2>1
    <3> QED
      BY <3>1 DEF Iterates
  <2>3. IsFiniteSet(t)
    BY FS_Subset
  <2>4. (CHOOSE it : Iterates(it, f, t)) = g
    <3> HIDE DEF g
    <3> DEFINE c == CHOOSE it : Iterates(it, f, t)
    <3>1. Iterates(c, f, t)
      BY <2>2
    <3> HIDE DEF c
    <3> QED
      BY <2>2, <2>3, <3>1, IteratesOnce DEF c
  <2>5. sum(t) = g[t]
    BY <2>4, SumUnfolds
  <2> QED
    BY <2>5
<1>2. SUBSET S \subseteq good
  <2> HIDE DEF good
  <2> QED
    BY <1>1, SubsetInduction
<1> QED
  BY <1>2

\* Nothing sums to zero.
LEMMA SumEmpty == ASSUME NEW f PROVE SumFunctionOnSet(f, {}) = 0
<1>1. IsFiniteSet({})
  BY FS_EmptySet
<1> QED
  BY <1>1, SumStep

\* A sum of naturals is one.
LEMMA SumIsNat ==
  ASSUME NEW S, IsFiniteSet(S), NEW f, \A x \in S : f[x] \in Nat
  PROVE  SumFunctionOnSet(f, S) \in Nat
<1> DEFINE good == {t \in SUBSET S : SumFunctionOnSet(f, t) \in Nat}
<1>1. ASSUME NEW t \in SUBSET S, (SUBSET t) \ {t} \subseteq good PROVE t \in good
  <2>1. IsFiniteSet(t)
    BY FS_Subset
  <2>2. CASE t = {}
    BY <2>2, SumEmpty
  <2>3. CASE t # {}
    <3>1. Chosen(t) \in t
      BY <2>3, ChosenIn
    <3>2. SumFunctionOnSet(f, t \ {Chosen(t)}) \in Nat
      BY <1>1, <3>1
    <3> QED
      BY <2>1, <2>3, <3>1, <3>2, SumStep
  <2> QED
    BY <2>2, <2>3
<1>2. SUBSET S \subseteq good
  <2> HIDE DEF good
  <2> QED
    BY <1>1, SubsetInduction
<1> QED
  BY <1>2

\* Any element of a set may be counted last.
LEMMA SumOfRest ==
  ASSUME NEW S, IsFiniteSet(S), NEW f, \A x \in S : f[x] \in Nat, NEW y \in S
  PROVE  SumFunctionOnSet(f, S) = f[y] + SumFunctionOnSet(f, S \ {y})
<1> DEFINE sum(t) == SumFunctionOnSet(f, t)
           good == {t \in SUBSET S : \A x \in t : sum(t) = f[x] + sum(t \ {x})}
<1>1. ASSUME NEW t \in SUBSET S, (SUBSET t) \ {t} \subseteq good PROVE t \in good
  <2> SUFFICES ASSUME NEW x \in t PROVE sum(t) = f[x] + sum(t \ {x})
    OBVIOUS
  <2> DEFINE c == Chosen(t)
  <2>1. IsFiniteSet(t) /\ IsFiniteSet(t \ {c}) /\ IsFiniteSet((t \ {c}) \ {x})
    BY FS_Subset, FS_RemoveElement
  <2>2. c \in t
    BY ChosenIn
  <2> HIDE DEF c
  <2>3. sum(t) = f[c] + sum(t \ {c})
    BY <2>1, <2>2, SumStep DEF c
  <2>4. CASE x = c
    BY <2>3, <2>4
  <2>5. CASE x # c
    <3>1. sum(t \ {c}) = f[x] + sum((t \ {c}) \ {x})
      BY <1>1, <2>2, <2>5
    <3>2. sum(t \ {x}) = f[c] + sum((t \ {x}) \ {c})
      BY <1>1, <2>2, <2>5
    <3>3. (t \ {c}) \ {x} = (t \ {x}) \ {c}
      OBVIOUS
    <3>4. sum((t \ {c}) \ {x}) \in Nat
      BY <2>1, SumIsNat
    <3>5. f[x] \in Nat /\ f[c] \in Nat
      BY <2>2
    <3> HIDE DEF sum
    <3> QED
      BY <2>3, <3>1, <3>2, <3>3, <3>4, <3>5
  <2> QED
    BY <2>4, <2>5
<1>2. SUBSET S \subseteq good
  <2> HIDE DEF good
  <2> QED
    BY <1>1, SubsetInduction
<1> QED
  BY <1>2

\* Sums of the same summands are the same.
LEMMA SumSame ==
  ASSUME NEW S, IsFiniteSet(S), NEW f, NEW g, \A x \in S : f[x] = g[x]
  PROVE  SumFunctionOnSet(f, S) = SumFunctionOnSet(g, S)
<1> DEFINE good == {t \in SUBSET S : SumFunctionOnSet(f, t) = SumFunctionOnSet(g, t)}
<1>1. ASSUME NEW t \in SUBSET S, (SUBSET t) \ {t} \subseteq good PROVE t \in good
  <2>1. IsFiniteSet(t)
    BY FS_Subset
  <2>2. CASE t = {}
    BY <2>2, SumEmpty
  <2>3. CASE t # {}
    <3>1. Chosen(t) \in t
      BY <2>3, ChosenIn
    <3>2. SumFunctionOnSet(f, t \ {Chosen(t)}) = SumFunctionOnSet(g, t \ {Chosen(t)})
      BY <1>1, <3>1
    <3> QED
      BY <2>1, <2>3, <3>1, <3>2, SumStep
  <2> QED
    BY <2>2, <2>3
<1>2. SUBSET S \subseteq good
  <2> HIDE DEF good
  <2> QED
    BY <1>1, SubsetInduction
<1> QED
  BY <1>2
-----------------------------------------------------------------------------
(* Every event is counted once.                                            *)

\* The events that are evidence of a receipt, of any invoice and of one.
Counted(r) == {e \in Event : r[e] # NoReceipt}
CountedFor(r, i) == {e \in Event : r[e] # NoReceipt /\ r[e].of = i}
Amounts(r) == [e \in Counted(r) |-> r[e].amount]

\* What an invoice has received by them.
SumFor(r, i) == SumFunctionOnSet(Amounts(r), CountedFor(r, i))

Receipts == [of : Invoice, amount : 1..Total]

Extended(r, e, i, amount) == [r EXCEPT ![e] = [of |-> i, amount |-> amount]]

\* Recording a new event adds its amount to its invoice's sum, and to no other.
LEMMA RecordedAdds ==
  ASSUME NEW r \in [Event -> Receipts \cup {NoReceipt}], IsFiniteSet(Counted(r)),
         NEW e \in Event, r[e] = NoReceipt,
         NEW i \in Invoice, NEW amount \in 1..Total, NEW q, q = Extended(r, e, i, amount)
  PROVE  /\ IsFiniteSet(Counted(q))
         /\ \A j \in Invoice :
              SumFor(q, j) = IF j = i THEN SumFor(r, j) + amount ELSE SumFor(r, j)
<1>1. /\ q[e] = [of |-> i, amount |-> amount] /\ q[e] # NoReceipt
      /\ \A f \in Event \ {e} : q[f] = r[f]
  BY LedgerAssumption DEF Receipts, Extended
<1>2. Counted(q) = Counted(r) \cup {e} /\ e \notin Counted(r)
  BY <1>1 DEF Counted
<1>3. IsFiniteSet(Counted(q))
  <2>1. IsFiniteSet(Counted(r) \cup {e})
    BY FS_AddElement
  <2> QED
    BY <1>2, <2>1
<1>4. \A f \in Counted(r) : Amounts(q)[f] = Amounts(r)[f] /\ Amounts(r)[f] \in Nat
  <2> TAKE f \in Counted(r)
  <2>1. f # e /\ f \in Event /\ r[f] \in Receipts /\ f \in Counted(q) /\ q[f] = r[f]
    BY <1>1, <1>2 DEF Counted
  <2>2. r[f].amount \in 1..Total
    BY <2>1 DEF Receipts
  <2> QED
    BY <2>1, <2>2, LedgerAssumption DEF Amounts
<1>5. Amounts(q)[e] = amount
  BY <1>1, <1>2 DEF Amounts
<1>6. ASSUME NEW j \in Invoice
      PROVE  SumFor(q, j) = IF j = i THEN SumFor(r, j) + amount ELSE SumFor(r, j)
  <2>1. CountedFor(r, j) \subseteq Counted(r)
    BY DEF CountedFor, Counted
  <2>2. IsFiniteSet(CountedFor(r, j))
    BY <2>1, FS_Subset
  <2>3. SumFunctionOnSet(Amounts(q), CountedFor(r, j))
          = SumFunctionOnSet(Amounts(r), CountedFor(r, j))
    <3>1. \A f \in CountedFor(r, j) : Amounts(q)[f] = Amounts(r)[f]
      BY <1>4, <2>1
    <3> QED
      BY <2>2, <3>1, SumSame
  <2>4. SumFunctionOnSet(Amounts(r), CountedFor(r, j)) \in Nat
    <3>1. \A f \in CountedFor(r, j) : Amounts(r)[f] \in Nat
      BY <1>4, <2>1
    <3> QED
      BY <2>2, <3>1, SumIsNat
  <2>5. CASE j # i
    <3>1. CountedFor(q, j) = CountedFor(r, j)
      BY <1>1, <2>5 DEF CountedFor
    <3> QED
      BY <2>3, <2>5, <3>1 DEF SumFor
  <2>6. CASE j = i
    <3>1. CountedFor(q, j) = CountedFor(r, j) \cup {e} /\ e \notin CountedFor(r, j)
      BY <1>1, <2>6 DEF CountedFor
    <3>2. IsFiniteSet(CountedFor(q, j)) /\ e \in CountedFor(q, j)
      <4>1. IsFiniteSet(CountedFor(r, j) \cup {e})
        BY <2>2, FS_AddElement
      <4> QED
        BY <3>1, <4>1
    <3>3. \A f \in CountedFor(q, j) : Amounts(q)[f] \in Nat
      <4> TAKE f \in CountedFor(q, j)
      <4>1. CASE f = e
        BY <1>5, <4>1, LedgerAssumption
      <4>2. CASE f # e
        <5>1. f \in Counted(r)
          BY <2>1, <3>1, <4>2
        <5> QED
          BY <1>4, <5>1
      <4> QED
        BY <4>1, <4>2
    <3>4. SumFunctionOnSet(Amounts(q), CountedFor(q, j))
            = Amounts(q)[e] + SumFunctionOnSet(Amounts(q), CountedFor(q, j) \ {e})
      <4> DEFINE a == Amounts(q)
                 c == CountedFor(q, j)
      <4>1. IsFiniteSet(c) /\ e \in c /\ \A f \in c : a[f] \in Nat
        BY <3>2, <3>3
      <4> HIDE DEF a, c
      <4>2. SumFunctionOnSet(a, c) = a[e] + SumFunctionOnSet(a, c \ {e})
        BY <4>1, SumOfRest
      <4> QED
        BY <4>2 DEF a, c
    <3>5. CountedFor(q, j) \ {e} = CountedFor(r, j)
      BY <3>1
    <3> QED
      <4> DEFINE rest == SumFunctionOnSet(Amounts(r), CountedFor(r, j))
      <4>1. rest \in Nat /\ amount \in Nat
        BY <2>4, LedgerAssumption
      <4>2. SumFunctionOnSet(Amounts(q), CountedFor(q, j)) = amount + rest
        BY <1>5, <2>3, <3>4, <3>5
      <4> HIDE DEF rest
      <4>3. SumFunctionOnSet(Amounts(q), CountedFor(q, j)) = rest + amount
        BY <4>1, <4>2
      <4> QED
        BY <2>6, <4>3 DEF rest, SumFor
  <2> QED
    BY <2>5, <2>6
<1> QED
  BY <1>3, <1>6

\* The receipts are finitely many, and each is counted once.
CountInv == IsFiniteSet(Counted(receipt)) /\ EventsCountOnce

\* EventsCountOnce in these terms.
LEMMA CountOnceIs ==
  EventsCountOnce <=> \A i \in Invoice : received[i] = SumFor(receipt, i)
BY DEF EventsCountOnce, SumFor, Amounts, Counted, CountedFor

\* Only a receipt moves money.
LEMMA MoneyMoves ==
  ASSUME [Next]_vars
  PROVE  \/ UNCHANGED moneyVars
         \/ \E i \in Invoice, e \in Event, amount \in 1..Total :
              RecordPayment(i, e, amount)
<1>1. ASSUME NEW c \in Clerk, Request(c) PROVE UNCHANGED moneyVars
  BY <1>1 DEF Request, ReadExisting, CheckPending, MarkApprovalPending, AskToIssue,
     Freeze, Abandon, InsertDraft, RequestIssueApproval, RequestInvoiceIssue,
     RequestInvoiceAction, Reads, recordVars
<1>2. ASSUME NEW i \in Invoice, Record(i)
      PROVE  \/ UNCHANGED moneyVars
             \/ \E e \in Event, amount \in 1..Total : RecordPayment(i, e, amount)
  BY <1>2 DEF Record, Approve, Reject, RecordPromise, CancelPromise, PromiseLapses,
     SaveSettings, EnrollByHand, Replan, Evaluate, EndSequence, recordVars
<1>3. CASE UNCHANGED vars
  BY <1>3 DEF vars, recordVars
<1> QED
  BY <1>1, <1>2, <1>3 DEF Next

\* A receipt is counted for its invoice when it is recorded.
LEMMA CountNext == TypeOK /\ CountInv /\ [Next]_vars => CountInv'
<1> SUFFICES ASSUME TypeOK, CountInv, [Next]_vars PROVE CountInv'
  OBVIOUS
<1>1. CASE UNCHANGED moneyVars
  BY <1>1, CountOnceIs DEF CountInv, moneyVars, Counted, EventsCountOnce
<1>2. CASE \E i \in Invoice, e \in Event, amount \in 1..Total :
             RecordPayment(i, e, amount)
  <2>1. PICK i \in Invoice, e \in Event, amount \in 1..Total :
               RecordPayment(i, e, amount)
    BY <1>2
  <2>2. /\ receipt[e] = NoReceipt
        /\ receipt' = [receipt EXCEPT ![e] = [of |-> i, amount |-> amount]]
        /\ received' = [received EXCEPT ![i] = received[i] + amount]
    BY <2>1 DEF RecordPayment, IsNew
  <2>3. /\ receipt \in [Event -> Receipts \cup {NoReceipt}]
        /\ received \in [Invoice -> 0..Total]
    BY DEF TypeOK, Receipts
  <2> DEFINE now == receipt'
             was == receipt
  <2>4. /\ now = Extended(was, e, i, amount)
        /\ was \in [Event -> Receipts \cup {NoReceipt}] /\ was[e] = NoReceipt
        /\ IsFiniteSet(Counted(was))
    BY <2>2, <2>3 DEF CountInv, Extended
  <2>5. \A j \in Invoice : received[j] = SumFor(was, j)
    BY CountOnceIs DEF CountInv
  <2>6. /\ IsFiniteSet(Counted(now))
        /\ \A j \in Invoice :
             SumFor(now, j) = IF j = i THEN SumFor(was, j) + amount ELSE SumFor(was, j)
    <3> HIDE DEF now, was
    <3> QED
      BY <2>4, RecordedAdds
  <2>7. \A j \in Invoice : received'[j] = SumFor(now, j)
    <3> HIDE DEF now, was
    <3> QED
      BY <2>2, <2>3, <2>5, <2>6
  <2>8. EventsCountOnce'
    BY <2>7 DEF EventsCountOnce, SumFor, Amounts, Counted, CountedFor
  <2> QED
    BY <2>6, <2>8 DEF CountInv, Counted
<1> QED
  BY <1>1, <1>2, MoneyMoves

\* The receipts of an invoice add up to what it has received, each event once
\* (invoicing.ts:197), for any number of events and invoices.
THEOREM EventsAreCountedOnce == Spec => []EventsCountOnce
<1>1. Init => CountInv
  <2> SUFFICES ASSUME Init PROVE CountInv
    OBVIOUS
  <2>1. Counted(receipt) = {} /\ \A i \in Invoice : CountedFor(receipt, i) = {}
    BY DEF Init, Counted, CountedFor
  <2>2. \A i \in Invoice : received[i] = 0
    BY DEF Init
  <2> QED
    BY <2>1, <2>2, SumEmpty, FS_EmptySet, CountOnceIs DEF CountInv, SumFor
<1>2. TypeOK /\ CountInv /\ [Next]_vars => CountInv'
  BY CountNext
<1>3. CountInv => EventsCountOnce
  BY DEF CountInv
<1> QED
  BY TypeCorrect, <1>1, <1>2, <1>3, PTL DEF Spec
=============================================================================
