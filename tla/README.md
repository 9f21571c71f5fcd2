# FreelanceHR: a TLA+ verification project

FreelanceHR is a recruiting back office (TypeScript, tRPC over MySQL through
Drizzle). Its server runs a database-backed automation queue, multi-step email
follow-ups that must never bother a recipient twice, approvals for everything
consequential, interviews and calendars, consent and erasure, and the invoices that
placements earn. This directory holds TLA+ models of that core, the TLC
configurations that check them on small instances, and theorems that the TLAPS
proof system checks for every value of the constants.

Everything is translated from the code in `server/` (`PROJECT.json`, key `map`,
names the lines of every definition). Paths below are relative to the repository;
`services/` and `routers/` stand for `server/services/` and `server/routers/`.

## 1. Inventory

### 1.1 The parts

| Component | Code | State it keeps | Operations | Model |
|---|---|---|---|---|
| Automation queue worker | `services/queue.ts`, `backgroundWorker.ts`, `worker.ts`, `routers/operations.ts` | rows of `automation_queue` (status, attempts, lock token, lease, due time), `aiUsage` | poll, expire leases, select, claim, execute by kind, apply a result, route an error, retry, settle; owner: enqueue, retry, cancel, run next, emergency stop | `AutomationQueue` |
| Follow-up sequences | `services/followups.ts`, `followupControl.ts`, `followupRecovery.ts`, `followupEvents.ts`, `workflowStore.ts` | `followUpPlans` (status, revision, step, enrollment key, reply cursor), tasks in the queue | enroll, prepare a message, stop, pause, resume, snooze, replan, delegate | `FollowUpDelivery` |
| Email delivery, reconciliation | `services/emailDelivery.ts`, `emailReconciliation.ts`, `emailAuthorization.ts` | `emailDispatches`, grants | claim, call the provider, record a receipt or an uncertain outcome, record the owner's evidence | `FollowUpDelivery`, `DeliveryPromise` |
| Approval engine | `services/approvalEngine.ts`, `routers/consequential.ts` | `approvals`, status of the resource approved | request, decide, apply the effect, delay a policy decision | each effect in the module of what it changes |
| Workflow state machines | `server/workflow.ts` | none: transition tables | `assertTransition` | `Workflow`, and three tables beside their users |
| Invoices, payments, collections | `services/invoicing.ts`, `invoiceCollections.ts`, `collection*.ts`, `routers/collections.ts` | `invoices`, `payments`, promises, settings, collection sequences | draft, issue, record a receipt or a promise, save settings, evaluate, dispute, credit, write off | `InvoiceLedger` |
| Placements and guarantees | `routers/recruitment.ts`, `candidateWorkflows.ts`, `consequential.ts`, `services/guaranteeTracking.ts` | `screenings`, `placements`, their approvals | screen, decide, place, move, confirm the start, replace, erase | `PlacementPipeline` |
| Candidates, consent, documents | `routers/recruitment.ts`, `candidateWorkflows.ts`, `services/documentScanner.ts`, `sharingEligibility.ts` | `candidates`, `consents`, `shortlists`, `candidateDocuments`, `rightsRequests` | grant, withdraw, share, upload, scan, parse, erase | `CandidatePrivacy` |
| Candidate reviews | `services/candidateReview*.ts` | requests, answers, incidents, deadline jobs | ask, answer, correct, adopt, complete, clarify, revoke, escalate | `CandidateReviews` |
| Matching and ranking | `services/rankedMatching.ts`, `rankingRefresh.ts`, `matchContext.ts` | `matches`, refresh plans and runs | configure, run a cycle, score, invalidate | `RankingRefresh` |
| Interview scheduling | `services/interview*.ts`, `participantAvailability.ts`, `recoveryAutoSelection.ts`, `recordedCalendarBusy.ts` | `interviews`, `interviewSlotHolds`, `interviewConfirmations`, `availabilityInvites` | schedule, hold, book, confirm, decline, move, collect availability, recover | `InterviewSlots`, `InterviewRecovery` |
| Calendars | `services/googleCalendar.ts`, `calendarAutomation.ts`, `discoveryCalendarAutomation.ts` | connection, OAuth states, event bindings, sync tasks | connect, choose, disconnect, synchronise, review an edit | `CalendarMirror` |
| Client conversations, discovery | `services/replyTriage.ts`, `replyMail.ts`, `replyOutcomeRecovery.ts`, `clientDiscovery*.ts` | messages, reviewed outcomes, next actions, incidents, discovery requests | receive, assess, act, time out, answer; arrange, book, cancel a call | `ClientThread` |
| Inbound mail, webhooks | `services/hostingerWebhook.ts`, `routers/email.ts` | `webhookEvents`, messages, cursors | route, file, acknowledge | `InboundMail` |
| Outreach campaigns | `services/campaigns.ts` | campaigns, recipients | create, launch, pause, resume, cancel, evaluate | `Campaigns` |
| Source intake | `services/sourceIntake.ts`, `canonicalIntake.ts` | sources, batches, receipts, identities | deliver, review, import, create by hand, suppress | `SourceIntake` |
| AI adapters | `services/openrouter.ts`, `_core/llm.ts` | none | infer | an outcome chosen freely |
| Policy engine | `services/policyEngine.ts` | workspace settings | decide whether an action needs the owner | not modelled |
| Accounts and team access | `services/runtimeAuth.ts`, `workspaceAccess.ts`, `routers/team.ts` | users, sessions, members | sign in, invite, revoke | not modelled |
| Storage, framework glue, client | `privateStorage.ts`, `_core/*`, `src/client` | none the server relies on | I/O | not modelled |

### 1.2 How they interact

The queue is the only scheduler. Every part inserts rows under an idempotency
key and writes the rows of others only to reschedule or cancel them. A worker's
execution of a row calls into the part the row's kind names: a `follow_up` row
prepares a message and inserts an approval and a dispatch, the approval's decision
inserts a `deliver_email` row, that row's execution claims the dispatch, talks to
the provider and records the receipt, and the receipt advances the plan and
schedules the next `follow_up`. Domain events (a reply, a receipt, a promise, a
withdrawn candidate) stop plans through `stopFollowUp`. Approvals apply their
effect to the resource in the transaction of the decision. Inbound mail files a
message, which becomes a reply of a client thread; its next action may ask for a
discovery call, which takes an hour of the same calendar as interviews; saved
meetings are mirrored to Google.

Two locking disciplines coexist, and the models follow them. Most commands open a
transaction that locks the owner's `workspaceSettings` row with `FOR UPDATE`;
such a transaction is ONE action. Everything else is a sequence of statements
between which anything may happen; there, each `await` is an action of its own,
taken by a worker, a clerk (a request being served), a sync or a call in flight.

### 1.3 What is hard here

`PROJECT.json`, key `hazards`, lists each at its line with the properties that
would catch it going wrong. In short: a worker whose lease expired and who is still
running; a crash between the result of a task and its settlement; an emergency
stop between two awaits; a provider that accepts a message the process gave up on; an
owner who stops, resumes or replans while an attempt's outcome is unknown;
approvals decided late; the same payment or mail reported twice; promises that
lapse, are met in part and are replaced while their evaluation is queued; an hour
that is offered, held and booked by several requests; availability changed after it
was read; an erasure of many statements beside uploads, scans and shares; a token
refresh that ends after the disconnect; a chain of tasks that must mint its own
successor; unguarded writes that follow a stale read.

## 2. Modules

| Module | What it is | Extends |
|---|---|---|
| `AutomationQueue` | the rows of one workspace and everybody who writes them | |
| `DeliveryPromise` | the abstract specification of sending one sequence | |
| `FollowUpDelivery` | one plan with its approvals, dispatches, grants and tasks; implements `DeliveryPromise` | |
| `InvoiceLedger` | the invoices of one placement | |
| `Workflow` | the transition tables several modules move along | |
| `Desk` | the requests served at a time, for handlers without locks | |
| `PlacementPipeline` | one candidate on one job, from the screening to the guarantee | `Desk`, `Workflow` |
| `CandidatePrivacy` | one candidate's consents, shares, documents and erasure | `Desk`, `Workflow` |
| `CalendarMirror` | one saved meeting and its copy in Google Calendar | |
| `RankingRefresh` | the unattended ranking of one requirement | |
| `InterviewSlots` | the recorded calendar of one candidate | `Workflow` |
| `InterviewRecovery` | availability, recoveries and automatic selection; implements `InterviewSlots` | `InterviewSlots` |
| `ClientThread` | one conversation with a client contact, and its discovery calls | |
| `CandidateReviews` | the private questionnaires of one candidate for one role | |
| `Campaigns` | outreach campaigns that compete for their members | |
| `SourceIntake` | profiles from webhooks, reviews and by hand | |
| `InboundMail` | mails reported by the provider and recorded by the owner | |
| `AutomationQueue_proofs`, `DeliveryPromise_proofs`, `FollowUpDelivery_proofs`, `InvoiceLedger_proofs` | theorems of one module each | that module |
| `InterviewRecovery_proofs` | theorems of the calendar and of the recovery, the implementation among them | `InterviewRecovery` |
| `Workspace_proofs` | theorems of the four modules `MCWorkspace` checks | `CandidatePrivacy`, `PlacementPipeline`, `CalendarMirror`, `RankingRefresh` |
| `Conversations_proofs` | theorems of threads and reviews | `ClientThread`, `CandidateReviews` |
| `Outreach_proofs` | theorems of the three modules `MCOutreach` checks | `Campaigns`, `InboundMail`, `SourceIntake` |
| `MCAutomationQueue`, `MCFollowUpDelivery`, `MCInvoiceLedger`, `MCWorkspace`, `MCAppointments`, `MCOutreach` | the instances TLC checks | |

Constants whose name starts with `Max` or whose comment says "bound" limit counters
that the code does not limit; each guards the actions that count.

### 2.1 AutomationQueue

A row is `status`, `attempts`, `token` (its lock token), `lease` (how long ago it
was locked) and `due`. A process is its `pc` (the await it is at), the `job` it
picked, the claim it `held`, and what it read (`tries`, `sawBackground`, `age`).
`processOneQueuedJob` is the chain `ReadWorkspace`, `ExpireLeases`, `Select`,
`Claim`, then the work of the row's kind (`BackgroundWork`, `TimerWork`,
`ReadApproval` and `ApplyPolicyEffect`, `ScanWork` and `EnqueueParse`,
`ParsePrecheck` to `ApplyResult`), then `RecordFailure` and `Settle`. `Crash` may
happen at any of them. The owner's commands read in one step and write in another,
as `routers/operations.ts` does. The managed cycle (`backgroundWorker.ts`) and the
standalone worker (`worker.ts`) differ in which workspaces they visit, so they are
two different polls.

Time is relative and saturates at `Lease` and at the backoff, so the state space is
finite without a bound on the clock. `claims`, `requeues`, `appliedBy` and
`lateClaims` are history: no action's guard or effect on the code's own state
depends on them, except that the n-th claim's token is n.

### 2.2 DeliveryPromise and FollowUpDelivery

`DeliveryPromise` says what the recipient may see: a cursor, the steps accepted by
the provider, and whether an attempt is `idle`, `attempting` or `uncertain`. Steps
are accepted in order, each at most once, and nothing is attempted while an outcome
is unknown.

`FollowUpDelivery` is the code: `PrepareFollowUp`'s transaction, the owner's
decision, the claim of a dispatch, the provider call (`accepted` is what really
happened there, whatever the process learns), the receipt, the error path, the
owner's evidence, and stop, resume, snooze, replan and delegation. `stopFollowUp`
is one operator used by every caller. The error path of `emailDelivery.ts` is two
steps (`ErrorReads`, `ErrorWrites`) because its transaction takes no workspace
lock. The refinement maps `step` to the cursor, the steps of the accepted
dispatches of the current definition to the accepted ones, and the open attempt to
the phase (`KeepsPromise`).

Left open, and therefore free to go either way at each check: whether recipient,
sender, resource, deadline and grant expiry still permit contact, and whether quiet
hours defer a message. Assumed: the owner's evidence about an uncertain attempt is
truthful, and it is final (the provider does not accept a message after the owner
recorded that it had not). A message row follows its dispatch and has no state of
its own here. An attempt left `dispatching` by a crash stays so:
`emailReconciliation.ts:30` refuses to take it. Not modelled: daily limits and
recipient spacing, erasure of the candidate, emails that belong to no plan.

### 2.3 InvoiceLedger

The invoices of one placement. Transactions that lock the workspace row are one
action each (`RecordPayment`, `RecordPromise`, `CancelPromise`, `SaveSettings`,
`EnrollByHand`, `Replan`, `Evaluate`, and the decisions `Approve` and `Reject`);
the request handlers that take no lock are clerks who move from await to await.
A collection sequence is reduced to its enrollment key, which contains the
fingerprint of the facts its messages quote; what happens inside a sequence is
`FollowUpDelivery`'s subject. `Facts`, `Settled` and `Evaluate` are
`collectionFacts.ts`, `collectionTimers.ts` and `invoiceCollections.ts`.

Abstracted: the states no code enters (`validation`, `delivered`, `cancelled`,
`closed`); currencies and contact relationships, whose check refuses a command; a
client's reply and an unresolved dispatch, which hold collection (the action may
just not happen); due dates and grace periods (`pastDue` is chosen at each
evaluation). Commands replayed under their idempotency key, conflicts on an
expected revision and evaluations of a superseded revision change nothing and are
stutters. The emergency stop only delays an evaluation. An evaluation is assumed
not to throw: a job that fails three times is left to the managed cycle's poll over
`invoiceCollectionSettings`, which sees only invoices whose settings enable collection.

### 2.4 PlacementPipeline and CandidatePrivacy

Both are about handlers that hold no lock (`Desk`: a clerk per request in flight).

In `PlacementPipeline` a clerk's entry on the `bench` is the step it is at and what
its stale read allows it to write (`AskMove` checks the table, `WriteMove` writes).
The owner's decisions (`ApproveDecision`, `ApproveConfirmation`,
`ApproveReplacement`) are one step, and look at nothing but the approval.
`ClosePlacement` and `ForgetCandidate` are what an erasure does here. Days pass, so
that the guarantee (`GuaranteeStatus`) runs out.

In `CandidatePrivacy` every handler is a sequence of statements; `Plan` says which
statement follows which in each (`fulfillDeletion` has eleven), and each statement is
an action of a clerk who may also be abandoned, or find that storage refuses to
delete an object (`DeletionFails`). The decision on a share, a scan's verdict and a
parser's result are transactions. `recorded` is the audit event, `marks` are the
candidate's timestamps.

### 2.5 CalendarMirror and RankingRefresh

A sync of `CalendarMirror` is at one of the awaits of `syncGoogleResource`: it asks,
takes the lease (`TakeLease`), may refresh tokens, fetches the event, checks that
it is still current (`CheckBeforeCreate`, `CheckBeforeUpdate`), posts or patches, and
records. The event in Google has an etag; `LoseAnswer` is a write accepted there
whose answer is lost, `EditOutside` an owner's edit, and `LeaseRunsOut` the ninety
seconds. `Renew` raises the connection's revision at a new authorization, a choice
of calendar or a disconnect. What the provider does is modelled from how
`googleCalendar.ts` uses it (etags, `If-Match`, events by a fixed id).

`RankingRefresh` has the owner's refresh plan by revision, the queue rows of its
cycles and of the scoring tasks a cycle mints, the servers that run them (`Claim`,
`RunCycle`, `Infer`, `Settle` and their failures), the owner's retry and cancel
in two statements, and what invalidates a score (`SaveIntake`, `ChangeEvidence`,
`LoseProfile`). Claims on a stale poll are `AutomationQueue`'s subject.

### 2.6 InterviewSlots and InterviewRecovery

`InterviewSlots` is the calendar as the workspace lock serialises it: interviews,
holds, the owner's discovery meetings, and the pair of confirmation links whose
`print` is the schedule they speak of. `InterviewRecovery` adds what surrounds it:
groups of availability invitations, the recovery of a declined interview, its
deadline, and a booking that reads the responses in one transaction (`Propose`),
asks the external calendar, and books in another (`Book`). It EXTENDS the calendar,
and every step of it is a step of `InterviewSlots` or leaves the calendar alone, which
is proved (`RecoveryKeepsToSlots`).

### 2.7 ClientThread and CandidateReviews

`ClientThread` is one conversation: replies are numbered, a task is a reply with the
revision of its next action, and timers, incidents, response mails and discovery
requests belong to tasks. The worker's run of a deadline (`TakeTimer`,
`RunDeadline`), the provider's acceptance of a response and its observation
(`ProviderAccepts`, `ObserveReceipt`), and a booking that asks the external calendar
(`ProposeDiscovery`, `BookDiscovery`) are apart.

`CandidateReviews` has a row per request with its answers, outcomes, link, mail and
incidents, and a job per deadline, with what the worker that took it knows (`held`).

### 2.8 Campaigns, SourceIntake and InboundMail

`Campaigns` sees a sequence only as its address, its status and whether it sends by
the campaign's grant. `EvaluateCampaign` is one poll: it takes the first members
that wait, enrols those it may, and drops the others. `SourceIntake` commits a batch
by folding its records over the `book` of profiles, companies and receipts, as the
code does in one transaction; a webhook authenticates before that (`Deliver`,
`CommitDelivery`). In `InboundMail` a call reads which conversation a mail belongs to
without a lock (`Route`) and files it under the lock (`ReceiveReply`), and may die in
between.

## 3. Runs

| Run | Instance | Checks | Distinct states |
|---|---|---|---|
| `queue_workers` | 6 kinds of row of which one exists, 2 workers, leases of one tick, one owner requeue | `LockDiscipline`, `CompletedMeansApplied`, `AttemptsBounded`, `StopHaltsWorkers`, `FlaggedIsBlocked`, `ResultsNeverRegress` | 1.8 million |
| `queue_recovery` | a scan, the parse it leads to, a background row; the managed worker may crash once | `LostWorkerSurfaces` under fairness | 129 thousand |
| `queue_lost_worker` | as above with the standalone worker | finds `LostWorkerSurfaces` violated | |
| `queue_late_cancel` | one delayed decision, one worker, the owner | finds `CancelledDecisionHasNoEffect` violated | |
| `followup_safety` | 2 messages, 3 dispatches, 2 grants, 4 revisions, 1 replan | `OneLiveDispatch`, `ActiveGrantIsCurrent`, `GrantWithinBounds`, `ReplyHalts`, `NoLostTimer`, `KeepsPromise` | 475 thousand |
| `followup_ended` | 1 dispatch | finds `EndedStaysEnded` violated | |
| `ledger_safety` | 1 invoice of 2 units, 1 clerk, 2 events, 2 promises, 1 revision of settings, 1 sequence | `EventsCountOnce`, `PaidMeansSettled`, `PromisesAreAccountable`, `OpenPromiseIsTimed`, `OpenSequenceIsCurrent` | 1.6 million |
| `ledger_reissue` | 1 invoice, 2 pending approvals | finds `ApprovalsFollowTable` violated | |
| `workspace` | 2 clerks, 1 document; 3 days; 2 syncs, 2 authorizations, 3 accepted writes; 2 servers, 2 profiles, plans of 2 cycles | `RecordedMeansDone`, `RedactedIsFinal`, `JoinedWasConfirmed`, `MirrorCatchesUp`, `EditsSurvive`, `DisconnectIsFinal`, `UnattendedWithinGrant`, `RefreshContinues`, `ValidatedIsCurrent` | 1.1 million |
| `appointments` | 2 interviews, 1 hold, 3 starts, 2 groups, 1 booking in flight; 2 replies, 2 actions each, 2 calls; 2 reviews of 2 answers | `NoDoubleBooking`, `ConfirmedMeansAgreed`, `BookedSuitsBoth`, `CasesAreCurrent`, `OneResponsePerReply`, `ReviewIsFinal`, `AnswerIsTimed` | 461 thousand |
| `review_overdue` | 1 request with 1 answer | finds `OverdueStaysOpen` violated | |
| `outreach` | 2 campaigns for 2 people; 2 batches of 2 records; 2 mails, 2 conversations, 1 crash | `OneSequencePerAddress`, `AutomaticAsPreviewed`, `OneProfilePerIdentity`, `MailCountsOnce`, and under fairness `EveryMemberSettles`, `EveryMailIsAnswered` | 160 thousand |

Type invariants are proved instead of run (section 4).

### 3.1 Scenarios

The last three passing runs check several modules that share no state. Each has a
variable `scenario`, chosen initially, and a behaviour is about that scenario: a
part of the rows, their states and the requests; steps outside of it do not
occur. The union of the scenarios takes every action of every module and was
chosen around the races the hazards name. The restriction costs interleavings
between scenarios, which the theorems of section 4 do not: they are about each
module's own specification, unrestricted.

### 3.2 Why the bounds are enough

Queue: a race over a row needs two processes and the owner; three processes add
interleavings of pairs. A lease of one tick already expires under a live worker.
`MaxRows = 1` out of six kinds lets TLC take every kind in turn; rows interact
only through the window, the AI budget and a scan's parse, and `queue_recovery`
has all three kinds of row together.

Follow-ups: the second message is the first that can be sent out of order, the
third dispatch is the first that can be prepared while two earlier ones are kept,
the second grant the first that can outlive another. Four revisions allow a
prepared message, a stop, a resume and a second stop; with five (2.7 million
states) the same properties hold and every action has fired.

Ledger: two units are the fewest that can be paid in part, two events the fewest
that can meet or be confused, two promises the fewest that replace one another.
A variant with one promise and two sequences also passes.

Workspace: two clerks are the fewest that race; one document can be uploaded,
scanned and erased by both. Two syncs race for one lease; three accepted writes are
a creation, an edit outside and an overwrite. Two cycles are the fewest with a
successor, two profiles the fewest of which a budget of one leaves one out.

Appointments: two interviews, a hold and a meeting are what an hour can collide
with; of the three starts two overlap and two do not. Two replies have a newest
one, two actions a correction, two calls a replacement; a review of two answers
has a correction, and of two reviews one may clarify the other.

Outreach: two campaigns compete, two members of one poll each leave one waiting;
two batches with two records repeat a batch and a record; two mails are filed in one
conversation or in two.

Each of these instances only has to show the property broken where it is; that
none of the safety properties needs a larger one is what the theorems say.

`CHECK_DEADLOCK FALSE` is set where the system may really stop: a sequence that is
over, a candidate that is erased, a campaign that is completed, a counter at its bound.

### 3.3 Fairness

`FairSpec` of `AutomationQueue` assumes weak fairness of a worker's next step, of
the two polls and of the clock. The managed cycle runs on a `setInterval`
timer (`backgroundWorker.ts`), the standalone worker loops with a pause of five
seconds (`worker.ts`); a step is a database or network call and
every client used there has a timeout; clocks advance. Nobody is assumed to crash,
to call or to click, and a crashed worker comes back by its poll being enabled
again. `LostWorkerSurfaces` excuses a workspace the owner has stopped.

`CampaignsFairness` assumes that a campaign the poll may take is taken in the end (it
takes the one that has waited longest, and a failing one does not keep it from the
others) and that deadlines come. `Redelivery` assumes that the provider reports a
mail until it is acknowledged and that a call which neither dies nor is refused
ends. The other specifications state no fairness and no liveness.

### 3.4 Where code and documentation disagree

Five runs end in a violation, each of one property that the repository states of
itself. `PROJECT.json`, key `findings`, quotes the statement and explains the
behaviour: a lost attempt the standalone worker never surfaces, a cancelled decision
that has taken effect, an ended sequence revived by the error path of a delivery, an
issue approval that ignores the transition table, and an overdue review that the
expiry of its link resolves although nobody has reviewed the answer.

## 4. Theorems

All proofs are checked from nothing by `tlapm`; no step is taken on trust. They
rest on the named assumptions on the constants only, each in the module that
declares them: finiteness where a cardinality is taken, bounds that are naturals (and
positive where the code counts from one), null values that are no row's, and in
the queue that a scan row names a parse row. TLC evaluates them in
every run whose module extends theirs.

Every safety invariant and every action property of a passing run is stated by a
theorem; `PROJECT.json`, key `theorems`, lists them. Each needs an inductive
invariant stronger than itself.

**Queue.** `TypeCorrect` first. `RowsAreLocked` is inductive on its own: claiming
takes status and token together, and each of the other writers that moves a row
out of `running` clears the token. The others need strengthenings: claims held by
processes are distinct (`DistinctClaims`), a process's place fits its row's kind
(`WorkFitsJob`), and an owner of a row that is about to settle as completed has
applied its result, and only then (`OwnerApplied`). From these,
`CompletedWorkIsApplied` and the action property `LatestResultWins`.
`StopTakesEffect` needs that a process past its read of the stop flag counts as
having claimed at most once since (`StopSeen`), `AttemptsStayBounded` that what a
process remembers of the attempts is within the limit (`AttemptsKnown`).
`FlaggedStaysBlocked` is inductive with the type invariant.

**Follow-ups.** The inductive invariant `IInv` joins to the types and to
`OneLiveDispatch` that an attempt with an open outcome is for the plan's step and
definition, and the plan waits for it or was halted since (`ClaimBindsPlan`); that
only an attempt under way has a process, whose snapshot of the plan is not older
than the attempt (`CallsAreClaims`); that what was accepted is recorded or still
open, and what is recorded lies behind the plan's step (`AcceptedIsPast`); and that
no dispatch is of a later definition (`EpochsKnown`). It is needed because the
promise is about the provider, whose acceptance the code learns late: only
`ClaimBindsPlan` says that a late receipt advances the step it belongs to.
`PromiseIsKept` maps each step to a step of the promise or a stutter;
`AcceptanceIsInOrder` follows from it and from `PromiseInOrderOnce`, by
instantiating the abstract module's theorem.

**Ledger.** `SettlementsAreEvidenced` is inductive with the types.
`PromisesStayAccountable` is the core: only the newest promise is live, so that
`Settled` finds nothing to settle in an evaluation (`NothingToSettle`) and an
evaluation at most turns an open promise into a missed one (`EvaluateJudges`).
`DeadlinesAreKept` and `SequencesStayCurrent` rest on it: an evaluation takes away
the job of the one promise it judges, and a promise can lapse only when it is the
newest, when no sequence is open. `EventsAreCountedOnce` is about a sum over the
receipts, which the folds of the library define by a recursive function over
subsets. What the sum of one more receipt is (`SumStep`) is proved by induction
over the subsets of a finite set: `SubsetInduction` takes the set of subsets for
which a fact holds, not an operator, and gets a smallest counterexample from the
well-foundedness of strict inclusion. The invariant is that the receipts are
finitely many and each is counted once (`CountInv`).

**Calendar and recovery.** `NobodyIsBookedTwice` splits the property by what meets
what (`CalendarApart`), because every action writes one kind of row: what is written
is free of the others (`ScheduledApart`), or an interview stays where it was and
only leaves or re-enters the states that occupy it, which the table and the check at
reopening allow (`StateChangedApart`). `ConfirmationIsAgreement` needs that an answer
accepted the schedule its links speak of (`AnswersBind`): moving an interview
revokes the links in the same transaction. `RecoveryKeepsToSlots` shows, action by
action, that the recovery only moves the calendar by its own operations, so
both properties carry over (`RecoveryKeepsCalendar`). `BookingsSuit` needs what a
booking in flight knows: revisions only grow, and as long as they are what it read,
so are the windows (`ProposalSuits`).

**Conversations.** An open incident is of the newest, undone task or of an open or
lapsed call (`CaseInv`: `OverdueIsNewest`, `CasesOpen`); the proof goes through the
late run of a deadline whose task was corrected. `AnsweredOnce` is inductive with the
types. For the reviews, `RowSound` says of each request that its outcome is one, of
its last answer, with its link revoked or out of date; `JobSound` says of each
deadline that its job comes with its answer, and that whoever was done with it
left it with nothing to do. `DecidedOnce` and `AnswersComeUp` follow together.

**Outreach.** `OneSequenceAnAddress` is inductive with the types: an enrolment looks
at the sequences of every campaign under the lock. `GrantsAreAsPreviewed` needs that
the revision tells a campaign's past: draft is 1, delegated and active is 2, paused is
no longer delegated (`RevisionTells`), and that only live sequences have a grant
(`GrantedIsLive`). `MailIsCountedOnce` splits into one message per identified mail and
messages numbered without a gap (`OneMessage`, `Numbered`). `IdentitiesAreApart`
unfolds the fold of a batch (`AfterUnfolds`; a delivery or a review carries at most
two records in the model) and shows that adopting a record keeps profiles apart,
whatever it is matched with (`AdoptKeeps`).

**Workspace.** `WhoJoinedWasConfirmed`: a clerk that is about to write a joined
state read one, or was let past by a confirmation (`MovesWereConfirmed`), and the
guarantee's dates are set once a start is confirmed (`DatesAreSet`).
`WhatIsRecordedIsDone`: what the place a clerk has reached in a handler says of the
tables (`RowSound`: past the mark there is a mark, past the shortlist nothing is
shared, past the list of documents the contact is suppressed, at its end the
identity is gone), and no statement of another handler undoes any of it (`Keeps`).
`RedactedForGood` needs that a document being uploaded is nobody else's (`DocsApart`).
`NoTokensComeBack`, `EditsAreKept` and `WhatIsDoneIsThere` share one invariant in
three parts. `OwnersSide`: the lease is on a connection that has tokens, an overtaken
flow is of an earlier revision. `EventsSide`: what a sync knows is what is there now or
an earlier state (`SyncFits`), and a sync about to patch without the lease has seen
less than the holder of the lease wrote (`HolderSawMore`), which is why its
`If-Match` fails. `TasksSide`: the due task exists, and once it is done the event shows
the meeting and no sync under way can put back anything else (`Upheld`).
`RankingInv`: the cycles of a revision are numbered without a gap and what they
minted is counted (`CyclesInRow`), a cycle that is about to settle as completed was
recorded or stopped the plan (`CameToPass`), and the next cycle's task waits
(`NextWaits`), which gives `RunsStayWithinGrant` and `PlanKeepsGoing`; a validated score
has the basis of now (`ScoresAreCurrent`).

The strengthenings of the mirror and the ranking were checked by TLC on the instance
of `workspace` before they were proved. What the proofs needed of the constants and no
assumption said was added to the modules: a plan has at least one run and ranks
finitely many profiles (`RankingAssumption`, from the schema of its settings), no sync
is the null holder of the lease (`MirrorAssumption`), and two bounds leave room for one
reply (`ThreadAssumption`) and for a launch (`CampaignAssumption`).

### 4.1 What is only model-checked

The three liveness properties, `LostWorkerSurfaces`, `EveryMemberSettles` and
`EveryMailIsAnswered`: the prover has no rules for fairness. The five properties of
the findings are not theorems, since the code violates them. The mutants
listed in `PROJECT.json` show for every property of a passing run a plausible change
of the code that breaks it.

### 4.2 Not modelled

The policy engine: what it could decide unattended is unreachable, because every
canonical consequential action has `allowAutoApproval: false` (`workflow.ts:172-289`);
its delayed execution is in `AutomationQueue`. Accounts, sessions and team access:
one check of one row per request. Storage, text extraction, prompts and parsing, feeds
and document rendering: conversions and I/O. The framework glue and the in-memory
database of the tests. The client application, more than half of the
implementation's lines: it holds no state the server relies on; that is why the map
covers a fifth of all lines.

## 5. Plan

In order of importance, what is left:

1. Contact limits (`emailDelivery.ts`, `emailAuthorization.ts`): daily limits,
   recipient spacing and quiet hours over several plans to one recipient, and that a
   claim never exceeds a limit.
2. Refinements to state: a client thread's response mail and a review's mail as
   instances of `DeliveryPromise`; the ledger's and the campaigns' sequences as what
   `FollowUpDelivery` promises of one.
3. The queue rows of `RankingRefresh` and `CandidateReviews` as instances of
   `AutomationQueue`'s lock discipline, so that claims are proved once.
4. `SourceIntake` for batches of any length: the fold's unfolding is proved for two
   records, `SubsetInduction`'s counterpart for sequences would lift it.
5. The tables of companies, matches, rights requests and incidents, document
   versions, and the client's and the job's own handlers.

## 6. How to check

    tlc -workers 2 -config MCQueueWorkers.cfg MCAutomationQueue.tla
    tlc -workers 2 -config MCQueueRecovery.cfg MCAutomationQueue.tla
    tlc -workers 2 -config MCFollowUpSafety.cfg MCFollowUpDelivery.tla
    tlc -workers 2 -config MCLedgerSafety.cfg MCInvoiceLedger.tla
    tlc -workers 2 -config MCWorkspace.cfg MCWorkspace.tla
    tlc -workers 2 -config MCAppointments.cfg MCAppointments.tla
    tlc -workers 2 -config MCOutreach.cfg MCOutreach.tla
    tlapm AutomationQueue_proofs.tla       # and the other seven *_proofs.tla

`PROJECT.json`, key `runs`, names module and configuration of the runs that end in a
violation. The longest run takes about three minutes with two workers, the longest
proof (`Workspace_proofs`) about six.
