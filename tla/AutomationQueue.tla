-------------------------- MODULE AutomationQueue --------------------------
(***************************************************************************)
(* One workspace's rows of the `automation_queue` table, and everybody who *)
(* writes them: worker processes running processOneQueuedJob               *)
(* (server/services/queue.ts), the owner's queue commands                  *)
(* (server/routers/operations.ts), and the sources that enqueue,           *)
(* reschedule and cancel rows.                                             *)
(*                                                                         *)
(* Every `await` of a worker that reads or writes shared rows is a step of *)
(* its own, so any two workers and the owner interleave between them, and  *)
(* a worker process may crash between any two.                             *)
(*                                                                         *)
(* Time is relative: due[j] is how long until row j's scheduledAt,         *)
(* lease[j] how long ago its lockedAt is (saturating at Lease), age[w] how *)
(* long ago worker w computed the `now` it will write into lockedAt.  A    *)
(* lock token is the ordinal of the claim that minted it (createId never   *)
(* repeats); 0 is NULL.                                                    *)
(***************************************************************************)
EXTENDS Integers, FiniteSets

CONSTANTS
  Job,            \* rows of automation_queue, by idempotency key
  Worker,         \* worker processes; the others are "run next" requests
  Managed,        \* workers polling through runManagedAutomationCycle
  Standalone,     \* workers polling through server/worker.ts
  Kind,           \* [Job -> JobKind], the jobType
  Priority,       \* [Job -> Nat], smaller is taken first
  NeedsBackground,\* jobs run only while background processing is enabled
  ParseOf,        \* [Job -> Job], the parse_cv row of a scan_document row
  MaxAttempts, Lease, BackoffBase, BackoffCap, AiLimit, Window,
  MaxRows,        \* bound: rows the sources insert
  MaxRequeues,    \* bound: re-readyings of a row other than failure retries
  MaxCrashes      \* bound: worker crashes

JobKind == {"ai", "parse_cv", "background", "follow_up", "deliver_email",
            "policy", "scan"}
Deterministic == {j \in Job : Kind[j] \notin {"ai", "parse_cv"}}

ASSUME JobAssumption ==
  /\ Job # {}
  /\ Kind \in [Job -> JobKind]
  /\ Priority \in [Job -> Nat]
  /\ ParseOf \in [Job -> Job]
  /\ NeedsBackground \subseteq Job
  /\ \A j \in Job : Kind[j] = "background" => j \in NeedsBackground
  /\ \A j \in Job : Kind[j] = "scan" => Kind[ParseOf[j]] = "parse_cv"
ASSUME WorkerAssumption ==
  /\ IsFiniteSet(Worker) /\ Worker # {}
  /\ Managed \subseteq Worker
  /\ Standalone \subseteq Worker
ASSUME BoundAssumption ==
  /\ MaxAttempts \in Nat \ {0} /\ Lease \in Nat \ {0}
  /\ BackoffBase \in Nat \ {0} /\ BackoffCap \in Nat \ {0}
  /\ AiLimit \in Nat /\ Window \in Nat \ {0}
  /\ MaxRows \in Nat /\ MaxRequeues \in Nat /\ MaxCrashes \in Nat

VARIABLES
  \* the rows
  status, attempts, token, lease, due,
  \* ghosts: claims so far, re-readyings so far, last claim whose AI result was
  \* applied, claims of each worker since the emergency stop was engaged
  claims, requeues, appliedBy, lateClaims,
  \* what the work reaches: approvals and side effects of policy rows, scan and
  \* parse state of the document of a parse_cv row, today's aiUsage rows
  approval, effect, scan, parse, aiUsed,
  \* workspaceSettings
  stop, background,
  \* worker processes
  pc, job, held, tries, outcome, sawBackground, age, crashes,
  \* the owner's command in progress
  owner

rowVars    == <<status, attempts, token, lease, due>>
ghostVars  == <<claims, requeues, appliedBy, lateClaims>>
effectVars == <<approval, effect, scan, parse, aiUsed>>
settingVars == <<stop, background>>
workerVars == <<pc, job, held, tries, outcome, sawBackground, age, crashes>>
vars == <<rowVars, ghostVars, effectVars, settingVars, workerVars, owner>>

Status == {"absent", "queued", "running", "retryable_failed", "blocked",
           "completed", "cancelled", "permanently_failed"}
ReadyStatus == {"queued", "retryable_failed"}
\* The status a worker writes for each outcome of its attempt.
Outcome == {"deferred", "completed", "cancelled", "retryable_failed",
            "blocked", "permanently_failed"}
WorkerPc == {"idle", "polled", "selected", "working", "effect", "scanned",
             "inferring", "responded", "failing", "settle"}
AnyJob == CHOOSE j \in Job : TRUE   \* what an idle worker's job is
OwnerIdle == [pc |-> "idle"]
OwnerState == {OwnerIdle} \cup
  [pc : {"retry", "cancel", "cancel_approval"}, job : Job]

\* calculateBackoff: BackoffBase doubled per earlier attempt, capped.
CalculateBackoff(n) ==
  LET delay == BackoffBase * 2^(IF n > 1 THEN n - 1 ELSE 0)
  IN  IF delay \in 0..BackoffCap THEN delay ELSE BackoffCap

Init ==
  /\ status = [j \in Job |-> "absent"]
  /\ attempts = [j \in Job |-> 0]
  /\ token = [j \in Job |-> 0]
  /\ lease = [j \in Job |-> 0]
  /\ due = [j \in Job |-> 0]
  /\ claims = [j \in Job |-> 0]
  /\ requeues = [j \in Job |-> 0]
  /\ appliedBy = [j \in Job |-> 0]
  /\ lateClaims = [w \in Worker |-> 0]
  /\ approval = [j \in Job |-> "approved"]
  /\ effect = [j \in Job |-> FALSE]
  /\ scan = [j \in Job |-> "accepted_pending_scan"]
  /\ parse = [j \in Job |-> "queued"]
  /\ aiUsed = 0
  /\ stop = FALSE
  /\ background \in BOOLEAN
  /\ pc = [w \in Worker |-> "idle"]
  /\ job = [w \in Worker |-> AnyJob]
  /\ held = [w \in Worker |-> 0]
  /\ tries = [w \in Worker |-> 0]
  /\ outcome = [w \in Worker |-> "completed"]
  /\ sawBackground = [w \in Worker |-> FALSE]
  /\ age = [w \in Worker |-> 0]
  /\ crashes = 0
  /\ owner = OwnerIdle
-----------------------------------------------------------------------------
(* Sources: rows appear, are rescheduled and are cancelled.                *)

\* The row of an idempotency key is inserted once; a second insert only
\* touches updatedAt.  The owner's enqueue of an AI task is refused under the
\* emergency stop.
Enqueue(j) ==
  /\ status[j] = "absent"
  /\ Cardinality({k \in Job : status[k] # "absent"}) < MaxRows
  /\ Kind[j] \in {"ai", "parse_cv"} => ~stop
  /\ status' = [status EXCEPT ![j] = "queued"]
  /\ \E d \in 0..BackoffCap : due' = [due EXCEPT ![j] = d]
  /\ UNCHANGED <<attempts, token, lease, ghostVars, effectVars, settingVars,
                 workerVars, owner>>

\* scheduleFollowUp and enqueueEmailDispatch on an existing row.
Reschedule(j) ==
  /\ \/ /\ Kind[j] = "follow_up"
        /\ status[j] \notin {"absent", "running", "completed"}
     \/ /\ Kind[j] = "deliver_email"
        /\ status[j] \notin {"absent", "running"}
  /\ requeues[j] < MaxRequeues
  /\ status' = [status EXCEPT ![j] = "queued"]
  /\ token' = [token EXCEPT ![j] = 0]
  /\ lease' = [lease EXCEPT ![j] = 0]
  /\ \E d \in 0..BackoffCap : due' = [due EXCEPT ![j] = d]
  /\ requeues' = [requeues EXCEPT ![j] = @ + 1]
  /\ UNCHANGED <<attempts, claims, appliedBy, lateClaims, effectVars,
                 settingVars, workerVars, owner>>

\* stopFollowUp and cancelUnusedEmailDispatch.
CancelTimer(j) ==
  /\ \/ Kind[j] = "follow_up" /\ status[j] \in ReadyStatus
     \/ Kind[j] = "deliver_email" /\ status[j] \in ReadyStatus \cup {"blocked"}
  /\ status' = [status EXCEPT ![j] = "cancelled"]
  /\ token' = [token EXCEPT ![j] = 0]
  /\ lease' = [lease EXCEPT ![j] = 0]
  /\ due' = [due EXCEPT ![j] = 0]
  /\ UNCHANGED <<attempts, ghostVars, effectVars, settingVars, workerVars,
                 owner>>
-----------------------------------------------------------------------------
(* A worker's poll: settings, expiry and selection, claim.                 *)

\* Also the mutant of ReadWorkspace that does not look at the emergency stop.
StartPoll(w) ==
  /\ pc[w] = "idle"
  /\ pc' = [pc EXCEPT ![w] = "polled"]
  /\ sawBackground' = [sawBackground EXCEPT ![w] = background]
  /\ UNCHANGED <<rowVars, ghostVars, effectVars, settingVars, job, held,
                 tries, outcome, age, crashes, owner>>
ReadWorkspace(w) == ~stop /\ StartPoll(w)

Due == {j \in Job : status[j] \in ReadyStatus /\ due[j] = 0}

\* Who calls processOneQueuedJob: the managed cycle for every workspace with
\* background processing on, the standalone worker only for a workspace that
\* has a due row, the owner's "run next" whenever she likes.
ManagedPoll(w)    == w \in Managed /\ background /\ ReadWorkspace(w)
StandalonePoll(w) == w \in Standalone /\ Due # {} /\ ReadWorkspace(w)
RunNext(w)        == w \notin Managed \cup Standalone /\ ReadWorkspace(w)

\* The call returns, or its process dies: what it knew is gone.
Forget(w) ==
  /\ pc' = [pc EXCEPT ![w] = "idle"]
  /\ job' = [job EXCEPT ![w] = AnyJob]
  /\ held' = [held EXCEPT ![w] = 0]
  /\ tries' = [tries EXCEPT ![w] = 0]
  /\ outcome' = [outcome EXCEPT ![w] = "completed"]
  /\ sawBackground' = [sawBackground EXCEPT ![w] = FALSE]
  /\ age' = [age EXCEPT ![w] = 0]

\* Mutants: the lease is measured from scheduledAt; expiry keeps the token.
ExpiredSinceDue == {j \in Job : status[j] = "running" /\ due[j] >= Lease}
Expired == {j \in Job : status[j] = "running" /\ lease[j] >= Lease}
ExpireLeasesKeepingToken ==
  /\ status' = [j \in Job |-> IF j \in Expired THEN "blocked" ELSE status[j]]
  /\ lease' = [j \in Job |-> IF j \in Expired THEN 0 ELSE lease[j]]
  /\ UNCHANGED token
ExpireLeases ==
  /\ status' = [j \in Job |-> IF j \in Expired THEN "blocked" ELSE status[j]]
  /\ token' = [j \in Job |-> IF j \in Expired THEN 0 ELSE token[j]]
  /\ lease' = [j \in Job |-> IF j \in Expired THEN 0 ELSE lease[j]]

\* The first Window due rows by priority (rows due at the same time tie).
IsWindow(ready) ==
  /\ ready \subseteq Due
  /\ Cardinality(ready) =
       IF Cardinality(Due) < Window THEN Cardinality(Due) ELSE Window
  /\ \A j \in ready, k \in Due \ ready : Priority[j] <= Priority[k]

Permitted(w, ready) ==
  {j \in ready : sawBackground[w] \/ j \notin NeedsBackground}
First(S) == {j \in S : \A k \in S : Priority[j] <= Priority[k]}
WithinDailyAiBudget == aiUsed < AiLimit

\* The first permitted row; if it needs inference and the day's budget is
\* spent, the first permitted deterministic row instead.
Choices(w, ready) ==
  LET jobs == Permitted(w, ready)
  IN  {j \in First(jobs) : j \in Deterministic \/ WithinDailyAiBudget}
        \cup (IF ~WithinDailyAiBudget /\ First(jobs) \ Deterministic # {}
              THEN First(jobs \cap Deterministic) ELSE {})

SelectJob(w) ==
  /\ pc[w] = "polled"
  /\ ExpireLeases
  /\ \E ready \in SUBSET Due :
       /\ IsWindow(ready)
       /\ \/ \E j \in Choices(w, ready) :
               /\ pc' = [pc EXCEPT ![w] = "selected"]
               /\ job' = [job EXCEPT ![w] = j]
               /\ tries' = [tries EXCEPT ![w] = attempts[j]]
               /\ UNCHANGED <<held, outcome, sawBackground, age>>
          \/ Choices(w, ready) = {} /\ Forget(w)
  /\ UNCHANGED <<attempts, due, ghostVars, effectVars, settingVars, crashes,
                 owner>>

\* The guarded UPDATE that takes the row.  attempts and lockedAt come from
\* the worker's earlier snapshot, and scheduledAt is not looked at again.
Claim(w) ==
  LET j == job[w] IN
  /\ pc[w] = "selected"
  /\ status[j] \in ReadyStatus
  /\ status' = [status EXCEPT ![j] = "running"]
  /\ claims' = [claims EXCEPT ![j] = @ + 1]
  /\ token' = [token EXCEPT ![j] = claims[j] + 1]
  /\ lease' = [lease EXCEPT ![j] = age[w]]
  /\ attempts' = [attempts EXCEPT ![j] = tries[w] + 1]
  /\ due' = [due EXCEPT ![j] = 0]
  /\ held' = [held EXCEPT ![w] = claims[j] + 1]
  /\ age' = [age EXCEPT ![w] = 0]
  /\ pc' = [pc EXCEPT ![w] = IF Kind[j] = "ai" THEN "inferring" ELSE "working"]
  /\ lateClaims' = [lateClaims EXCEPT ![w] = IF stop THEN @ + 1 ELSE 0]
  /\ UNCHANGED <<requeues, appliedBy, effectVars, settingVars, job, tries,
                 outcome, sawBackground, crashes, owner>>

Contended(w) ==
  /\ pc[w] = "selected"
  /\ status[job[w]] \notin ReadyStatus
  /\ Forget(w)
  /\ UNCHANGED <<rowVars, ghostVars, effectVars, settingVars, crashes, owner>>
-----------------------------------------------------------------------------
(* The work, by kind of job.  Finish records the outcome to be settled.    *)

Finish(w, outcomes) ==
  /\ pc' = [pc EXCEPT ![w] = "settle"]
  /\ \E o \in outcomes : outcome' = [outcome EXCEPT ![w] = o]
  /\ UNCHANGED <<rowVars, ghostVars, settingVars, job, held, tries,
                 sawBackground, age, crashes, owner>>

\* Mutant: the attempt just made is not counted.
CanRetryOnceMore(w) == tries[w] < MaxAttempts
CanRetry(w) == tries[w] + 1 < MaxAttempts
Failure(w) == IF CanRetry(w) THEN "retryable_failed" ELSE "permanently_failed"
MayDefer(w) == IF requeues[job[w]] < MaxRequeues THEN {"deferred"} ELSE {}

\* Calendar, ranking, recovery, discovery, deadline jobs: a transient error is
\* retried, any other blocks the row.
BackgroundWork(w) ==
  /\ pc[w] = "working" /\ Kind[job[w]] = "background"
  /\ Finish(w, {"completed", "blocked"} \cup MayDefer(w)
               \cup (IF CanRetry(w) THEN {"retryable_failed"} ELSE {}))
  /\ UNCHANGED effectVars

\* Follow-ups and deliveries are never retried blindly: an error blocks them.
TimerWork(w) ==
  /\ pc[w] = "working" /\ Kind[job[w]] \in {"follow_up", "deliver_email"}
  /\ Finish(w, {"completed", "blocked"} \cup MayDefer(w))
  /\ UNCHANGED effectVars

ReadApproval(w) ==
  LET j == job[w] IN
  /\ pc[w] = "working" /\ Kind[j] = "policy"
  /\ \/ /\ approval[j] = "approved"
        /\ pc' = [pc EXCEPT ![w] = "effect"]
        /\ UNCHANGED <<rowVars, ghostVars, settingVars, job, held, tries,
                       outcome, sawBackground, age, crashes, owner>>
     \/ /\ approval[j] # "approved"
        /\ Finish(w, {"cancelled"})
  /\ UNCHANGED effectVars

\* applySideEffect runs outside any transaction and does not look at the
\* approval or the lock token again.
ApplyPolicyEffect(w) ==
  /\ pc[w] = "effect"
  /\ \/ /\ effect' = [effect EXCEPT ![job[w]] = TRUE]
        /\ Finish(w, {"completed"})
     \/ /\ Finish(w, {Failure(w)})
        /\ UNCHANGED effect
  /\ UNCHANGED <<approval, scan, parse, aiUsed>>

\* scanCandidateDocument's transaction: a flagged document is blocked.
ScanVerdict(d, verdict) ==
  /\ scan' = [scan EXCEPT ![d] = verdict]
  /\ parse' = [parse EXCEPT ![d] = IF verdict = "flagged" THEN "blocked" ELSE @]
  /\ UNCHANGED <<approval, effect, aiUsed>>

ScanWork(w) ==
  LET d == ParseOf[job[w]] IN
  /\ pc[w] = "working" /\ Kind[job[w]] = "scan"
  /\ \/ /\ ScanVerdict(d, "clean")
        /\ pc' = [pc EXCEPT ![w] = "scanned"]
        /\ UNCHANGED <<rowVars, ghostVars, settingVars, job, held, tries,
                       outcome, sawBackground, age, crashes, owner>>
     \/ /\ ScanVerdict(d, "flagged")
        /\ Finish(w, {"completed"})
     \/ /\ Finish(w, {Failure(w)})
        /\ UNCHANGED effectVars

\* A clean CV whose extraction is still wanted gets its parse_cv row, once.
EnqueueParse(w) ==
  LET d == ParseOf[job[w]]
      new == parse[d] = "queued" /\ status[d] = "absent"
  IN
  /\ pc[w] = "scanned"
  /\ status' = [status EXCEPT ![d] = IF new THEN "queued" ELSE @]
  /\ pc' = [pc EXCEPT ![w] = "settle"]
  /\ outcome' = [outcome EXCEPT ![w] = "completed"]
  /\ UNCHANGED <<attempts, token, lease, due, ghostVars, effectVars,
                 settingVars, job, held, tries, sawBackground, age, crashes,
                 owner>>

\* parse_cv re-reads the scan state before any text reaches the model.
ParsePrecheck(w) ==
  LET j == job[w] IN
  /\ pc[w] = "working" /\ Kind[j] = "parse_cv"
  /\ \/ /\ scan[j] = "clean"
        /\ pc' = [pc EXCEPT ![w] = "inferring"]
        /\ UNCHANGED <<rowVars, ghostVars, settingVars, job, held, tries,
                       outcome, sawBackground, age, crashes, owner>>
     \/ /\ scan[j] # "clean"
        /\ Finish(w, {"blocked"})
  /\ UNCHANGED effectVars

\* The model answered; one aiUsage row is written, keyed by this attempt.
Respond(w) ==
  /\ pc[w] = "inferring"
  /\ pc' = [pc EXCEPT ![w] = "responded"]
  /\ aiUsed' = aiUsed + 1
  /\ UNCHANGED <<rowVars, ghostVars, approval, effect, scan, parse,
                 settingVars, job, held, tries, outcome, sawBackground, age,
                 crashes, owner>>

\* The attempt is going to fail: configuration errors block, invalid output
\* and refused preconditions are final, everything else may be retried.
Fail(w, outcomes) ==
  /\ pc' = [pc EXCEPT ![w] = "failing"]
  /\ \E o \in outcomes : outcome' = [outcome EXCEPT ![w] = o]

\* No usage row exists yet; the failure's own insert is the first one.
InferenceError(w) ==
  /\ pc[w] = "inferring"
  /\ Fail(w, {"blocked", "permanently_failed", Failure(w)})
  /\ aiUsed' = aiUsed + 1
  /\ UNCHANGED <<rowVars, ghostVars, approval, effect, scan, parse,
                 settingVars, job, held, tries, sawBackground, age, crashes,
                 owner>>

\* Mutant: any claim of a running row counts.
OwnsRunningRow(w) == status[job[w]] = "running"
Owns(w) == token[job[w]] = held[w] /\ status[job[w]] = "running"

\* handleAiTaskResult: what the row was enqueued for is updated.  A parse is
\* recorded only while the document's latest scan is clean.
HandleAiTaskResult(j, claim) ==
  /\ Kind[j] = "parse_cv" => scan[j] = "clean"
  /\ appliedBy' = [appliedBy EXCEPT ![j] = claim]
  /\ parse' = [parse EXCEPT ![j] = IF Kind[j] = "parse_cv" THEN "parsed" ELSE @]

\* The transaction that applies the result holds the queue row locked.
ApplyResult(w) ==
  /\ pc[w] = "responded"
  /\ Owns(w)
  /\ HandleAiTaskResult(job[w], held[w])
  /\ pc' = [pc EXCEPT ![w] = "settle"]
  /\ outcome' = [outcome EXCEPT ![w] = "completed"]
  /\ UNCHANGED <<rowVars, claims, requeues, lateClaims, approval, effect, scan,
                 aiUsed, settingVars, job, held, tries, sawBackground, age,
                 crashes, owner>>

\* "Worker no longer owns this task; result discarded.", a subject that became
\* ineligible, or an error of the domain code, which rolls back.
ApplyError(w) ==
  /\ pc[w] = "responded"
  /\ Fail(w, {"permanently_failed"} \cup (IF Owns(w) THEN {Failure(w)} ELSE {}))
  /\ UNCHANGED <<rowVars, ghostVars, effectVars, settingVars, job, held, tries,
                 sawBackground, age, crashes, owner>>

\* Mutant: the scan state is not looked at.
MayMarkAnyFailed(j) == Kind[j] = "parse_cv"
MayMarkFailed(j) == Kind[j] = "parse_cv" /\ scan[j] = "clean"

\* The catch block marks the document of a parse_cv attempt as failed, owner of
\* the row or not (or leaves it, when the candidate is suppressed or the document
\* superseded or redacted); its usage write updates the row already there.
RecordFailure(w) ==
  LET j == job[w] IN
  /\ pc[w] = "failing"
  /\ \/ MayMarkFailed(j) /\ parse' = [parse EXCEPT ![j] = "failed"]
     \/ UNCHANGED parse
  /\ pc' = [pc EXCEPT ![w] = "settle"]
  /\ UNCHANGED <<rowVars, ghostVars, approval, effect, scan, aiUsed,
                 settingVars, job, held, tries, outcome, sawBackground, age,
                 crashes, owner>>

\* The status a final write stores, and the delay until the row is due again.
SettledStatus(o) == IF o = "deferred" THEN "queued" ELSE o
Delays(w) ==
  IF outcome[w] = "deferred" THEN 0..BackoffCap
  ELSE {IF outcome[w] = "retryable_failed" THEN CalculateBackoff(tries[w] + 1)
        ELSE 0}

SettleRow(w) ==
  LET j == job[w]
      deferred == outcome[w] = "deferred"
  IN
  /\ status' = [status EXCEPT ![j] = SettledStatus(outcome[w])]
  /\ token' = [token EXCEPT ![j] = 0]
  /\ lease' = [lease EXCEPT ![j] = 0]
  /\ attempts' = [attempts EXCEPT ![j] = IF deferred THEN tries[w] ELSE @]
  /\ requeues' = [requeues EXCEPT ![j] = IF deferred THEN @ + 1 ELSE @]
  /\ \E d \in Delays(w) : due' = [due EXCEPT ![j] = d]

\* Every final write is guarded by the lock token; when the row was taken away
\* it changes nothing.  (Mutant: guarded by the status only.)
FencedByStatus(w) == status[job[w]] = "running"
Fenced(w) == token[job[w]] = held[w]

Settle(w) ==
  /\ pc[w] = "settle"
  /\ \/ Fenced(w) /\ SettleRow(w)
     \/ ~Fenced(w) /\ UNCHANGED <<rowVars, requeues>>
  /\ Forget(w)
  /\ UNCHANGED <<claims, appliedBy, lateClaims, effectVars, settingVars,
                 crashes, owner>>

\* What it wrote stays.
Crash(w) ==
  /\ pc[w] # "idle"
  /\ crashes < MaxCrashes
  /\ crashes' = crashes + 1
  /\ Forget(w)
  /\ UNCHANGED <<rowVars, ghostVars, effectVars, settingVars, owner>>
-----------------------------------------------------------------------------
(* The owner: retry and cancel read the row, check the transition table,   *)
(* and later write by id only.                                             *)

\* assertTransition("automation_job", from, to), from = to included.
MayRetry(s)  == s \in {"queued", "retryable_failed", "blocked"}
MayCancel(s) == s \in {"queued", "retryable_failed", "blocked", "cancelled"}

OwnerReads(j) ==
  /\ owner = OwnerIdle
  /\ requeues[j] < MaxRequeues
  /\ \/ MayRetry(status[j]) /\ owner' = [pc |-> "retry", job |-> j]
     \/ MayCancel(status[j]) /\ owner' = [pc |-> "cancel", job |-> j]
  /\ UNCHANGED <<rowVars, ghostVars, effectVars, settingVars, workerVars>>

OwnerWrites(j) ==
  /\ \/ /\ owner = [pc |-> "retry", job |-> j]
        /\ status' = [status EXCEPT ![j] = "queued"]
        /\ owner' = OwnerIdle
     \/ /\ owner = [pc |-> "cancel", job |-> j]
        /\ status' = [status EXCEPT ![j] = "cancelled"]
        /\ owner' = IF Kind[j] = "policy"
                    THEN [pc |-> "cancel_approval", job |-> j] ELSE OwnerIdle
  /\ token' = [token EXCEPT ![j] = 0]
  /\ lease' = [lease EXCEPT ![j] = 0]
  /\ due' = [due EXCEPT ![j] = 0]
  /\ requeues' = [requeues EXCEPT ![j] = @ + 1]
  /\ UNCHANGED <<attempts, claims, appliedBy, lateClaims, effectVars,
                 settingVars, workerVars>>

\* "[Cancelled by owner during grace period]"
OwnerCancelsApproval(j) ==
  /\ owner = [pc |-> "cancel_approval", job |-> j]
  /\ approval' = [approval EXCEPT ![j] = "cancelled"]
  /\ owner' = OwnerIdle
  /\ UNCHANGED <<rowVars, ghostVars, effect, scan, parse, aiUsed, settingVars,
                 workerVars>>

\* documents.scan: the same scan of row j's document, outside the queue.
OwnerScans(j) ==
  /\ Kind[j] = "parse_cv"
  /\ \E verdict \in {"clean", "flagged"} : ScanVerdict(j, verdict)
  /\ UNCHANGED <<rowVars, ghostVars, settingVars, workerVars, owner>>

SetEmergencyStop ==
  /\ stop' = ~stop
  /\ lateClaims' = [w \in Worker |-> 0]
  /\ UNCHANGED <<rowVars, claims, requeues, appliedBy, effectVars, background,
                 workerVars, owner>>

ConfigureBackgroundWorker ==
  /\ background' = ~background
  /\ UNCHANGED <<rowVars, ghostVars, effectVars, stop, workerVars, owner>>

\* Time passes wherever something still depends on it.
Tick ==
  /\ \/ \E j \in Job : due[j] > 0 \/ (status[j] = "running" /\ lease[j] < Lease)
     \/ \E w \in Worker : pc[w] = "selected" /\ age[w] < Lease
  /\ due' = [j \in Job |-> IF due[j] > 0 THEN due[j] - 1 ELSE 0]
  /\ lease' = [j \in Job |-> IF status[j] = "running" /\ lease[j] < Lease
                             THEN lease[j] + 1 ELSE lease[j]]
  /\ age' = [w \in Worker |-> IF pc[w] = "selected" /\ age[w] < Lease
                              THEN age[w] + 1 ELSE age[w]]
  /\ UNCHANGED <<status, attempts, token, ghostVars, effectVars, settingVars,
                 pc, job, held, tries, outcome, sawBackground, crashes, owner>>
-----------------------------------------------------------------------------
\* The steps a running process takes by itself.
WorkerStep(w) ==
  \/ SelectJob(w) \/ Claim(w) \/ Contended(w)
  \/ BackgroundWork(w) \/ TimerWork(w)
  \/ ReadApproval(w) \/ ApplyPolicyEffect(w)
  \/ ScanWork(w) \/ EnqueueParse(w) \/ ParsePrecheck(w)
  \/ Respond(w) \/ InferenceError(w) \/ ApplyResult(w) \/ ApplyError(w)
  \/ RecordFailure(w) \/ Settle(w)

SourceStep(j) == Enqueue(j) \/ Reschedule(j) \/ CancelTimer(j)
OwnerStep(j) ==
  OwnerReads(j) \/ OwnerWrites(j) \/ OwnerCancelsApproval(j) \/ OwnerScans(j)

Next ==
  \/ \E w \in Worker : \/ ManagedPoll(w) \/ StandalonePoll(w) \/ RunNext(w)
                       \/ WorkerStep(w) \/ Crash(w)
  \/ \E j \in Job : SourceStep(j) \/ OwnerStep(j)
  \/ SetEmergencyStop \/ ConfigureBackgroundWorker \/ Tick

Spec == Init /\ [][Next]_vars

\* Both pollers fire on a timer, provider calls end (every client has a
\* timeout) and clocks advance.  Nobody has to crash, call or click.
Fairness ==
  /\ \A w \in Worker : /\ WF_vars(WorkerStep(w))
                       /\ WF_vars(ManagedPoll(w))
                       /\ WF_vars(StandalonePoll(w))
  /\ WF_vars(Tick)
FairSpec == Spec /\ Fairness
-----------------------------------------------------------------------------
(* Properties.                                                             *)

\* Every variable keeps to its set (the schema's column types).
TypeOK ==
  /\ status \in [Job -> Status]
  /\ attempts \in [Job -> Nat]
  /\ token \in [Job -> Nat]
  /\ lease \in [Job -> 0..Lease]
  /\ due \in [Job -> 0..BackoffCap]
  /\ claims \in [Job -> Nat]
  /\ requeues \in [Job -> Nat]
  /\ appliedBy \in [Job -> Nat]
  /\ lateClaims \in [Worker -> Nat]
  /\ approval \in [Job -> {"approved", "cancelled"}]
  /\ effect \in [Job -> BOOLEAN]
  /\ scan \in [Job -> {"accepted_pending_scan", "clean", "flagged"}]
  /\ parse \in [Job -> {"queued", "parsed", "failed", "blocked"}]
  /\ aiUsed \in Nat
  /\ stop \in BOOLEAN
  /\ background \in BOOLEAN
  /\ pc \in [Worker -> WorkerPc]
  /\ job \in [Worker -> Job]
  /\ held \in [Worker -> Nat]
  /\ tries \in [Worker -> Nat]
  /\ outcome \in [Worker -> Outcome]
  /\ sawBackground \in [Worker -> BOOLEAN]
  /\ age \in [Worker -> 0..Lease]
  /\ crashes \in Nat
  /\ owner \in OwnerState

\* Exactly the running rows are locked, by their latest claim: whichever of the
\* worker's fifteen final writes, the lease expiry, the owner or a source moved a
\* row out of "running", it took the token away, so no earlier worker can settle
\* it any more.  (queue.ts, operations.ts, workflowStore.ts, followups.ts)
LockDiscipline ==
  \A j \in Job :
    IF status[j] = "running" THEN token[j] = claims[j] ELSE token[j] = 0

\* A completed AI task had its result applied, and by the very claim that
\* completed it: a worker whose lease was taken neither completes the row nor
\* leaves it completed without a result.  (queue.ts:500-507)
CompletedMeansApplied ==
  \A j \in Job :
    Kind[j] \in {"ai", "parse_cv"} /\ status[j] = "completed"
      => appliedBy[j] = claims[j]

\* An AI result is applied only by the latest claim of its row, while the row is
\* still running: "Worker no longer owns this task; result discarded."
\* (queue.ts:502-503)
ResultsNeverRegress ==
  [][\A j \in Job : appliedBy'[j] # appliedBy[j]
       => /\ appliedBy'[j] = claims[j]
          /\ appliedBy'[j] > appliedBy[j]
          /\ status[j] = "running"]_vars

\* Failures alone never give a row more than maxAttempts attempts on its own
\* counter, stale snapshots included, and a row waiting for a retry has one
\* left; each deferral, reschedule or owner command allows one more.
\* (queue.ts:284,296,409,452,521)
AttemptsBounded ==
  \A j \in Job :
    /\ attempts[j] <= MaxAttempts + requeues[j]
    /\ status[j] \in ReadyStatus => attempts[j] < MaxAttempts + requeues[j]

\* Once the emergency stop is engaged every worker starts at most the one job it
\* was already about to claim, however long the stop lasts.  (queue.ts:256)
StopHaltsWorkers == \A w \in Worker : stop => lateClaims[w] <= 1

\* A document whose latest scan flagged it is blocked, whatever parse of it is
\* in flight, failing or being retried.  (queue.ts:66,526; documentScanner.ts:137)
FlaggedIsBlocked ==
  \A j \in Job : scan[j] = "flagged" => parse[j] = "blocked"

\* "A lost worker must become visible" (queue.ts:259): a running row is settled
\* or its expired lease surfaces it as blocked, unless the owner stops the
\* workspace or its background processing.
LostWorkerSurfaces ==
  \A j \in Job :
    status[j] = "running" ~> (status[j] # "running" \/ stop \/ ~background)

\* "allows the owner to cancel a delayed auto-decision within the grace period"
\* (delayedPolicyExecution.test.ts:132): a decision recorded as cancelled had no
\* side effect.
CancelledDecisionHasNoEffect ==
  \A j \in Job :
    Kind[j] = "policy" /\ approval[j] = "cancelled" => ~effect[j]
=============================================================================
