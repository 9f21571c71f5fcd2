--------------------------- MODULE RankingRefresh ---------------------------
(* Unattended ranking of one requirement: the owner's refresh plan, the    *)
(* queue rows of its cycles, the scoring tasks a cycle mints within the    *)
(* plan's budget, and the matches their results are written to             *)
(* (rankingRefresh.ts, rankedMatching.ts, matchContext.ts, queue.ts).      *)
(* Commands run under the workspace lock, one step each.  A server claims  *)
(* a row, works in transactions of its own and settles the row in a last   *)
(* statement guarded by its lock; the owner's retry and cancel read the    *)
(* row in one statement and write it in another.                           *)
(* Claims on a stale poll and attempt counts are AutomationQueue's; here a *)
(* failed attempt may come out either way.                                 *)
EXTENDS Naturals, FiniteSets, Sequences

CONSTANTS
  Server,        \* processes that work on claimed rows
  Profile,       \* candidates the plan's pool may rank
  MaxPerRun, MaxAiTasks, MaxRuns,   \* the plan's settings when it scores
  MaxPlans,      \* bound: revisions of the plan
  MaxEvidence,   \* bound: versions of a candidate's evidence
  MaxEdits       \* bound: versions of the requirement

ASSUME RankingAssumption ==
  /\ {MaxPerRun, MaxAiTasks, MaxRuns, MaxPlans, MaxEvidence, MaxEdits} \subseteq Nat
  /\ MaxRuns >= 1 /\ IsFiniteSet(Profile)

VARIABLES
  job,           \* requirement version and stage
  evidence,      \* version of each candidate's statement and parsed documents
  scorable,      \* the candidates with consent who are not suppressed
  match,         \* matches rows; basis: what a validated score is of
  plans,         \* match.refresh_configured events, by revision
  lapsed,        \* the plan's expiresAt has passed
  stops,         \* revisions with a match.refresh_stopped event
  runs,          \* match.refresh_ran events
  row,           \* rank_refresh and score_match rows by idempotency key
  server,        \* what each process is at
  request,       \* the owner's retry or cancel between its read and its write
  work           \* background worker: "on", "paused", or emergency "stopped"

subjectVars == <<job, evidence, scorable>>
planVars == <<plans, lapsed, stops, runs>>
rankingVars == <<subjectVars, match, planVars, row, server, request, work>>

Revision == Len(plans)
CycleTask == {"cycle"} \X (1..MaxPlans) \X (1..MaxRuns)
ScoreTask == {"score"} \X Profile \X (0..MaxEvidence) \X (0..MaxEdits)
QueueTask == CycleTask \cup ScoreTask
Nil == "none"
NoRequest == [what |-> Nil, task |-> <<>>]
Off == [step |-> "off", task |-> <<>>, grant |-> 0, outcome |-> Nil]
Unscored(status) == [status |-> status, basis |-> <<>>]
Validated(e, v) == [status |-> "evidence_validated", basis |-> <<e, v>>]
NoRow == [status |-> Nil, holder |-> Nil, grant |-> 0, result |-> FALSE]
Ready == {"queued", "retryable_failed"}
Unsettled == Ready \cup {"blocked", "permanently_failed"}

\* A new row, carrying the revision of the plan it runs under, or 0.
NewRow(grant) == [NoRow EXCEPT !.status = "queued", !.grant = grant]
Row(k) == IF k \in DOMAIN row THEN row[k] ELSE NoRow
Put(k, status) == [row EXCEPT ![k].status = status, ![k].holder = Nil]
\* The queue with new or requeued rows for the keys, under grant r.
Queued(queue, keys, r) ==
  [k \in DOMAIN queue \cup keys |-> IF k \in keys THEN NewRow(r) ELSE queue[k]]
HasLock(s) == row[server[s].task].status = "running" /\ row[server[s].task].holder = s

\* The scoring identity of a candidate against the requirement as both are now.
CurrentScore(p) == <<"score", p, evidence[p], job.version>>
\* buildMatchContext: canQueueAi, or an error when the requirement is closed.
MayScore(p) == p \in scorable /\ match[p].status # "closed" /\ job.stage # "closed"
\* The requirement is as it was when the plan's revision was authorized.
SameJob(r) == plans[r].version = job.version /\ plans[r].stage = job.stage

\* assertRankingRefreshAuthority: a task queued by hand (0) needs none.
HasAuthority(r) ==
  r # 0 => r = Revision /\ plans[r].on /\ ~lapsed /\ SameJob(r)

Recorded(r, n) == \E run \in runs : run.revision = r /\ run.cycle = n
MintedUnder(r) == UNION {run.minted : run \in {x \in runs : x.revision = r}}

-----------------------------------------------------------------------------
\* configureRankingRefresh, for the revision the owner expects; a repeat of the
\* same request or one for another revision changes nothing.
Revoked ==
  [k \in DOMAIN row |->
     IF \/ k \in CycleTask /\ row[k].status \in Unsettled
        \/ k \in MintedUnder(Revision) /\ row[k].status \in Ready
     THEN [row[k] EXCEPT !.status = "cancelled", !.holder = Nil]
     ELSE row[k]]

ConfigureRefresh(on, budget) ==
  /\ Revision < MaxPlans
  /\ on => work = "on" /\ job.stage # "closed"
  /\ plans' = Append(plans, [on |-> on, budget |-> budget,
                             version |-> job.version, stage |-> job.stage])
  /\ lapsed' = FALSE
  /\ row' = Queued(Revoked, IF on THEN {<<"cycle", Revision + 1, 1>>} ELSE {}, 0)
  /\ UNCHANGED <<subjectVars, match, stops, runs, server, request, work>>

PlanLapses ==
  /\ Revision > 0 /\ lapsed' = TRUE
  /\ UNCHANGED <<subjectVars, match, plans, stops, runs, row, server, request, work>>

\* processOneQueuedJob up to the claim.
Claim(s, k) ==
  /\ server[s] = Off /\ row[k].status \in Ready
  /\ work # "stopped"
  /\ k \in CycleTask \/ row[k].grant # 0 => work = "on"
  /\ row' = [row EXCEPT ![k].status = "running", ![k].holder = s]
  /\ server' = [server EXCEPT ![s] = [Off EXCEPT !.step = "run", !.task = k,
                                                 !.grant = row[k].grant]]
  /\ UNCHANGED <<subjectVars, match, planVars, request, work>>

\* What the attempt comes to; the row learns of it in the next statement.
ComesTo(s, outcomes) ==
  \E o \in outcomes :
    server' = [server EXCEPT ![s].step = "settle", ![s].outcome = o]

\* Mutant: a deferred cycle is settled like one that ran.
DeferredAsDone(s) == IF server[s].outcome = "queued" THEN "completed" ELSE server[s].outcome
\* "queued" is a deferral: the row waits for its next time.
Outcome(s) == server[s].outcome

Settle(s) ==
  /\ server[s].step = "settle"
  /\ row' = IF HasLock(s)
             THEN [Put(server[s].task, Outcome(s)) EXCEPT ![server[s].task].result =
                     @ \/ Outcome(s) = "completed"]
             ELSE row
  /\ server' = [server EXCEPT ![s] = Off]
  /\ UNCHANGED <<subjectVars, match, planVars, request, work>>

-----------------------------------------------------------------------------
\* executeRankingRefresh, for the cycle in the row the server holds.
AtCycle(s, r, n) ==
  server[s].step = "run" /\ server[s].task = <<"cycle", r, n>> /\ HasLock(s)

StopReason(r, n) ==
  r # Revision \/ ~plans[r].on \/ r \in stops \/ lapsed \/ ~SameJob(r) \/ n > MaxRuns

DeferCycle(s, r, n) ==
  /\ AtCycle(s, r, n)
  /\ \/ work # "on"
     \/ ~StopReason(r, n) /\ ~Recorded(r, n) /\ n > 1   \* nextAt lies ahead
  /\ ComesTo(s, {"queued"})
  /\ UNCHANGED <<subjectVars, match, planVars, row, request, work>>

SkipRecordedCycle(s, r, n) ==
  /\ AtCycle(s, r, n) /\ work = "on" /\ Recorded(r, n)
  /\ ComesTo(s, {"completed"})
  /\ UNCHANGED <<subjectVars, match, planVars, row, request, work>>

StopCycle(s, r, n) ==
  /\ AtCycle(s, r, n) /\ work = "on" /\ ~Recorded(r, n) /\ StopReason(r, n)
  /\ stops' = stops \cup {r}
  /\ ComesTo(s, {"completed"})
  /\ UNCHANGED <<subjectVars, match, plans, lapsed, runs, row, request, work>>

\* Whom the cycle may queue: fit to score and without a row for that score.
ToScore == {p \in Profile : MayScore(p) /\ CurrentScore(p) \notin DOMAIN row}
\* Mutant: what earlier cycles used up is forgotten.
AllowancePerRun(r) == IF plans[r].budget < MaxPerRun THEN plans[r].budget ELSE MaxPerRun
Allowance(r) ==
  LET left == plans[r].budget - Cardinality(MintedUnder(r))
  IN  IF left < MaxPerRun THEN left ELSE MaxPerRun

\* Who of them is ready and above the plan's priority is a matter of their data.
\* The plan ends with its last run, or when the next would come after expiresAt.
RunCycle(s, r, n) ==
  /\ AtCycle(s, r, n) /\ work = "on" /\ ~Recorded(r, n) /\ ~StopReason(r, n)
  /\ n > 1 => Recorded(r, n - 1)
  /\ \E chosen \in SUBSET ToScore, finished \in BOOLEAN :
       /\ chosen # {} => Cardinality(chosen) <= Allowance(r)
       /\ n = MaxRuns => finished
       /\ LET minted == {CurrentScore(p) : p \in chosen}
          IN  /\ runs' = runs \cup {[revision |-> r, cycle |-> n, minted |-> minted]}
              /\ row' = Queued(Queued(row, minted, r),
                               IF finished THEN {} ELSE {<<"cycle", r, n + 1>>}, 0)
       /\ stops' = IF finished THEN stops \cup {r} ELSE stops
  /\ ComesTo(s, {"completed"})
  /\ UNCHANGED <<subjectVars, match, plans, lapsed, request, work>>

\* The transaction rolls back: the database fails, or the pool is too large.
FailCycle(s, r, n) ==
  /\ AtCycle(s, r, n)
  /\ ComesTo(s, {"retryable_failed", "blocked"})
  /\ UNCHANGED <<subjectVars, match, planVars, row, request, work>>

\* The row was taken away: the transaction refuses and no statement finds it.
LeaveTask(s) ==
  /\ server[s].step \in {"run", "infer"} /\ ~HasLock(s)
  /\ server[s].step = "run" => server[s].task \in CycleTask
  /\ server' = [server EXCEPT ![s] = Off]
  /\ UNCHANGED <<subjectVars, match, planVars, row, request, work>>

-----------------------------------------------------------------------------
\* A score_match attempt: checked, inferred, and applied in one transaction.
Scoring(s, k) == server[s].task = k /\ k \in ScoreTask
\* Mutant: the evidence is not compared again.
StillOpen(s, k) == HasAuthority(server[s].grant) /\ MayScore(k[2])
StillScored(s, k) ==
  HasAuthority(server[s].grant) /\ MayScore(k[2]) /\ k = CurrentScore(k[2])

CheckScore(s, k) ==
  /\ server[s].step = "run" /\ Scoring(s, k)
  /\ IF StillScored(s, k) THEN server' = [server EXCEPT ![s].step = "infer"]
                          ELSE ComesTo(s, {"permanently_failed"})
  /\ UNCHANGED <<subjectVars, match, planVars, row, request, work>>

FailInference(s, k) ==
  /\ server[s].step = "infer" /\ Scoring(s, k)
  /\ ComesTo(s, {"retryable_failed", "permanently_failed", "blocked"})
  /\ UNCHANGED <<subjectVars, match, planVars, row, request, work>>

DiscardScore(s, k) ==
  /\ server[s].step = "infer" /\ Scoring(s, k) /\ HasLock(s) /\ ~StillScored(s, k)
  /\ ComesTo(s, {"permanently_failed"})
  /\ UNCHANGED <<subjectVars, match, planVars, row, request, work>>

\* A score of low confidence is only a hint: what it was of does not matter.
ApplyScore(s, k) ==
  /\ server[s].step = "infer" /\ Scoring(s, k) /\ HasLock(s) /\ StillScored(s, k)
  /\ \E m \in {Unscored("low_confidence"), Validated(k[3], k[4])} :
       match' = [match EXCEPT ![k[2]] = m]
  /\ ComesTo(s, {"completed"})
  /\ UNCHANGED <<subjectVars, planVars, row, request, work>>

\* The next poll blocks the rows of lost attempts; a restart forgets its own.
LeaseExpires(k) ==
  /\ row[k].status = "running" /\ work # "stopped"
  /\ row' = Put(k, "blocked")
  /\ UNCHANGED <<subjectVars, match, planVars, server, request, work>>
Restart(s) ==
  /\ server[s] # Off /\ server' = [server EXCEPT ![s] = Off]
  /\ UNCHANGED <<subjectVars, match, planVars, row, request, work>>

-----------------------------------------------------------------------------
\* queueMatchInTransaction for the owner.
QueueByHand(p) ==
  LET k == CurrentScore(p) IN
  /\ MayScore(p)
  /\ \/ k \notin DOMAIN row
     \/ Row(k).status \in {"cancelled", "blocked", "permanently_failed"} /\ ~Row(k).result
  /\ row' = Queued(row, {k}, 0)
  /\ UNCHANGED <<subjectVars, match, planVars, server, request, work>>

\* automation.retry and automation.cancel: the status is checked when it is read.
AskQueue(what, k) ==
  /\ request = NoRequest /\ row[k].status \in {"queued", "retryable_failed", "blocked"}
  /\ request' = [what |-> what, task |-> k]
  /\ UNCHANGED <<subjectVars, match, planVars, row, server, work>>
AnswerQueue ==
  /\ request # NoRequest
  /\ row' = Put(request.task, request.what)
  /\ request' = NoRequest
  /\ UNCHANGED <<subjectVars, match, planVars, server, work>>

\* matching.createEvidenceMatch: the owner's own scores, on no version.
RecordMatch(p) ==
  /\ \E status \in {"low_confidence", "evidence_validated"} :
       match' = [match EXCEPT ![p] = Unscored(status)]
  /\ UNCHANGED <<subjectVars, planVars, row, server, request, work>>

\* A score that no longer stands.
Invalidated(m) ==
  IF m.status \in {"low_confidence", "evidence_validated"}
  THEN Unscored("low_confidence") ELSE m

\* saveCandidateEvidence, recordCandidateDocumentChange.
ChangeEvidence(p) ==
  /\ evidence[p] < MaxEvidence
  /\ evidence' = [evidence EXCEPT ![p] = @ + 1]
  /\ match' = [match EXCEPT ![p] = Invalidated(@)]
  /\ UNCHANGED <<job, scorable, planVars, row, server, request, work>>

\* Consent is withdrawn or the candidate suppressed; an erasure closes the match.
LoseProfile(p) ==
  /\ p \in scorable /\ scorable' = scorable \ {p}
  /\ \/ match' = match
     \/ match[p].status # Nil /\ match' = [match EXCEPT ![p] = Unscored("closed")]
  /\ UNCHANGED <<job, evidence, planVars, row, server, request, work>>

\* saveJobIntakeInTransaction: only a draft may be edited.
SaveIntake ==
  /\ job.stage = "draft" /\ job.version < MaxEdits
  /\ job' = [job EXCEPT !.version = @ + 1]
  /\ match' = [p \in Profile |-> Invalidated(match[p])]
  /\ UNCHANGED <<evidence, scorable, planVars, row, server, request, work>>

\* transitionJob, by what the states allow: edits, matching, or neither.
Stages == [draft |-> {"open", "closed"}, open |-> {"draft", "paused", "closed"},
           paused |-> {"open", "closed"}, closed |-> {}]
MoveJob ==
  /\ \E stage \in Stages[job.stage] : job' = [job EXCEPT !.stage = stage]
  /\ UNCHANGED <<evidence, scorable, match, planVars, row, server, request, work>>

SwitchWork ==
  /\ work' \in {"on", "paused", "stopped"} \ {work}
  /\ UNCHANGED <<subjectVars, match, planVars, row, server, request>>

-----------------------------------------------------------------------------
RankingInit ==
  /\ job = [version |-> 0, stage |-> "draft"]
  /\ evidence = [p \in Profile |-> 0] /\ scorable \in SUBSET Profile
  /\ match = [p \in Profile |-> Unscored(Nil)]
  /\ plans = <<>> /\ lapsed = FALSE /\ stops = {} /\ runs = {}
  /\ row = <<>>
  /\ server = [s \in Server |-> Off] /\ request = NoRequest /\ work = "on"

Worker(s) ==
  \/ \E k \in DOMAIN row : Claim(s, k)
  \/ Settle(s) \/ LeaveTask(s) \/ Restart(s)
  \/ \E r \in 1..MaxPlans, n \in 1..MaxRuns :
       \/ DeferCycle(s, r, n) \/ SkipRecordedCycle(s, r, n) \/ StopCycle(s, r, n)
       \/ RunCycle(s, r, n) \/ FailCycle(s, r, n)
  \/ \E k \in ScoreTask :
       CheckScore(s, k) \/ FailInference(s, k) \/ DiscardScore(s, k) \/ ApplyScore(s, k)
RankingNext ==
  \/ \E s \in Server : Worker(s)
  \/ \E on \in BOOLEAN, budget \in {0, MaxAiTasks} : ConfigureRefresh(on, budget)
  \/ PlanLapses \/ AnswerQueue \/ SaveIntake \/ MoveJob \/ SwitchWork
  \/ \E k \in DOMAIN row :
       LeaseExpires(k) \/ \E what \in {"queued", "cancelled"} : AskQueue(what, k)
  \/ \E p \in Profile :
       QueueByHand(p) \/ RecordMatch(p) \/ ChangeEvidence(p) \/ LoseProfile(p)
RankingSpec == RankingInit /\ [][RankingNext]_rankingVars

\* The shape of every variable.
RankingTypeOK ==
  /\ job \in [version : 0..MaxEdits, stage : DOMAIN Stages]
  /\ evidence \in [Profile -> 0..MaxEvidence] /\ scorable \in SUBSET Profile
  /\ match \in [Profile -> [status : {Nil, "low_confidence", "evidence_validated", "closed"},
                            basis : {<<>>} \cup ((0..MaxEvidence) \X (0..MaxEdits))]]
  /\ plans \in Seq([on : BOOLEAN, budget : Nat, version : 0..MaxEdits,
                    stage : DOMAIN Stages])
  /\ Revision <= MaxPlans /\ lapsed \in BOOLEAN /\ stops \subseteq 1..MaxPlans
  /\ runs \subseteq [revision : 1..MaxPlans, cycle : 1..MaxRuns, minted : SUBSET ScoreTask]
  /\ DOMAIN row \subseteq QueueTask
  /\ row \in [DOMAIN row -> [status : Unsettled \cup {"running", "completed", "cancelled"},
                            holder : Server \cup {Nil}, grant : 0..MaxPlans,
                            result : BOOLEAN]]
  /\ work \in {"on", "paused", "stopped"}

\* What ran unattended stays within what the owner granted: of each revision,
\* cycles one after the other, each once, and no more scoring tasks than a run
\* and the whole plan allow, through retries, lost leases and deferrals.
UnattendedWithinGrant ==
  /\ \A x, y \in runs : x.revision = y.revision /\ x.cycle = y.cycle => x = y
  /\ \A x \in runs : /\ x.cycle > 1 => Recorded(x.revision, x.cycle - 1)
                     /\ Cardinality(x.minted) <= MaxPerRun
  /\ \A r \in 1..Revision : Cardinality(MintedUnder(r)) <= plans[r].budget

\* A plan that is on and was not stopped goes on: the task of its next cycle is
\* in the queue and not taken for done, whatever became of earlier attempts.
RefreshContinues ==
  LET next == Cardinality({run \in runs : run.revision = Revision}) + 1
  IN  Revision > 0 /\ plans[Revision].on /\ Revision \notin stops
        => /\ next <= MaxRuns
           /\ Row(<<"cycle", Revision, next>>).status \notin {Nil, "completed"}

\* A score that counts as validated is of the evidence and the requirement as
\* they are now, however long the inference took.
ValidatedIsCurrent ==
  \A p \in Profile :
    match[p].basis # <<>> => match[p].basis = <<evidence[p], job.version>>
=============================================================================
