----------------------- MODULE AutomationQueue_proofs -----------------------
(* Theorems about AutomationQueue for every set of rows and workers and    *)
(* every value of the limits.                                              *)
EXTENDS AutomationQueue, TLAPS

\* The backoff never leaves 0..BackoffCap, whatever the attempt.
LEMMA BackoffInRange == \A n \in Nat : CalculateBackoff(n) \in 0..BackoffCap
<1> TAKE n \in Nat
<1> DEFINE delay == BackoffBase * 2^(IF n > 1 THEN n - 1 ELSE 0)
<1>1. CalculateBackoff(n) =
        IF delay \in 0..BackoffCap THEN delay ELSE BackoffCap
  BY DEF CalculateBackoff
<1>2. BackoffCap \in 0..BackoffCap
  BY BoundAssumption
<1> HIDE DEF delay
<1> QED
  BY <1>1, <1>2

\* The job an idle process is said to hold is one of the jobs.
LEMMA AnyJobIsJob == AnyJob \in Job
BY JobAssumption DEF AnyJob

\* Type correctness of a worker's return to idle.
LEMMA ForgetType ==
  ASSUME TypeOK, NEW w \in Worker, Forget(w)
  PROVE  /\ pc' \in [Worker -> WorkerPc]
         /\ job' \in [Worker -> Job]
         /\ held' \in [Worker -> Nat]
         /\ tries' \in [Worker -> Nat]
         /\ outcome' \in [Worker -> Outcome]
         /\ sawBackground' \in [Worker -> BOOLEAN]
         /\ age' \in [Worker -> 0..Lease]
BY AnyJobIsJob, BoundAssumption DEF TypeOK, Forget, WorkerPc, Outcome

\* Type correctness of a worker's move to the write that settles its row.
LEMMA FinishType ==
  ASSUME TypeOK, NEW w \in Worker, NEW S \in SUBSET Outcome, Finish(w, S)
  PROVE  pc' \in [Worker -> WorkerPc] /\ outcome' \in [Worker -> Outcome]
BY DEF TypeOK, Finish, WorkerPc

\* The empty queue is well typed.
LEMMA TypeInit == Init => TypeOK
<1> SUFFICES ASSUME Init PROVE TypeOK
  OBVIOUS
<1>1. /\ status \in [Job -> Status] /\ attempts \in [Job -> Nat]
      /\ token \in [Job -> Nat] /\ lease \in [Job -> 0..Lease]
      /\ due \in [Job -> 0..BackoffCap] /\ claims \in [Job -> Nat]
      /\ requeues \in [Job -> Nat] /\ appliedBy \in [Job -> Nat]
      /\ lateClaims \in [Worker -> Nat] /\ aiUsed \in Nat /\ crashes \in Nat
  BY BoundAssumption DEF Init, Status
<1>2. /\ approval \in [Job -> {"approved", "cancelled"}]
      /\ effect \in [Job -> BOOLEAN]
      /\ scan \in [Job -> {"accepted_pending_scan", "clean", "flagged"}]
      /\ parse \in [Job -> {"queued", "parsed", "failed", "blocked"}]
      /\ stop \in BOOLEAN /\ background \in BOOLEAN
  BY DEF Init
<1>3. /\ pc \in [Worker -> WorkerPc] /\ job \in [Worker -> Job]
      /\ held \in [Worker -> Nat] /\ tries \in [Worker -> Nat]
      /\ outcome \in [Worker -> Outcome]
      /\ sawBackground \in [Worker -> BOOLEAN]
      /\ age \in [Worker -> 0..Lease]
  BY AnyJobIsJob, BoundAssumption DEF Init, WorkerPc, Outcome
<1>4. owner \in OwnerState
  BY DEF Init, OwnerState
<1> QED
  BY <1>1, <1>2, <1>3, <1>4 DEF TypeOK

\* Every step of the processes, the sources, the owner and the clock keeps
\* every variable in its set.
LEMMA TypeNext == TypeOK /\ [Next]_vars => TypeOK'
<1> SUFFICES ASSUME TypeOK, [Next]_vars PROVE TypeOK'
  OBVIOUS
<1> USE DEF rowVars, ghostVars, effectVars, settingVars, workerVars
<1>1. ASSUME NEW j \in Job, Enqueue(j) PROVE TypeOK'
  BY <1>1 DEF TypeOK, Enqueue, Status
<1>2. ASSUME NEW j \in Job, Reschedule(j) PROVE TypeOK'
  BY <1>2, BoundAssumption DEF TypeOK, Reschedule, Status
<1>3. ASSUME NEW j \in Job, CancelTimer(j) PROVE TypeOK'
  BY <1>3, BoundAssumption DEF TypeOK, CancelTimer, Status
<1>4. ASSUME NEW w \in Worker, StartPoll(w) PROVE TypeOK'
  BY <1>4 DEF TypeOK, StartPoll, WorkerPc
<1>5. ASSUME NEW w \in Worker, SelectJob(w) PROVE TypeOK'
  <2>1. /\ status' \in [Job -> Status]
        /\ token' \in [Job -> Nat]
        /\ lease' \in [Job -> 0..Lease]
    BY <1>5, BoundAssumption DEF TypeOK, SelectJob, ExpireLeases, Status
  <2>2. /\ pc' \in [Worker -> WorkerPc]
        /\ job' \in [Worker -> Job]
        /\ held' \in [Worker -> Nat]
        /\ tries' \in [Worker -> Nat]
        /\ outcome' \in [Worker -> Outcome]
        /\ sawBackground' \in [Worker -> BOOLEAN]
        /\ age' \in [Worker -> 0..Lease]
    <3>1. PICK ready \in SUBSET Due :
            \/ \E j \in Choices(w, ready) :
                 /\ pc' = [pc EXCEPT ![w] = "selected"]
                 /\ job' = [job EXCEPT ![w] = j]
                 /\ tries' = [tries EXCEPT ![w] = attempts[j]]
                 /\ UNCHANGED <<held, outcome, sawBackground, age>>
            \/ Choices(w, ready) = {} /\ Forget(w)
      BY <1>5 DEF SelectJob
    <3>2. CASE Choices(w, ready) = {} /\ Forget(w)
      BY <3>2, ForgetType
    <3>3. ASSUME NEW j \in Choices(w, ready),
                 /\ pc' = [pc EXCEPT ![w] = "selected"]
                 /\ job' = [job EXCEPT ![w] = j]
                 /\ tries' = [tries EXCEPT ![w] = attempts[j]]
                 /\ UNCHANGED <<held, outcome, sawBackground, age>>
          PROVE  /\ pc' \in [Worker -> WorkerPc]
                 /\ job' \in [Worker -> Job]
                 /\ held' \in [Worker -> Nat]
                 /\ tries' \in [Worker -> Nat]
                 /\ outcome' \in [Worker -> Outcome]
                 /\ sawBackground' \in [Worker -> BOOLEAN]
                 /\ age' \in [Worker -> 0..Lease]
      <4>1. j \in Job
        BY DEF Choices, Permitted, First, Due
      <4> QED
        BY <3>3, <4>1 DEF TypeOK, WorkerPc
    <3> QED
      BY <3>1, <3>2, <3>3
  <2>3. UNCHANGED <<attempts, due, ghostVars, effectVars, settingVars, crashes,
                    owner>>
    BY <1>5 DEF SelectJob
  <2> QED
    BY <2>1, <2>2, <2>3 DEF TypeOK
<1>6. ASSUME NEW w \in Worker, Claim(w) PROVE TypeOK'
  BY <1>6, BoundAssumption DEF TypeOK, Claim, Status, WorkerPc
<1>7. ASSUME NEW w \in Worker, Contended(w) PROVE TypeOK'
  BY <1>7, ForgetType DEF TypeOK, Contended
<1>8. ASSUME NEW w \in Worker, NEW S \in SUBSET Outcome, Finish(w, S),
             UNCHANGED effectVars
      PROVE  TypeOK'
  BY <1>8, FinishType DEF TypeOK, Finish
<1>9. ASSUME NEW w \in Worker, BackgroundWork(w) PROVE TypeOK'
  BY <1>9, <1>8 DEF BackgroundWork, MayDefer, Outcome
<1>10. ASSUME NEW w \in Worker, TimerWork(w) PROVE TypeOK'
  BY <1>10, <1>8 DEF TimerWork, MayDefer, Outcome
<1>11. ASSUME NEW w \in Worker, ReadApproval(w) PROVE TypeOK'
  <2>1. PICK S \in SUBSET Outcome :
          \/ Finish(w, S)
          \/ /\ pc' = [pc EXCEPT ![w] = "effect"]
             /\ UNCHANGED <<rowVars, ghostVars, settingVars, job, held, tries,
                            outcome, sawBackground, age, crashes, owner>>
    BY <1>11 DEF ReadApproval, Outcome
  <2>2. UNCHANGED effectVars
    BY <1>11 DEF ReadApproval
  <2> QED
    BY <1>8, <2>1, <2>2 DEF TypeOK, WorkerPc
<1>12. ASSUME NEW w \in Worker, ApplyPolicyEffect(w) PROVE TypeOK'
  <2>1. effect' \in [Job -> BOOLEAN]
    BY <1>12 DEF TypeOK, ApplyPolicyEffect
  <2>2. Failure(w) \in Outcome
    BY DEF Failure, Outcome
  <2>3. \E o \in Outcome : Finish(w, {o})
    BY <1>12, <2>2 DEF ApplyPolicyEffect, Outcome
  <2> QED
    BY <1>12, <2>1, <2>3, FinishType DEF TypeOK, ApplyPolicyEffect, Finish
<1>13. ASSUME NEW w \in Worker, ScanWork(w) PROVE TypeOK'
  <2> DEFINE d == ParseOf[job[w]]
  <2>1. CASE /\ ScanVerdict(d, "clean")
             /\ pc' = [pc EXCEPT ![w] = "scanned"]
             /\ UNCHANGED <<rowVars, ghostVars, settingVars, job, held, tries,
                            outcome, sawBackground, age, crashes, owner>>
    BY <2>1 DEF TypeOK, ScanVerdict, WorkerPc
  <2>2. CASE ScanVerdict(d, "flagged") /\ Finish(w, {"completed"})
    <3>1. /\ scan' \in [Job -> {"accepted_pending_scan", "clean", "flagged"}]
          /\ parse' \in [Job -> {"queued", "parsed", "failed", "blocked"}]
          /\ UNCHANGED <<approval, effect, aiUsed>>
      BY <2>2 DEF TypeOK, ScanVerdict
    <3>2. {"completed"} \subseteq Outcome
      BY DEF Outcome
    <3> QED
      BY <2>2, <3>1, <3>2, FinishType DEF TypeOK, Finish
  <2>3. CASE Finish(w, {Failure(w)}) /\ UNCHANGED effectVars
    BY <2>3, <1>8 DEF Failure, Outcome
  <2> QED
    BY <1>13, <2>1, <2>2, <2>3 DEF ScanWork
<1>14. ASSUME NEW w \in Worker, EnqueueParse(w) PROVE TypeOK'
  BY <1>14, JobAssumption DEF TypeOK, EnqueueParse, WorkerPc, Outcome, Status
<1>15. ASSUME NEW w \in Worker, ParsePrecheck(w) PROVE TypeOK'
  <2>1. CASE /\ pc' = [pc EXCEPT ![w] = "inferring"]
             /\ UNCHANGED <<rowVars, ghostVars, effectVars, settingVars, job, held,
                            tries, outcome, sawBackground, age, crashes, owner>>
    BY <2>1 DEF TypeOK, WorkerPc
  <2>2. CASE Finish(w, {"blocked"}) /\ UNCHANGED effectVars
    BY <2>2, <1>8 DEF Outcome
  <2> QED
    BY <1>15, <2>1, <2>2 DEF ParsePrecheck
<1>16. ASSUME NEW w \in Worker, Respond(w) PROVE TypeOK'
  BY <1>16 DEF TypeOK, Respond, WorkerPc
<1>17. ASSUME NEW w \in Worker, InferenceError(w) PROVE TypeOK'
  BY <1>17 DEF TypeOK, InferenceError, Fail, Failure, WorkerPc, Outcome
<1>18. ASSUME NEW w \in Worker, ApplyResult(w) PROVE TypeOK'
  BY <1>18 DEF TypeOK, ApplyResult, HandleAiTaskResult, WorkerPc, Outcome
<1>19. ASSUME NEW w \in Worker, ApplyError(w) PROVE TypeOK'
  BY <1>19 DEF TypeOK, ApplyError, Fail, Failure, WorkerPc, Outcome
<1>20. ASSUME NEW w \in Worker, RecordFailure(w) PROVE TypeOK'
  BY <1>20 DEF TypeOK, RecordFailure, WorkerPc
<1>21. ASSUME NEW w \in Worker, Settle(w) PROVE TypeOK'
  <2>1. Delays(w) \subseteq 0..BackoffCap
    <3>1. tries[w] + 1 \in Nat
      BY DEF TypeOK
    <3> QED
      BY <3>1, BackoffInRange, BoundAssumption DEF Delays
  <2>2. /\ status' \in [Job -> Status] /\ attempts' \in [Job -> Nat]
        /\ token' \in [Job -> Nat] /\ lease' \in [Job -> 0..Lease]
        /\ due' \in [Job -> 0..BackoffCap] /\ requeues' \in [Job -> Nat]
    <3>1. CASE ~Fenced(w) /\ UNCHANGED <<rowVars, requeues>>
      BY <3>1 DEF TypeOK
    <3>2. CASE Fenced(w) /\ SettleRow(w)
      <4>1. SettledStatus(outcome[w]) \in Status
        BY DEF TypeOK, SettledStatus, Outcome, Status
      <4>2. /\ status' \in [Job -> Status] /\ attempts' \in [Job -> Nat]
            /\ token' \in [Job -> Nat] /\ lease' \in [Job -> 0..Lease]
            /\ requeues' \in [Job -> Nat]
        BY <3>2, <4>1, BoundAssumption DEF TypeOK, SettleRow
      <4>3. due' \in [Job -> 0..BackoffCap]
        BY <3>2, <2>1 DEF TypeOK, SettleRow
      <4> QED
        BY <4>2, <4>3
    <3> QED
      BY <1>21, <3>1, <3>2 DEF Settle
  <2> QED
    BY <1>21, <2>2, ForgetType DEF Settle, TypeOK
<1>22. ASSUME NEW w \in Worker, Crash(w) PROVE TypeOK'
  BY <1>22, ForgetType DEF TypeOK, Crash
<1>23. ASSUME NEW j \in Job, OwnerReads(j) PROVE TypeOK'
  BY <1>23 DEF TypeOK, OwnerReads, OwnerState
<1>24. ASSUME NEW j \in Job, OwnerWrites(j) PROVE TypeOK'
  BY <1>24, BoundAssumption DEF TypeOK, OwnerWrites, OwnerState, Status
<1>25. ASSUME NEW j \in Job, OwnerCancelsApproval(j) PROVE TypeOK'
  BY <1>25 DEF TypeOK, OwnerCancelsApproval, OwnerState
<1>26. ASSUME NEW j \in Job, OwnerScans(j) PROVE TypeOK'
  BY <1>26 DEF TypeOK, OwnerScans, ScanVerdict
<1>27. CASE SetEmergencyStop
  BY <1>27 DEF TypeOK, SetEmergencyStop
<1>28. CASE ConfigureBackgroundWorker
  BY <1>28 DEF TypeOK, ConfigureBackgroundWorker
<1>29. CASE Tick
  BY <1>29, BoundAssumption DEF TypeOK, Tick
<1>30. CASE UNCHANGED vars
  BY <1>30 DEF TypeOK, vars
<1> QED
  BY <1>1, <1>2, <1>3, <1>4, <1>5, <1>6, <1>7, <1>9, <1>10, <1>11, <1>12,
     <1>13, <1>14, <1>15, <1>16, <1>17, <1>18, <1>19, <1>20, <1>21, <1>22,
     <1>23, <1>24, <1>25, <1>26, <1>27, <1>28, <1>29, <1>30
  DEF Next, WorkerStep, SourceStep, OwnerStep, ManagedPoll, StandalonePoll,
      RunNext, ReadWorkspace

\* Every variable keeps to its set in every reachable state.
THEOREM TypeCorrect == Spec => []TypeOK
BY TypeInit, TypeNext, PTL DEF Spec
-----------------------------------------------------------------------------
(* Safety.  Each group of invariants is inductive relative to the groups   *)
(* before it: the locks of the rows, the claims the processes remember,    *)
(* the results they apply, the attempts they count.                        *)

Active(w) == pc[w] \notin {"idle", "polled", "selected"}
Inferred(j) == Kind[j] \in {"ai", "parse_cv"}

\* A process remembers a claim that was made, no two processes the same one.
DistinctClaims ==
  /\ \A w \in Worker : Active(w) => held[w] \in 1..claims[job[w]]
  /\ \A v, w \in Worker :
       Active(v) /\ Active(w) /\ job[v] = job[w] /\ held[v] = held[w] => v = w

\* Where a process is tells the kind of its job and what it will settle.
WorkFitsJob ==
  \A w \in Worker :
    /\ pc[w] = "effect" => Kind[job[w]] = "policy"
    /\ pc[w] = "scanned" => Kind[job[w]] = "scan"
    /\ pc[w] \in {"inferring", "responded"} => Inferred(job[w])
    /\ pc[w] = "failing" => outcome[w] # "completed"

\* The owner of a row that needs inference has applied its result exactly when
\* it is about to settle it as completed.
OwnerApplied ==
  /\ \A j \in Job : appliedBy[j] <= claims[j]
  /\ \A w \in Worker :
       Active(w) /\ token[job[w]] = held[w] /\ Inferred(job[w]) =>
         /\ pc[w] # "settle" => appliedBy[job[w]] < held[w]
         /\ pc[w] = "settle" /\ outcome[w] = "completed"
              => appliedBy[job[w]] = held[w]

\* What a process remembers of the attempts is below the limit, and exact while
\* it owns the row.
AttemptsKnown ==
  /\ \A j \in Job : status[j] = "absent" => attempts[j] = 0
  /\ \A w \in Worker :
       /\ pc[w] \notin {"idle", "polled"}
            => tries[w] < MaxAttempts + requeues[job[w]]
       /\ Active(w) /\ token[job[w]] = held[w]
            => attempts[job[w]] = tries[w] + 1
       /\ pc[w] \in {"failing", "settle"} /\ outcome[w] = "retryable_failed"
            => tries[w] + 1 < MaxAttempts

\* A process that polled before the stop has claimed nothing under it yet.
StopSeen ==
  \A w \in Worker :
    stop /\ pc[w] \in {"polled", "selected"} => lateClaims[w] = 0

\* Every step keeps a lease on exactly the running rows: claiming takes both,
\* settling, rescheduling and expiry give both up.
LEMMA LockNext ==
  ASSUME TypeOK, LockDiscipline, [Next]_vars
  PROVE  LockDiscipline'
<1> USE DEF rowVars, ghostVars, effectVars, settingVars, workerVars
<1>1. ASSUME NEW j \in Job, Enqueue(j) PROVE LockDiscipline'
  BY <1>1 DEF LockDiscipline, Enqueue
<1>2. ASSUME NEW j \in Job, Reschedule(j) PROVE LockDiscipline'
  BY <1>2 DEF LockDiscipline, Reschedule
<1>3. ASSUME NEW j \in Job, CancelTimer(j) PROVE LockDiscipline'
  BY <1>3 DEF TypeOK, LockDiscipline, CancelTimer
<1>4. ASSUME NEW w \in Worker, StartPoll(w) PROVE LockDiscipline'
  BY <1>4 DEF LockDiscipline, StartPoll
<1>5. ASSUME NEW w \in Worker, SelectJob(w) PROVE LockDiscipline'
  BY <1>5 DEF LockDiscipline, SelectJob, ExpireLeases
<1>6. ASSUME NEW w \in Worker, Claim(w) PROVE LockDiscipline'
  BY <1>6 DEF TypeOK, LockDiscipline, Claim
<1>7. ASSUME NEW w \in Worker, Contended(w) PROVE LockDiscipline'
  BY <1>7 DEF LockDiscipline, Contended
<1>8. ASSUME NEW w \in Worker, BackgroundWork(w) PROVE LockDiscipline'
  BY <1>8 DEF LockDiscipline, BackgroundWork, Finish
<1>9. ASSUME NEW w \in Worker, TimerWork(w) PROVE LockDiscipline'
  BY <1>9 DEF LockDiscipline, TimerWork, Finish
<1>10. ASSUME NEW w \in Worker, ReadApproval(w) PROVE LockDiscipline'
  BY <1>10 DEF LockDiscipline, ReadApproval, Finish
<1>11. ASSUME NEW w \in Worker, ApplyPolicyEffect(w) PROVE LockDiscipline'
  BY <1>11 DEF LockDiscipline, ApplyPolicyEffect, Finish
<1>12. ASSUME NEW w \in Worker, ScanWork(w) PROVE LockDiscipline'
  BY <1>12 DEF LockDiscipline, ScanWork, Finish
<1>13. ASSUME NEW w \in Worker, EnqueueParse(w) PROVE LockDiscipline'
  BY <1>13 DEF LockDiscipline, EnqueueParse
<1>14. ASSUME NEW w \in Worker, ParsePrecheck(w) PROVE LockDiscipline'
  BY <1>14 DEF LockDiscipline, ParsePrecheck, Finish
<1>15. ASSUME NEW w \in Worker, Respond(w) PROVE LockDiscipline'
  BY <1>15 DEF LockDiscipline, Respond
<1>16. ASSUME NEW w \in Worker, InferenceError(w) PROVE LockDiscipline'
  BY <1>16 DEF LockDiscipline, InferenceError
<1>17. ASSUME NEW w \in Worker, ApplyResult(w) PROVE LockDiscipline'
  BY <1>17 DEF LockDiscipline, ApplyResult
<1>18. ASSUME NEW w \in Worker, ApplyError(w) PROVE LockDiscipline'
  BY <1>18 DEF LockDiscipline, ApplyError
<1>19. ASSUME NEW w \in Worker, RecordFailure(w) PROVE LockDiscipline'
  BY <1>19 DEF LockDiscipline, RecordFailure
<1>20. ASSUME NEW w \in Worker, Settle(w) PROVE LockDiscipline'
  <2>1. CASE ~Fenced(w) /\ UNCHANGED <<rowVars, requeues>>
    BY <1>20, <2>1 DEF LockDiscipline, Settle
  <2>2. CASE Fenced(w) /\ SettleRow(w)
    <3>1. SettledStatus(outcome[w]) # "running"
      BY DEF TypeOK, SettledStatus, Outcome
    <3> QED
      BY <1>20, <2>2, <3>1 DEF TypeOK, LockDiscipline, Settle, SettleRow
  <2> QED
    BY <1>20, <2>1, <2>2 DEF Settle
<1>21. ASSUME NEW w \in Worker, Crash(w) PROVE LockDiscipline'
  BY <1>21 DEF LockDiscipline, Crash
<1>22. ASSUME NEW j \in Job, OwnerReads(j) PROVE LockDiscipline'
  BY <1>22 DEF LockDiscipline, OwnerReads
<1>23. ASSUME NEW j \in Job, OwnerWrites(j) PROVE LockDiscipline'
  BY <1>23 DEF TypeOK, LockDiscipline, OwnerWrites
<1>24. ASSUME NEW j \in Job, OwnerCancelsApproval(j) PROVE LockDiscipline'
  BY <1>24 DEF LockDiscipline, OwnerCancelsApproval
<1>25. ASSUME NEW j \in Job, OwnerScans(j) PROVE LockDiscipline'
  BY <1>25 DEF LockDiscipline, OwnerScans
<1>26. CASE SetEmergencyStop
  BY <1>26 DEF LockDiscipline, SetEmergencyStop
<1>27. CASE ConfigureBackgroundWorker
  BY <1>27 DEF LockDiscipline, ConfigureBackgroundWorker
<1>28. CASE Tick
  BY <1>28 DEF LockDiscipline, Tick
<1>29. CASE UNCHANGED vars
  BY <1>29 DEF LockDiscipline, vars
<1> QED
  BY <1>1, <1>2, <1>3, <1>4, <1>5, <1>6, <1>7, <1>8, <1>9, <1>10, <1>11,
     <1>12, <1>13, <1>14, <1>15, <1>16, <1>17, <1>18, <1>19, <1>20, <1>21,
     <1>22, <1>23, <1>24, <1>25, <1>26, <1>27, <1>28, <1>29
  DEF Next, WorkerStep, SourceStep, OwnerStep, ManagedPoll, StandalonePoll,
      RunNext, ReadWorkspace

\* Every step keeps the remembered claims distinct: Claim hands out the next
\* number and no step gives one twice.
LEMMA ClaimsNext ==
  ASSUME TypeOK, DistinctClaims, [Next]_vars
  PROVE  DistinctClaims'
<1> USE DEF rowVars, ghostVars, effectVars, settingVars, workerVars
<1>0. ASSUME NEW w \in Worker, Active(w), UNCHANGED <<claims, job, held>>,
             \A v \in Worker \ {w} : pc'[v] = pc[v]
      PROVE  DistinctClaims'
  BY <1>0 DEF DistinctClaims, Active
<1>1. ASSUME NEW j \in Job, Enqueue(j) PROVE DistinctClaims'
  BY <1>1 DEF DistinctClaims, Active, Enqueue
<1>2. ASSUME NEW j \in Job, Reschedule(j) PROVE DistinctClaims'
  BY <1>2 DEF DistinctClaims, Active, Reschedule
<1>3. ASSUME NEW j \in Job, CancelTimer(j) PROVE DistinctClaims'
  BY <1>3 DEF DistinctClaims, Active, CancelTimer
<1>4. ASSUME NEW w \in Worker, StartPoll(w) PROVE DistinctClaims'
  BY <1>4 DEF DistinctClaims, Active, StartPoll
<1>5. ASSUME NEW w \in Worker, SelectJob(w) PROVE DistinctClaims'
  <2>1. /\ claims' = claims
        /\ \A v \in Worker \ {w} : /\ pc'[v] = pc[v] /\ job'[v] = job[v]
                                   /\ held'[v] = held[v]
    BY <1>5 DEF TypeOK, SelectJob, Forget
  <2>2. pc'[w] \in {"idle", "selected"}
    BY <1>5 DEF TypeOK, SelectJob, Forget
  <2> QED
    BY <2>1, <2>2 DEF DistinctClaims, Active
<1>6. ASSUME NEW w \in Worker, Claim(w) PROVE DistinctClaims'
  BY <1>6 DEF TypeOK, DistinctClaims, Active, Claim
<1>7. ASSUME NEW w \in Worker, Contended(w) PROVE DistinctClaims'
  BY <1>7 DEF DistinctClaims, Active, Contended, Forget
<1>8. ASSUME NEW w \in Worker, BackgroundWork(w) PROVE DistinctClaims'
  BY <1>8 DEF DistinctClaims, Active, BackgroundWork, Finish
<1>9. ASSUME NEW w \in Worker, TimerWork(w) PROVE DistinctClaims'
  BY <1>9 DEF DistinctClaims, Active, TimerWork, Finish
<1>10. ASSUME NEW w \in Worker, ReadApproval(w) PROVE DistinctClaims'
  BY <1>10, <1>0 DEF TypeOK, Active, ReadApproval, Finish
<1>11. ASSUME NEW w \in Worker, ApplyPolicyEffect(w) PROVE DistinctClaims'
  BY SMTT(30), <1>11 DEF TypeOK, DistinctClaims, Active, ApplyPolicyEffect, Finish,
     Failure
<1>12. ASSUME NEW w \in Worker, ScanWork(w) PROVE DistinctClaims'
  BY <1>12, <1>0 DEF TypeOK, Active, ScanWork, Finish
<1>13. ASSUME NEW w \in Worker, EnqueueParse(w) PROVE DistinctClaims'
  BY <1>13 DEF DistinctClaims, Active, EnqueueParse
<1>14. ASSUME NEW w \in Worker, ParsePrecheck(w) PROVE DistinctClaims'
  BY <1>14, <1>0 DEF TypeOK, Active, ParsePrecheck, Finish
<1>15. ASSUME NEW w \in Worker, Respond(w) PROVE DistinctClaims'
  BY <1>15 DEF DistinctClaims, Active, Respond
<1>16. ASSUME NEW w \in Worker, InferenceError(w) PROVE DistinctClaims'
  BY <1>16 DEF DistinctClaims, Active, InferenceError, Fail
<1>17. ASSUME NEW w \in Worker, ApplyResult(w) PROVE DistinctClaims'
  BY <1>17 DEF DistinctClaims, Active, ApplyResult
<1>18. ASSUME NEW w \in Worker, ApplyError(w) PROVE DistinctClaims'
  BY <1>18 DEF DistinctClaims, Active, ApplyError, Fail
<1>19. ASSUME NEW w \in Worker, RecordFailure(w) PROVE DistinctClaims'
  BY <1>19 DEF DistinctClaims, Active, RecordFailure
<1>20. ASSUME NEW w \in Worker, Settle(w) PROVE DistinctClaims'
  BY <1>20 DEF TypeOK, DistinctClaims, Active, Settle, Forget
<1>21. ASSUME NEW w \in Worker, Crash(w) PROVE DistinctClaims'
  BY <1>21 DEF TypeOK, DistinctClaims, Active, Crash, Forget
<1>22. ASSUME NEW j \in Job, OwnerReads(j) PROVE DistinctClaims'
  BY <1>22 DEF DistinctClaims, Active, OwnerReads
<1>23. ASSUME NEW j \in Job, OwnerWrites(j) PROVE DistinctClaims'
  BY <1>23 DEF DistinctClaims, Active, OwnerWrites
<1>24. ASSUME NEW j \in Job, OwnerCancelsApproval(j) PROVE DistinctClaims'
  BY <1>24 DEF DistinctClaims, Active, OwnerCancelsApproval
<1>25. ASSUME NEW j \in Job, OwnerScans(j) PROVE DistinctClaims'
  BY <1>25 DEF DistinctClaims, Active, OwnerScans
<1>26. CASE SetEmergencyStop
  BY <1>26 DEF DistinctClaims, Active, SetEmergencyStop
<1>27. CASE ConfigureBackgroundWorker
  BY <1>27 DEF DistinctClaims, Active, ConfigureBackgroundWorker
<1>28. CASE Tick
  BY <1>28 DEF DistinctClaims, Active, Tick
<1>29. CASE UNCHANGED vars
  BY <1>29 DEF DistinctClaims, Active, vars
<1> QED
  BY <1>1, <1>2, <1>3, <1>4, <1>5, <1>6, <1>7, <1>8, <1>9, <1>10, <1>11,
     <1>12, <1>13, <1>14, <1>15, <1>16, <1>17, <1>18, <1>19, <1>20, <1>21,
     <1>22, <1>23, <1>24, <1>25, <1>26, <1>27, <1>28, <1>29
  DEF Next, WorkerStep, SourceStep, OwnerStep, ManagedPoll, StandalonePoll,
      RunNext, ReadWorkspace

\* Every step keeps a process's place in step with the kind of its job.
LEMMA FitsNext ==
  ASSUME TypeOK, WorkFitsJob, [Next]_vars
  PROVE  WorkFitsJob'
<1> USE DEF rowVars, ghostVars, effectVars, settingVars, workerVars
<1>1. ASSUME NEW j \in Job, Enqueue(j) PROVE WorkFitsJob'
  BY <1>1 DEF WorkFitsJob, Enqueue
<1>2. ASSUME NEW j \in Job, Reschedule(j) PROVE WorkFitsJob'
  BY <1>2 DEF WorkFitsJob, Reschedule
<1>3. ASSUME NEW j \in Job, CancelTimer(j) PROVE WorkFitsJob'
  BY <1>3 DEF WorkFitsJob, CancelTimer
<1>4. ASSUME NEW w \in Worker, StartPoll(w) PROVE WorkFitsJob'
  BY <1>4 DEF WorkFitsJob, StartPoll
<1>5. ASSUME NEW w \in Worker, SelectJob(w) PROVE WorkFitsJob'
  BY <1>5 DEF TypeOK, WorkFitsJob, SelectJob, Forget
<1>6. ASSUME NEW w \in Worker, Claim(w) PROVE WorkFitsJob'
  BY <1>6 DEF WorkFitsJob, Inferred, Claim
<1>7. ASSUME NEW w \in Worker, Contended(w) PROVE WorkFitsJob'
  BY <1>7 DEF WorkFitsJob, Contended, Forget
<1>8. ASSUME NEW w \in Worker, BackgroundWork(w) PROVE WorkFitsJob'
  BY <1>8 DEF WorkFitsJob, BackgroundWork, Finish
<1>9. ASSUME NEW w \in Worker, TimerWork(w) PROVE WorkFitsJob'
  BY <1>9 DEF WorkFitsJob, TimerWork, Finish
<1>10. ASSUME NEW w \in Worker, ReadApproval(w) PROVE WorkFitsJob'
  BY <1>10 DEF TypeOK, WorkFitsJob, ReadApproval, Finish
<1>11. ASSUME NEW w \in Worker, ApplyPolicyEffect(w) PROVE WorkFitsJob'
  BY <1>11 DEF TypeOK, WorkFitsJob, ApplyPolicyEffect, Finish
<1>12. ASSUME NEW w \in Worker, ScanWork(w) PROVE WorkFitsJob'
  BY <1>12 DEF TypeOK, WorkFitsJob, ScanWork, Finish
<1>13. ASSUME NEW w \in Worker, EnqueueParse(w) PROVE WorkFitsJob'
  BY <1>13 DEF WorkFitsJob, EnqueueParse
<1>14. ASSUME NEW w \in Worker, ParsePrecheck(w) PROVE WorkFitsJob'
  BY <1>14 DEF TypeOK, WorkFitsJob, Inferred, ParsePrecheck, Finish
<1>15. ASSUME NEW w \in Worker, Respond(w) PROVE WorkFitsJob'
  BY <1>15 DEF WorkFitsJob, Respond
<1>16. ASSUME NEW w \in Worker, InferenceError(w) PROVE WorkFitsJob'
  BY <1>16 DEF TypeOK, WorkFitsJob, InferenceError, Fail, Failure
<1>17. ASSUME NEW w \in Worker, ApplyResult(w) PROVE WorkFitsJob'
  BY <1>17 DEF WorkFitsJob, ApplyResult
<1>18. ASSUME NEW w \in Worker, ApplyError(w) PROVE WorkFitsJob'
  BY <1>18 DEF TypeOK, WorkFitsJob, ApplyError, Fail, Failure
<1>19. ASSUME NEW w \in Worker, RecordFailure(w) PROVE WorkFitsJob'
  BY <1>19 DEF WorkFitsJob, RecordFailure
<1>20. ASSUME NEW w \in Worker, Settle(w) PROVE WorkFitsJob'
  BY <1>20 DEF WorkFitsJob, Settle, Forget
<1>21. ASSUME NEW w \in Worker, Crash(w) PROVE WorkFitsJob'
  BY <1>21 DEF TypeOK, WorkFitsJob, Crash, Forget
<1>22. ASSUME NEW j \in Job, OwnerReads(j) PROVE WorkFitsJob'
  BY <1>22 DEF WorkFitsJob, OwnerReads
<1>23. ASSUME NEW j \in Job, OwnerWrites(j) PROVE WorkFitsJob'
  BY <1>23 DEF WorkFitsJob, OwnerWrites
<1>24. ASSUME NEW j \in Job, OwnerCancelsApproval(j) PROVE WorkFitsJob'
  BY <1>24 DEF WorkFitsJob, OwnerCancelsApproval
<1>25. ASSUME NEW j \in Job, OwnerScans(j) PROVE WorkFitsJob'
  BY <1>25 DEF WorkFitsJob, OwnerScans
<1>26. CASE SetEmergencyStop
  BY <1>26 DEF WorkFitsJob, SetEmergencyStop
<1>27. CASE ConfigureBackgroundWorker
  BY <1>27 DEF WorkFitsJob, ConfigureBackgroundWorker
<1>28. CASE Tick
  BY <1>28 DEF WorkFitsJob, Tick
<1>29. CASE UNCHANGED vars
  BY <1>29 DEF WorkFitsJob, vars
<1> QED
  BY <1>1, <1>2, <1>3, <1>4, <1>5, <1>6, <1>7, <1>8, <1>9, <1>10, <1>11,
     <1>12, <1>13, <1>14, <1>15, <1>16, <1>17, <1>18, <1>19, <1>20, <1>21,
     <1>22, <1>23, <1>24, <1>25, <1>26, <1>27, <1>28, <1>29
  DEF Next, WorkerStep, SourceStep, OwnerStep, ManagedPoll, StandalonePoll,
      RunNext, ReadWorkspace

\* Every step keeps the applied result of a row in step with what its owner is
\* about to settle.
LEMMA OwnerAppliedNext ==
  ASSUME TypeOK, LockDiscipline, DistinctClaims, WorkFitsJob,
         OwnerApplied, [Next]_vars
  PROVE  OwnerApplied'
<1> USE DEF rowVars, ghostVars, effectVars, settingVars, workerVars
<1>1. ASSUME NEW j \in Job, Enqueue(j) PROVE OwnerApplied'
  BY <1>1 DEF OwnerApplied, Active, Enqueue
<1>2. ASSUME NEW j \in Job, Reschedule(j) PROVE OwnerApplied'
  BY <1>2 DEF OwnerApplied, Active, Inferred, Reschedule
<1>3. ASSUME NEW j \in Job, CancelTimer(j) PROVE OwnerApplied'
  BY <1>3 DEF OwnerApplied, Active, Inferred, CancelTimer
<1>4. ASSUME NEW w \in Worker, StartPoll(w) PROVE OwnerApplied'
  BY <1>4 DEF OwnerApplied, Active, StartPoll
<1>5. ASSUME NEW w \in Worker, SelectJob(w) PROVE OwnerApplied'
  <2>1. /\ claims' = claims /\ appliedBy' = appliedBy
        /\ \A v \in Worker \ {w} : /\ pc'[v] = pc[v] /\ job'[v] = job[v]
                                   /\ held'[v] = held[v] /\ outcome'[v] = outcome[v]
    BY <1>5 DEF TypeOK, SelectJob, Forget
  <2>2. pc'[w] \in {"idle", "selected"}
    BY <1>5 DEF TypeOK, SelectJob, Forget
  <2>3. \A j \in Job : token'[j] \in {token[j], 0}
    BY <1>5 DEF SelectJob, ExpireLeases
  <2>4. \A v \in Worker : Active(v) => held[v] # 0
    BY DEF DistinctClaims
  <2> QED
    BY <2>1, <2>2, <2>3, <2>4 DEF TypeOK, OwnerApplied, Active
<1>6. ASSUME NEW w \in Worker, Claim(w) PROVE OwnerApplied'
  BY <1>6 DEF TypeOK, OwnerApplied, DistinctClaims, Active, Claim
<1>7. ASSUME NEW w \in Worker, Contended(w) PROVE OwnerApplied'
  BY <1>7 DEF OwnerApplied, Active, Contended, Forget
<1>8. ASSUME NEW w \in Worker, BackgroundWork(w) PROVE OwnerApplied'
  BY <1>8 DEF OwnerApplied, Active, Inferred, BackgroundWork, Finish
<1>9. ASSUME NEW w \in Worker, TimerWork(w) PROVE OwnerApplied'
  BY <1>9 DEF OwnerApplied, Active, Inferred, TimerWork, Finish
<1>10. ASSUME NEW w \in Worker, ReadApproval(w) PROVE OwnerApplied'
  BY <1>10 DEF TypeOK, OwnerApplied, Active, Inferred, ReadApproval, Finish
<1>11. ASSUME NEW w \in Worker, ApplyPolicyEffect(w) PROVE OwnerApplied'
  BY <1>11 DEF TypeOK, OwnerApplied, WorkFitsJob, Active, Inferred,
     ApplyPolicyEffect, Finish
<1>12. ASSUME NEW w \in Worker, ScanWork(w) PROVE OwnerApplied'
  <2>1. /\ UNCHANGED <<token, claims, appliedBy, job, held>>
        /\ \A v \in Worker \ {w} : pc'[v] = pc[v] /\ outcome'[v] = outcome[v]
    BY <1>12 DEF TypeOK, ScanWork, Finish
  <2>2. ~Inferred(job[w])
    BY <1>12 DEF ScanWork, Inferred
  <2> QED
    BY <2>1, <2>2 DEF OwnerApplied, Active
<1>13. ASSUME NEW w \in Worker, EnqueueParse(w) PROVE OwnerApplied'
  BY <1>13 DEF OwnerApplied, WorkFitsJob, Active, Inferred, EnqueueParse
<1>14. ASSUME NEW w \in Worker, ParsePrecheck(w) PROVE OwnerApplied'
  BY <1>14 DEF TypeOK, OwnerApplied, Active, Inferred, ParsePrecheck, Finish
<1>15. ASSUME NEW w \in Worker, Respond(w) PROVE OwnerApplied'
  BY <1>15 DEF OwnerApplied, Active, Respond
<1>16. ASSUME NEW w \in Worker, InferenceError(w) PROVE OwnerApplied'
  BY <1>16 DEF OwnerApplied, Active, InferenceError, Fail
<1>17. ASSUME NEW w \in Worker, ApplyResult(w) PROVE OwnerApplied'
  <2> DEFINE j == job[w]
  <2>1. /\ UNCHANGED <<token, claims, job, held>>
        /\ pc'[w] = "settle" /\ outcome'[w] = "completed"
        /\ \A v \in Worker \ {w} : pc'[v] = pc[v] /\ outcome'[v] = outcome[v]
    BY <1>17 DEF TypeOK, ApplyResult
  <2>2. /\ appliedBy'[j] = held[w]
        /\ \A k \in Job \ {j} : appliedBy'[k] = appliedBy[k]
    BY <1>17 DEF TypeOK, ApplyResult, HandleAiTaskResult
  <2>3. Active(w) /\ token[j] = held[w] /\ held[w] \in 1..claims[j]
    BY <1>17 DEF ApplyResult, Owns, Active, DistinctClaims
  <2>4. \A v \in Worker \ {w} : Active(v) /\ job[v] = j => held[v] # token[j]
    BY <2>3 DEF DistinctClaims
  <2> QED
    BY <2>1, <2>2, <2>3, <2>4 DEF TypeOK, OwnerApplied, Active
<1>18. ASSUME NEW w \in Worker, ApplyError(w) PROVE OwnerApplied'
  BY <1>18 DEF OwnerApplied, Active, ApplyError, Fail
<1>19. ASSUME NEW w \in Worker, RecordFailure(w) PROVE OwnerApplied'
  BY <1>19 DEF OwnerApplied, WorkFitsJob, Active, RecordFailure
<1>20. ASSUME NEW w \in Worker, Settle(w) PROVE OwnerApplied'
  BY <1>20 DEF TypeOK, OwnerApplied, DistinctClaims, Active, Settle, SettleRow,
     Forget
<1>21. ASSUME NEW w \in Worker, Crash(w) PROVE OwnerApplied'
  BY <1>21 DEF TypeOK, OwnerApplied, Active, Crash, Forget
<1>22. ASSUME NEW j \in Job, OwnerReads(j) PROVE OwnerApplied'
  BY <1>22 DEF OwnerApplied, Active, OwnerReads
<1>23. ASSUME NEW j \in Job, OwnerWrites(j) PROVE OwnerApplied'
  BY <1>23 DEF OwnerApplied, DistinctClaims, Active, OwnerWrites
<1>24. ASSUME NEW j \in Job, OwnerCancelsApproval(j) PROVE OwnerApplied'
  BY <1>24 DEF OwnerApplied, Active, OwnerCancelsApproval
<1>25. ASSUME NEW j \in Job, OwnerScans(j) PROVE OwnerApplied'
  BY <1>25 DEF OwnerApplied, Active, OwnerScans
<1>26. CASE SetEmergencyStop
  BY <1>26 DEF OwnerApplied, Active, SetEmergencyStop
<1>27. CASE ConfigureBackgroundWorker
  BY <1>27 DEF OwnerApplied, Active, ConfigureBackgroundWorker
<1>28. CASE Tick
  BY <1>28 DEF OwnerApplied, Active, Tick
<1>29. CASE UNCHANGED vars
  BY <1>29 DEF OwnerApplied, Active, vars
<1> QED
  BY <1>1, <1>2, <1>3, <1>4, <1>5, <1>6, <1>7, <1>8, <1>9, <1>10, <1>11,
     <1>12, <1>13, <1>14, <1>15, <1>16, <1>17, <1>18, <1>19, <1>20, <1>21,
     <1>22, <1>23, <1>24, <1>25, <1>26, <1>27, <1>28, <1>29
  DEF Next, WorkerStep, SourceStep, OwnerStep, ManagedPoll, StandalonePoll,
      RunNext, ReadWorkspace

\* Every step keeps a completed row's last applied result that of the claim
\* that completed it.
LEMMA CompletedNext ==
  ASSUME TypeOK, LockDiscipline, DistinctClaims, OwnerApplied,
         CompletedMeansApplied, [Next]_vars
  PROVE  CompletedMeansApplied'
<1> USE DEF rowVars, ghostVars, effectVars, settingVars, workerVars
<1>1. ASSUME NEW j \in Job, Enqueue(j) PROVE CompletedMeansApplied'
  BY <1>1 DEF CompletedMeansApplied, Enqueue
<1>2. ASSUME NEW j \in Job, Reschedule(j) PROVE CompletedMeansApplied'
  BY <1>2 DEF CompletedMeansApplied, Reschedule
<1>3. ASSUME NEW j \in Job, CancelTimer(j) PROVE CompletedMeansApplied'
  BY <1>3 DEF CompletedMeansApplied, CancelTimer
<1>4. ASSUME NEW w \in Worker, StartPoll(w) PROVE CompletedMeansApplied'
  BY <1>4 DEF CompletedMeansApplied, StartPoll
<1>5. ASSUME NEW w \in Worker, SelectJob(w) PROVE CompletedMeansApplied'
  BY <1>5 DEF CompletedMeansApplied, SelectJob, ExpireLeases
<1>6. ASSUME NEW w \in Worker, Claim(w) PROVE CompletedMeansApplied'
  BY <1>6 DEF TypeOK, CompletedMeansApplied, Claim
<1>7. ASSUME NEW w \in Worker, Contended(w) PROVE CompletedMeansApplied'
  BY <1>7 DEF CompletedMeansApplied, Contended
<1>8. ASSUME NEW w \in Worker, BackgroundWork(w) PROVE CompletedMeansApplied'
  BY <1>8 DEF CompletedMeansApplied, BackgroundWork, Finish
<1>9. ASSUME NEW w \in Worker, TimerWork(w) PROVE CompletedMeansApplied'
  BY <1>9 DEF CompletedMeansApplied, TimerWork, Finish
<1>10. ASSUME NEW w \in Worker, ReadApproval(w) PROVE CompletedMeansApplied'
  BY <1>10 DEF CompletedMeansApplied, ReadApproval, Finish
<1>11. ASSUME NEW w \in Worker, ApplyPolicyEffect(w)
       PROVE  CompletedMeansApplied'
  BY <1>11 DEF CompletedMeansApplied, ApplyPolicyEffect, Finish
<1>12. ASSUME NEW w \in Worker, ScanWork(w) PROVE CompletedMeansApplied'
  BY <1>12 DEF CompletedMeansApplied, ScanWork, Finish
<1>13. ASSUME NEW w \in Worker, EnqueueParse(w) PROVE CompletedMeansApplied'
  BY <1>13 DEF CompletedMeansApplied, EnqueueParse
<1>14. ASSUME NEW w \in Worker, ParsePrecheck(w) PROVE CompletedMeansApplied'
  BY <1>14 DEF CompletedMeansApplied, ParsePrecheck, Finish
<1>15. ASSUME NEW w \in Worker, Respond(w) PROVE CompletedMeansApplied'
  BY <1>15 DEF CompletedMeansApplied, Respond
<1>16. ASSUME NEW w \in Worker, InferenceError(w) PROVE CompletedMeansApplied'
  BY <1>16 DEF CompletedMeansApplied, InferenceError
<1>17. ASSUME NEW w \in Worker, ApplyResult(w) PROVE CompletedMeansApplied'
  BY <1>17 DEF CompletedMeansApplied, ApplyResult, HandleAiTaskResult, Owns
<1>18. ASSUME NEW w \in Worker, ApplyError(w) PROVE CompletedMeansApplied'
  BY <1>18 DEF CompletedMeansApplied, ApplyError
<1>19. ASSUME NEW w \in Worker, RecordFailure(w) PROVE CompletedMeansApplied'
  BY <1>19 DEF CompletedMeansApplied, RecordFailure
<1>20. ASSUME NEW w \in Worker, Settle(w) PROVE CompletedMeansApplied'
  BY SMTT(30), <1>20 DEF TypeOK, LockDiscipline, DistinctClaims, OwnerApplied,
     CompletedMeansApplied, Active, Inferred, Settle, SettleRow, SettledStatus,
     Fenced, Forget
<1>21. ASSUME NEW w \in Worker, Crash(w) PROVE CompletedMeansApplied'
  BY <1>21 DEF CompletedMeansApplied, Crash
<1>22. ASSUME NEW j \in Job, OwnerReads(j) PROVE CompletedMeansApplied'
  BY <1>22 DEF CompletedMeansApplied, OwnerReads
<1>23. ASSUME NEW j \in Job, OwnerWrites(j) PROVE CompletedMeansApplied'
  BY <1>23 DEF TypeOK, CompletedMeansApplied, OwnerWrites
<1>24. ASSUME NEW j \in Job, OwnerCancelsApproval(j)
       PROVE  CompletedMeansApplied'
  BY <1>24 DEF CompletedMeansApplied, OwnerCancelsApproval
<1>25. ASSUME NEW j \in Job, OwnerScans(j) PROVE CompletedMeansApplied'
  BY <1>25 DEF CompletedMeansApplied, OwnerScans
<1>26. CASE SetEmergencyStop
  BY <1>26 DEF CompletedMeansApplied, SetEmergencyStop
<1>27. CASE ConfigureBackgroundWorker
  BY <1>27 DEF CompletedMeansApplied, ConfigureBackgroundWorker
<1>28. CASE Tick
  BY <1>28 DEF CompletedMeansApplied, Tick
<1>29. CASE UNCHANGED vars
  BY <1>29 DEF CompletedMeansApplied, vars
<1> QED
  BY <1>1, <1>2, <1>3, <1>4, <1>5, <1>6, <1>7, <1>8, <1>9, <1>10, <1>11,
     <1>12, <1>13, <1>14, <1>15, <1>16, <1>17, <1>18, <1>19, <1>20, <1>21,
     <1>22, <1>23, <1>24, <1>25, <1>26, <1>27, <1>28, <1>29
  DEF Next, WorkerStep, SourceStep, OwnerStep, ManagedPoll, StandalonePoll,
      RunNext, ReadWorkspace

\* Every step keeps a flagged document's parse blocked.
LEMMA FlaggedNext ==
  ASSUME TypeOK, FlaggedIsBlocked, [Next]_vars
  PROVE  FlaggedIsBlocked'
<1> USE DEF rowVars, ghostVars, effectVars, settingVars, workerVars
<1>1. ASSUME NEW j \in Job, Enqueue(j) PROVE FlaggedIsBlocked'
  BY <1>1 DEF FlaggedIsBlocked, Enqueue
<1>2. ASSUME NEW j \in Job, Reschedule(j) PROVE FlaggedIsBlocked'
  BY <1>2 DEF FlaggedIsBlocked, Reschedule
<1>3. ASSUME NEW j \in Job, CancelTimer(j) PROVE FlaggedIsBlocked'
  BY <1>3 DEF FlaggedIsBlocked, CancelTimer
<1>4. ASSUME NEW w \in Worker, StartPoll(w) PROVE FlaggedIsBlocked'
  BY <1>4 DEF FlaggedIsBlocked, StartPoll
<1>5. ASSUME NEW w \in Worker, SelectJob(w) PROVE FlaggedIsBlocked'
  BY <1>5 DEF FlaggedIsBlocked, SelectJob
<1>6. ASSUME NEW w \in Worker, Claim(w) PROVE FlaggedIsBlocked'
  BY <1>6 DEF FlaggedIsBlocked, Claim
<1>7. ASSUME NEW w \in Worker, Contended(w) PROVE FlaggedIsBlocked'
  BY <1>7 DEF FlaggedIsBlocked, Contended
<1>8. ASSUME NEW w \in Worker, BackgroundWork(w) PROVE FlaggedIsBlocked'
  BY <1>8 DEF FlaggedIsBlocked, BackgroundWork
<1>9. ASSUME NEW w \in Worker, TimerWork(w) PROVE FlaggedIsBlocked'
  BY <1>9 DEF FlaggedIsBlocked, TimerWork
<1>10. ASSUME NEW w \in Worker, ReadApproval(w) PROVE FlaggedIsBlocked'
  BY <1>10 DEF FlaggedIsBlocked, ReadApproval
<1>11. ASSUME NEW w \in Worker, ApplyPolicyEffect(w) PROVE FlaggedIsBlocked'
  BY <1>11 DEF FlaggedIsBlocked, ApplyPolicyEffect
<1>12. ASSUME NEW w \in Worker, ScanWork(w) PROVE FlaggedIsBlocked'
  BY <1>12 DEF TypeOK, FlaggedIsBlocked, ScanWork, ScanVerdict
<1>13. ASSUME NEW w \in Worker, EnqueueParse(w) PROVE FlaggedIsBlocked'
  BY <1>13 DEF FlaggedIsBlocked, EnqueueParse
<1>14. ASSUME NEW w \in Worker, ParsePrecheck(w) PROVE FlaggedIsBlocked'
  BY <1>14 DEF FlaggedIsBlocked, ParsePrecheck
<1>15. ASSUME NEW w \in Worker, Respond(w) PROVE FlaggedIsBlocked'
  BY <1>15 DEF FlaggedIsBlocked, Respond
<1>16. ASSUME NEW w \in Worker, InferenceError(w) PROVE FlaggedIsBlocked'
  BY <1>16 DEF FlaggedIsBlocked, InferenceError
<1>17. ASSUME NEW w \in Worker, ApplyResult(w) PROVE FlaggedIsBlocked'
  BY <1>17 DEF FlaggedIsBlocked, ApplyResult, HandleAiTaskResult
<1>18. ASSUME NEW w \in Worker, ApplyError(w) PROVE FlaggedIsBlocked'
  BY <1>18 DEF FlaggedIsBlocked, ApplyError
<1>19. ASSUME NEW w \in Worker, RecordFailure(w) PROVE FlaggedIsBlocked'
  BY <1>19 DEF TypeOK, FlaggedIsBlocked, RecordFailure, MayMarkFailed
<1>20. ASSUME NEW w \in Worker, Settle(w) PROVE FlaggedIsBlocked'
  BY <1>20 DEF FlaggedIsBlocked, Settle
<1>21. ASSUME NEW w \in Worker, Crash(w) PROVE FlaggedIsBlocked'
  BY <1>21 DEF FlaggedIsBlocked, Crash
<1>22. ASSUME NEW j \in Job, OwnerReads(j) PROVE FlaggedIsBlocked'
  BY <1>22 DEF FlaggedIsBlocked, OwnerReads
<1>23. ASSUME NEW j \in Job, OwnerWrites(j) PROVE FlaggedIsBlocked'
  BY <1>23 DEF FlaggedIsBlocked, OwnerWrites
<1>24. ASSUME NEW j \in Job, OwnerCancelsApproval(j) PROVE FlaggedIsBlocked'
  BY <1>24 DEF FlaggedIsBlocked, OwnerCancelsApproval
<1>25. ASSUME NEW j \in Job, OwnerScans(j) PROVE FlaggedIsBlocked'
  BY <1>25 DEF TypeOK, FlaggedIsBlocked, OwnerScans, ScanVerdict
<1>26. CASE SetEmergencyStop
  BY <1>26 DEF FlaggedIsBlocked, SetEmergencyStop
<1>27. CASE ConfigureBackgroundWorker
  BY <1>27 DEF FlaggedIsBlocked, ConfigureBackgroundWorker
<1>28. CASE Tick
  BY <1>28 DEF FlaggedIsBlocked, Tick
<1>29. CASE UNCHANGED vars
  BY <1>29 DEF FlaggedIsBlocked, vars
<1> QED
  BY <1>1, <1>2, <1>3, <1>4, <1>5, <1>6, <1>7, <1>8, <1>9, <1>10, <1>11,
     <1>12, <1>13, <1>14, <1>15, <1>16, <1>17, <1>18, <1>19, <1>20, <1>21,
     <1>22, <1>23, <1>24, <1>25, <1>26, <1>27, <1>28, <1>29
  DEF Next, WorkerStep, SourceStep, OwnerStep, ManagedPoll, StandalonePoll,
      RunNext, ReadWorkspace

\* Every step keeps the count of claims made after a stop at one per process
\* at most.
LEMMA StopNext ==
  ASSUME TypeOK, StopSeen, StopHaltsWorkers, [Next]_vars
  PROVE  StopSeen' /\ StopHaltsWorkers'
<1> USE DEF rowVars, ghostVars, effectVars, settingVars, workerVars
<1>1. ASSUME NEW j \in Job, Enqueue(j) PROVE StopSeen' /\ StopHaltsWorkers'
  BY <1>1 DEF StopSeen, StopHaltsWorkers, Enqueue
<1>2. ASSUME NEW j \in Job, Reschedule(j) PROVE StopSeen' /\ StopHaltsWorkers'
  BY <1>2 DEF StopSeen, StopHaltsWorkers, Reschedule
<1>3. ASSUME NEW j \in Job, CancelTimer(j) PROVE StopSeen' /\ StopHaltsWorkers'
  BY <1>3 DEF StopSeen, StopHaltsWorkers, CancelTimer
<1>4. ASSUME NEW w \in Worker, ReadWorkspace(w)
      PROVE  StopSeen' /\ StopHaltsWorkers'
  BY <1>4 DEF StopSeen, StopHaltsWorkers, ReadWorkspace, StartPoll
<1>5. ASSUME NEW w \in Worker, SelectJob(w)
      PROVE  StopSeen' /\ StopHaltsWorkers'
  BY <1>5 DEF TypeOK, StopSeen, StopHaltsWorkers, SelectJob, Forget
<1>6. ASSUME NEW w \in Worker, Claim(w) PROVE StopSeen' /\ StopHaltsWorkers'
  BY <1>6 DEF TypeOK, StopSeen, StopHaltsWorkers, Claim
<1>7. ASSUME NEW w \in Worker, Contended(w)
      PROVE  StopSeen' /\ StopHaltsWorkers'
  BY <1>7 DEF StopSeen, StopHaltsWorkers, Contended, Forget
<1>8. ASSUME NEW w \in Worker, BackgroundWork(w)
      PROVE  StopSeen' /\ StopHaltsWorkers'
  BY <1>8 DEF StopSeen, StopHaltsWorkers, BackgroundWork, Finish
<1>9. ASSUME NEW w \in Worker, TimerWork(w)
      PROVE  StopSeen' /\ StopHaltsWorkers'
  BY <1>9 DEF StopSeen, StopHaltsWorkers, TimerWork, Finish
<1>10. ASSUME NEW w \in Worker, ReadApproval(w)
       PROVE  StopSeen' /\ StopHaltsWorkers'
  BY <1>10 DEF TypeOK, StopSeen, StopHaltsWorkers, ReadApproval, Finish
<1>11. ASSUME NEW w \in Worker, ApplyPolicyEffect(w)
       PROVE  StopSeen' /\ StopHaltsWorkers'
  BY <1>11 DEF TypeOK, StopSeen, StopHaltsWorkers, ApplyPolicyEffect, Finish
<1>12. ASSUME NEW w \in Worker, ScanWork(w)
       PROVE  StopSeen' /\ StopHaltsWorkers'
  BY <1>12 DEF TypeOK, StopSeen, StopHaltsWorkers, ScanWork, Finish
<1>13. ASSUME NEW w \in Worker, EnqueueParse(w)
       PROVE  StopSeen' /\ StopHaltsWorkers'
  BY <1>13 DEF StopSeen, StopHaltsWorkers, EnqueueParse
<1>14. ASSUME NEW w \in Worker, ParsePrecheck(w)
       PROVE  StopSeen' /\ StopHaltsWorkers'
  BY <1>14 DEF TypeOK, StopSeen, StopHaltsWorkers, ParsePrecheck, Finish
<1>15. ASSUME NEW w \in Worker, Respond(w) PROVE StopSeen' /\ StopHaltsWorkers'
  BY <1>15 DEF StopSeen, StopHaltsWorkers, Respond
<1>16. ASSUME NEW w \in Worker, InferenceError(w)
       PROVE  StopSeen' /\ StopHaltsWorkers'
  BY <1>16 DEF StopSeen, StopHaltsWorkers, InferenceError, Fail
<1>17. ASSUME NEW w \in Worker, ApplyResult(w)
       PROVE  StopSeen' /\ StopHaltsWorkers'
  BY <1>17 DEF StopSeen, StopHaltsWorkers, ApplyResult
<1>18. ASSUME NEW w \in Worker, ApplyError(w)
       PROVE  StopSeen' /\ StopHaltsWorkers'
  BY <1>18 DEF StopSeen, StopHaltsWorkers, ApplyError, Fail
<1>19. ASSUME NEW w \in Worker, RecordFailure(w)
       PROVE  StopSeen' /\ StopHaltsWorkers'
  BY <1>19 DEF StopSeen, StopHaltsWorkers, RecordFailure
<1>20. ASSUME NEW w \in Worker, Settle(w) PROVE StopSeen' /\ StopHaltsWorkers'
  BY <1>20 DEF StopSeen, StopHaltsWorkers, Settle, Forget
<1>21. ASSUME NEW w \in Worker, Crash(w) PROVE StopSeen' /\ StopHaltsWorkers'
  BY <1>21 DEF StopSeen, StopHaltsWorkers, Crash, Forget
<1>22. ASSUME NEW j \in Job, OwnerReads(j) PROVE StopSeen' /\ StopHaltsWorkers'
  BY <1>22 DEF StopSeen, StopHaltsWorkers, OwnerReads
<1>23. ASSUME NEW j \in Job, OwnerWrites(j)
       PROVE  StopSeen' /\ StopHaltsWorkers'
  BY <1>23 DEF StopSeen, StopHaltsWorkers, OwnerWrites
<1>24. ASSUME NEW j \in Job, OwnerCancelsApproval(j)
       PROVE  StopSeen' /\ StopHaltsWorkers'
  BY <1>24 DEF StopSeen, StopHaltsWorkers, OwnerCancelsApproval
<1>25. ASSUME NEW j \in Job, OwnerScans(j) PROVE StopSeen' /\ StopHaltsWorkers'
  BY <1>25 DEF StopSeen, StopHaltsWorkers, OwnerScans
<1>26. CASE SetEmergencyStop
  BY <1>26 DEF StopSeen, StopHaltsWorkers, SetEmergencyStop
<1>27. CASE ConfigureBackgroundWorker
  BY <1>27 DEF StopSeen, StopHaltsWorkers, ConfigureBackgroundWorker
<1>28. CASE Tick
  BY <1>28 DEF StopSeen, StopHaltsWorkers, Tick
<1>29. CASE UNCHANGED vars
  BY <1>29 DEF StopSeen, StopHaltsWorkers, vars
<1> QED
  BY <1>1, <1>2, <1>3, <1>4, <1>5, <1>6, <1>7, <1>8, <1>9, <1>10, <1>11,
     <1>12, <1>13, <1>14, <1>15, <1>16, <1>17, <1>18, <1>19, <1>20, <1>21,
     <1>22, <1>23, <1>24, <1>25, <1>26, <1>27, <1>28, <1>29
  DEF Next, WorkerStep, SourceStep, OwnerStep, ManagedPoll, StandalonePoll,
      RunNext

\* Every step keeps the attempts counted, and remembered, within the limit.
LEMMA AttemptsNext ==
  ASSUME TypeOK, LockDiscipline, DistinctClaims, AttemptsKnown,
         AttemptsBounded, [Next]_vars
  PROVE  AttemptsKnown' /\ AttemptsBounded'
<1> USE DEF rowVars, ghostVars, effectVars, settingVars, workerVars
<1>0. ASSUME NEW w \in Worker, Active(w), Active(w)',
             UNCHANGED <<status, attempts, token, requeues, job, held, tries>>,
             \A v \in Worker \ {w} : pc'[v] = pc[v] /\ outcome'[v] = outcome[v],
             pc'[w] \in {"failing", "settle"} /\ outcome'[w] = "retryable_failed"
               => tries[w] + 1 < MaxAttempts
      PROVE  AttemptsKnown' /\ AttemptsBounded'
  BY <1>0 DEF AttemptsKnown, AttemptsBounded, Active
<1>1. ASSUME NEW j \in Job, Enqueue(j) PROVE AttemptsKnown' /\ AttemptsBounded'
  BY <1>1, BoundAssumption DEF TypeOK, AttemptsKnown, AttemptsBounded, Active,
     Enqueue
<1>2. ASSUME NEW j \in Job, Reschedule(j)
      PROVE  AttemptsKnown' /\ AttemptsBounded'
  BY <1>2, BoundAssumption DEF TypeOK, DistinctClaims, AttemptsKnown,
     AttemptsBounded, Active, Reschedule
<1>3. ASSUME NEW j \in Job, CancelTimer(j)
      PROVE  AttemptsKnown' /\ AttemptsBounded'
  BY <1>3 DEF DistinctClaims, AttemptsKnown, AttemptsBounded, Active,
     ReadyStatus, CancelTimer
<1>4. ASSUME NEW w \in Worker, StartPoll(w)
      PROVE  AttemptsKnown' /\ AttemptsBounded'
  BY <1>4 DEF AttemptsKnown, AttemptsBounded, Active, StartPoll
<1>5. ASSUME NEW w \in Worker, SelectJob(w)
      PROVE  AttemptsKnown' /\ AttemptsBounded'
  <2>1. /\ UNCHANGED <<attempts, requeues>>
        /\ \A j \in Job : \/ status'[j] = status[j] /\ token'[j] = token[j]
                          \/ status'[j] = "blocked" /\ token'[j] = 0
    BY <1>5 DEF SelectJob, ExpireLeases
  <2>0. \A v \in Worker \ {w} :
             /\ pc'[v] = pc[v] /\ job'[v] = job[v] /\ held'[v] = held[v]
             /\ tries'[v] = tries[v] /\ outcome'[v] = outcome[v]
    BY <1>5 DEF TypeOK, SelectJob, Forget
  <2>2. \/ pc'[w] = "idle"
        \/ pc'[w] = "selected" /\ job'[w] \in Due /\ tries'[w] = attempts[job'[w]]
    BY <1>5 DEF TypeOK, SelectJob, Forget, Choices, Permitted, First
  <2>3. \A v \in Worker : Active(v) => held[v] # 0
    BY DEF DistinctClaims
  <2>4. AttemptsBounded'
    BY <2>1 DEF AttemptsBounded, ReadyStatus
  <2>5. \A j \in Job : status'[j] = "absent" => attempts'[j] = 0
    BY <2>1 DEF AttemptsKnown
  <2>6. \A v \in Worker : pc'[v] \notin {"idle", "polled"}
           => tries'[v] < MaxAttempts + requeues'[job'[v]]
    BY <2>1, <2>0, <2>2 DEF AttemptsKnown, AttemptsBounded, Due
  <2> QED
    BY <2>1, <2>0, <2>2, <2>3, <2>4, <2>5, <2>6
      DEF TypeOK, AttemptsKnown, Active
<1>6. ASSUME NEW w \in Worker, Claim(w)
      PROVE  AttemptsKnown' /\ AttemptsBounded'
  <2> DEFINE j == job[w]
  <2>1. /\ UNCHANGED <<requeues, job, tries, outcome>>
        /\ status'[j] = "running" /\ attempts'[j] = tries[w] + 1
        /\ token'[j] = claims[j] + 1 /\ held'[w] = claims[j] + 1
        /\ \A k \in Job \ {j} : /\ status'[k] = status[k]
                                /\ attempts'[k] = attempts[k]
                                /\ token'[k] = token[k]
    BY <1>6 DEF TypeOK, Claim
  <2>2. /\ pc[w] = "selected" /\ pc'[w] \in {"inferring", "working"}
        /\ \A v \in Worker \ {w} : pc'[v] = pc[v] /\ held'[v] = held[v]
    BY <1>6 DEF TypeOK, Claim
  <2>3. \A v \in Worker \ {w} : Active(v) /\ job[v] = j => held[v] # claims[j] + 1
    BY DEF DistinctClaims, TypeOK
  <2>4. tries[w] < MaxAttempts + requeues[j]
    BY <2>2 DEF AttemptsKnown
  <2>5. AttemptsBounded'
    BY <2>1, <2>4, BoundAssumption DEF TypeOK, AttemptsBounded, ReadyStatus
  <2>6. AttemptsKnown'
    BY <2>1, <2>2, <2>3, <2>4 DEF TypeOK, AttemptsKnown, Active
  <2> QED
    BY <2>5, <2>6
<1>7. ASSUME NEW w \in Worker, Contended(w)
      PROVE  AttemptsKnown' /\ AttemptsBounded'
  BY <1>7 DEF TypeOK, AttemptsKnown, AttemptsBounded, Active, Contended, Forget
<1>8. ASSUME NEW w \in Worker, BackgroundWork(w)
      PROVE  AttemptsKnown' /\ AttemptsBounded'
  BY <1>8, <1>0 DEF TypeOK, Active, BackgroundWork, Finish, MayDefer, CanRetry
<1>9. ASSUME NEW w \in Worker, TimerWork(w)
      PROVE  AttemptsKnown' /\ AttemptsBounded'
  BY <1>9, <1>0 DEF TypeOK, Active, TimerWork, Finish, MayDefer
<1>10. ASSUME NEW w \in Worker, ReadApproval(w)
       PROVE  AttemptsKnown' /\ AttemptsBounded'
  BY <1>10, <1>0 DEF TypeOK, Active, ReadApproval, Finish
<1>11. ASSUME NEW w \in Worker, ApplyPolicyEffect(w)
       PROVE  AttemptsKnown' /\ AttemptsBounded'
  BY <1>11, <1>0 DEF TypeOK, Active, ApplyPolicyEffect, Finish, Failure,
     CanRetry
<1>12. ASSUME NEW w \in Worker, ScanWork(w)
       PROVE  AttemptsKnown' /\ AttemptsBounded'
  BY <1>12, <1>0 DEF TypeOK, Active, ScanWork, Finish, Failure, CanRetry
<1>13. ASSUME NEW w \in Worker, EnqueueParse(w)
       PROVE  AttemptsKnown' /\ AttemptsBounded'
  BY <1>13, BoundAssumption DEF TypeOK, AttemptsKnown, AttemptsBounded, Active,
     EnqueueParse
<1>14. ASSUME NEW w \in Worker, ParsePrecheck(w)
       PROVE  AttemptsKnown' /\ AttemptsBounded'
  BY <1>14, <1>0 DEF TypeOK, Active, ParsePrecheck, Finish
<1>15. ASSUME NEW w \in Worker, Respond(w)
       PROVE  AttemptsKnown' /\ AttemptsBounded'
  BY <1>15, <1>0 DEF Active, Respond
<1>16. ASSUME NEW w \in Worker, InferenceError(w)
       PROVE  AttemptsKnown' /\ AttemptsBounded'
  BY <1>16, <1>0 DEF TypeOK, Active, InferenceError, Fail, Failure, CanRetry
<1>17. ASSUME NEW w \in Worker, ApplyResult(w)
       PROVE  AttemptsKnown' /\ AttemptsBounded'
  BY <1>17, <1>0 DEF TypeOK, Active, ApplyResult
<1>18. ASSUME NEW w \in Worker, ApplyError(w)
       PROVE  AttemptsKnown' /\ AttemptsBounded'
  BY <1>18, <1>0 DEF TypeOK, Active, ApplyError, Fail, Failure, CanRetry
<1>19. ASSUME NEW w \in Worker, RecordFailure(w)
       PROVE  AttemptsKnown' /\ AttemptsBounded'
  BY <1>19, <1>0 DEF Active, AttemptsKnown, RecordFailure
<1>20. ASSUME NEW w \in Worker, Settle(w)
       PROVE  AttemptsKnown' /\ AttemptsBounded'
  <2> DEFINE j == job[w]
  <2>1. /\ pc[w] = "settle" /\ pc'[w] = "idle"
        /\ \A v \in Worker \ {w} :
             /\ pc'[v] = pc[v] /\ job'[v] = job[v] /\ held'[v] = held[v]
             /\ tries'[v] = tries[v] /\ outcome'[v] = outcome[v]
    BY <1>20 DEF TypeOK, Settle, Forget
  <2>2. CASE ~Fenced(w) /\ UNCHANGED <<rowVars, requeues>>
    BY <2>1, <2>2 DEF AttemptsKnown, AttemptsBounded, Active
  <2>3. CASE Fenced(w) /\ SettleRow(w)
    <3>1. /\ status'[j] = SettledStatus(outcome[w]) /\ token'[j] = 0
          /\ attempts'[j] = IF outcome[w] = "deferred" THEN tries[w] ELSE attempts[j]
          /\ requeues'[j] = IF outcome[w] = "deferred" THEN requeues[j] + 1 ELSE requeues[j]
          /\ \A k \in Job \ {j} :
               /\ status'[k] = status[k] /\ attempts'[k] = attempts[k]
               /\ token'[k] = token[k] /\ requeues'[k] = requeues[k]
      BY <2>3 DEF TypeOK, SettleRow
    <3>2. /\ attempts[j] = tries[w] + 1
          /\ tries[w] < MaxAttempts + requeues[j]
          /\ outcome[w] = "retryable_failed" => tries[w] + 1 < MaxAttempts
      BY <2>1, <2>3 DEF AttemptsKnown, Active, Fenced
    <3>3. /\ SettledStatus(outcome[w]) # "absent"
          /\ SettledStatus(outcome[w]) \in ReadyStatus
               => outcome[w] \in {"deferred", "retryable_failed"}
      BY DEF TypeOK, SettledStatus, Outcome, ReadyStatus
    <3>4. AttemptsBounded'
      BY <3>1, <3>2, <3>3, BoundAssumption DEF TypeOK, AttemptsBounded
    <3>5. \A v \in Worker : Active(v) => held[v] # 0
      BY DEF DistinctClaims
    <3>6. AttemptsKnown'
      BY SMTT(30), <2>1, <3>1, <3>3, <3>5, BoundAssumption
        DEF TypeOK, AttemptsKnown, Active
    <3> QED
      BY <3>4, <3>6
  <2> QED
    BY <1>20, <2>2, <2>3 DEF Settle
<1>21. ASSUME NEW w \in Worker, Crash(w)
       PROVE  AttemptsKnown' /\ AttemptsBounded'
  BY <1>21 DEF TypeOK, AttemptsKnown, AttemptsBounded, Active, Crash, Forget
<1>22. ASSUME NEW j \in Job, OwnerReads(j)
       PROVE  AttemptsKnown' /\ AttemptsBounded'
  BY <1>22 DEF AttemptsKnown, AttemptsBounded, Active, OwnerReads
<1>23. ASSUME NEW j \in Job, OwnerWrites(j)
       PROVE  AttemptsKnown' /\ AttemptsBounded'
  BY <1>23, BoundAssumption DEF TypeOK, DistinctClaims, AttemptsKnown,
     AttemptsBounded, Active, OwnerWrites
<1>24. ASSUME NEW j \in Job, OwnerCancelsApproval(j)
       PROVE  AttemptsKnown' /\ AttemptsBounded'
  BY <1>24 DEF AttemptsKnown, AttemptsBounded, Active, OwnerCancelsApproval
<1>25. ASSUME NEW j \in Job, OwnerScans(j)
       PROVE  AttemptsKnown' /\ AttemptsBounded'
  BY <1>25 DEF AttemptsKnown, AttemptsBounded, Active, OwnerScans
<1>26. CASE SetEmergencyStop
  BY <1>26 DEF AttemptsKnown, AttemptsBounded, Active, SetEmergencyStop
<1>27. CASE ConfigureBackgroundWorker
  BY <1>27 DEF AttemptsKnown, AttemptsBounded, Active,
     ConfigureBackgroundWorker
<1>28. CASE Tick
  BY <1>28 DEF AttemptsKnown, AttemptsBounded, Active, Tick
<1>29. CASE UNCHANGED vars
  BY <1>29 DEF AttemptsKnown, AttemptsBounded, Active, vars
<1> QED
  BY <1>1, <1>2, <1>3, <1>4, <1>5, <1>6, <1>7, <1>8, <1>9, <1>10, <1>11,
     <1>12, <1>13, <1>14, <1>15, <1>16, <1>17, <1>18, <1>19, <1>20, <1>21,
     <1>22, <1>23, <1>24, <1>25, <1>26, <1>27, <1>28, <1>29
  DEF Next, WorkerStep, SourceStep, OwnerStep, ManagedPoll, StandalonePoll,
      RunNext, ReadWorkspace

\* Exactly the running rows are locked, by their latest claim, so a process
\* whose lease was taken can never settle the row again.
THEOREM RowsAreLocked == Spec => []LockDiscipline
<1>1. Init => LockDiscipline
  BY DEF Init, LockDiscipline
<1>2. TypeOK /\ LockDiscipline /\ [Next]_vars => LockDiscipline'
  BY LockNext
<1> QED
  BY <1>1, <1>2, TypeCorrect, PTL DEF Spec

\* Whatever happens to a row, no two processes remember the same claim of it.
LEMMA ClaimsAreDistinct == Spec => []DistinctClaims
<1>1. Init => DistinctClaims
  BY DEF Init, DistinctClaims, Active
<1>2. TypeOK /\ DistinctClaims /\ [Next]_vars => DistinctClaims'
  BY ClaimsNext
<1> QED
  BY <1>1, <1>2, TypeCorrect, PTL DEF Spec

\* In every reachable state a process's place fits its job, and an owner's
\* result is applied exactly when it is about to complete the row.
LEMMA OwnersApply == Spec => [](WorkFitsJob /\ OwnerApplied)
<1>1. Init => WorkFitsJob /\ OwnerApplied
  BY DEF Init, WorkFitsJob, OwnerApplied, Active
<1>2. TypeOK /\ WorkFitsJob /\ [Next]_vars => WorkFitsJob'
  BY FitsNext
<1>3. /\ TypeOK /\ LockDiscipline /\ DistinctClaims /\ WorkFitsJob
      /\ OwnerApplied /\ [Next]_vars
      => OwnerApplied'
  BY OwnerAppliedNext
<1> QED
  BY <1>1, <1>2, <1>3, TypeCorrect, RowsAreLocked, ClaimsAreDistinct, PTL
    DEF Spec

\* A completed AI task had its result applied by the claim that completed it.
THEOREM CompletedWorkIsApplied == Spec => []CompletedMeansApplied
<1>1. Init => CompletedMeansApplied
  BY DEF Init, CompletedMeansApplied
<1>2. /\ TypeOK /\ LockDiscipline /\ DistinctClaims /\ OwnerApplied
      /\ CompletedMeansApplied /\ [Next]_vars
      => CompletedMeansApplied'
  BY CompletedNext
<1> QED
  BY <1>1, <1>2, TypeCorrect, RowsAreLocked, ClaimsAreDistinct, OwnersApply,
     PTL
  DEF Spec

\* A result is applied by the latest claim of a running row, once: results of
\* earlier claims never overwrite it.
THEOREM LatestResultWins == Spec => ResultsNeverRegress
<1> DEFINE Step == \A j \in Job : appliedBy'[j] # appliedBy[j]
                     => /\ appliedBy'[j] = claims[j]
                        /\ appliedBy'[j] > appliedBy[j]
                        /\ status[j] = "running"
<1>1. TypeOK /\ LockDiscipline /\ WorkFitsJob /\ OwnerApplied /\ [Next]_vars
      => [Step]_vars
  <2> SUFFICES ASSUME TypeOK, LockDiscipline, WorkFitsJob, OwnerApplied, Next
               PROVE  Step
    BY DEF vars
  <2>1. ASSUME NEW w \in Worker, ApplyResult(w) PROVE Step
    <3>1. /\ Active(w) /\ Inferred(job[w]) /\ pc[w] # "settle"
          /\ token[job[w]] = held[w] /\ status[job[w]] = "running"
          /\ appliedBy' = [appliedBy EXCEPT ![job[w]] = held[w]]
      BY <2>1 DEF ApplyResult, HandleAiTaskResult, Owns, Active, WorkFitsJob
    <3>2. held[w] = claims[job[w]] /\ appliedBy[job[w]] < held[w]
      BY <3>1 DEF TypeOK, LockDiscipline, OwnerApplied
    <3> QED
      BY <3>1, <3>2
  <2>2. CASE ~\E w \in Worker : ApplyResult(w)
    BY ZenonT(30), <2>2 DEF Next, WorkerStep, SourceStep, OwnerStep, ManagedPoll,
       StandalonePoll, RunNext, ReadWorkspace, StartPoll, SelectJob, Claim,
       Contended, BackgroundWork, TimerWork, ReadApproval, ApplyPolicyEffect,
       ScanWork, EnqueueParse, ParsePrecheck, Respond, InferenceError,
       ApplyError, RecordFailure, Settle, Finish, Crash, Enqueue, Reschedule,
       CancelTimer, OwnerReads, OwnerWrites, OwnerCancelsApproval, OwnerScans,
       SetEmergencyStop, ConfigureBackgroundWorker, Tick, ghostVars
  <2> QED
    BY <2>1, <2>2
<1> QED
  BY <1>1, TypeCorrect, RowsAreLocked, OwnersApply, PTL
    DEF Spec, ResultsNeverRegress

\* A document whose latest scan flagged it stays blocked.
THEOREM FlaggedStaysBlocked == Spec => []FlaggedIsBlocked
<1>1. Init => FlaggedIsBlocked
  BY DEF Init, FlaggedIsBlocked
<1>2. TypeOK /\ FlaggedIsBlocked /\ [Next]_vars => FlaggedIsBlocked'
  BY FlaggedNext
<1> QED
  BY <1>1, <1>2, TypeCorrect, PTL DEF Spec

\* Under the emergency stop every process starts at most one more job.
THEOREM StopTakesEffect == Spec => []StopHaltsWorkers
<1>1. Init => StopSeen /\ StopHaltsWorkers
  BY DEF Init, StopSeen, StopHaltsWorkers
<1>2. /\ TypeOK /\ StopSeen /\ StopHaltsWorkers /\ [Next]_vars
      => StopSeen' /\ StopHaltsWorkers'
  BY StopNext
<1> QED
  BY <1>1, <1>2, TypeCorrect, PTL DEF Spec

\* Failures alone never give a row more than maxAttempts on its own counter.
THEOREM AttemptsStayBounded == Spec => []AttemptsBounded
<1>1. Init => AttemptsKnown /\ AttemptsBounded
  BY BoundAssumption DEF Init, AttemptsKnown, AttemptsBounded, Active
<1>2. /\ TypeOK /\ LockDiscipline /\ DistinctClaims
      /\ AttemptsKnown /\ AttemptsBounded /\ [Next]_vars
      => AttemptsKnown' /\ AttemptsBounded'
  BY AttemptsNext
<1> QED
  BY <1>1, <1>2, TypeCorrect, RowsAreLocked, ClaimsAreDistinct, PTL DEF Spec
=============================================================================
