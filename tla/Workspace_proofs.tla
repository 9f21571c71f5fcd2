-------------------------- MODULE Workspace_proofs --------------------------
(***************************************************************************)
(* What TLAPS proves of the modules that MCWorkspace runs, which are       *)
(* PlacementPipeline, CandidatePrivacy, CalendarMirror and RankingRefresh. *)
(* For each of them: what its tables hold, the inductive invariant, a      *)
(* lemma for every group of steps that preserves it, and the theorems.     *)
(***************************************************************************)
EXTENDS PlacementPipeline, CandidatePrivacy, CalendarMirror, RankingRefresh,
        FiniteSetTheorems, SequenceTheorems, TLAPS

-----------------------------------------------------------------------------
(* The tables a screening and a placement move along.                      *)

ScreeningStatus ==
  {"not_started", "in_progress", "evidence_pending", "ready_for_owner_decision",
   "decision_pending", "owner_decided", "closed"}
PlacementStatus ==
  {"offer_pending", "offer_issued", "offer_accepted", "joining_pending",
   "joining_confirmed", "invoice_eligible", "guarantee_active", "replacement_requested",
   "replacement_in_progress", "replacement_closed", "guarantee_ended", "closed"}

\* The two tables have exactly the statuses of screenings and placements for keys.
LEMMA PipelineStates ==
  DOMAIN ScreeningFlow = ScreeningStatus /\ DOMAIN PlacementFlow = PlacementStatus
BY DEF ScreeningFlow, PlacementFlow, ScreeningStatus, PlacementStatus

\* Whoever counts as joined was, or has just been confirmed.
LEMMA JoinedFollows ==
  ASSUME NEW from \in PlacementStatus, NEW to \in Joined \ {"joining_confirmed"},
         MayMove(PlacementFlow, from, to)
  PROVE  from \in Joined
BY DEF MayMove, PlacementFlow, PlacementStatus, Joined

\* What a clerk is at, and what it is about to write or ask.
BenchRow ==
  [step : {NoOne, "screening", "insertDecision", "fileDecision", "ask", "place",
           "move", "close", "forget"},
   aim : {"none"} \cup ScreeningStatus \cup PlacementStatus \cup Kind]
AimFits(entry) ==
  /\ entry.step = "screening" => entry.aim \in ScreeningStatus
  /\ entry.step \in {"insertDecision", "fileDecision"} => entry.aim \in Disposition
  /\ entry.step = "ask" => entry.aim \in Kind
  /\ entry.step = "move" => entry.aim \in PlacementStatus \ {"joining_confirmed"}

\* A stale move may be one of somebody who joined; then the owner confirmed it once,
\* and from that day on the dates of the guarantee are there.
Confirmed == "confirmation" \in granted
MovesWereConfirmed ==
  \A c \in Clerk : bench[c].step = "move" /\ bench[c].aim \in Joined => Confirmed
DatesAreSet ==
  Confirmed => /\ startAt \in 0..LastDay /\ startAt <= today
               /\ endAt = startAt + GuaranteeDays

PipelineInv ==
  /\ PipelineTypeOK
  /\ bench \in [Clerk -> BenchRow] /\ \A c \in Clerk : AimFits(bench[c])
  /\ MovesWereConfirmed /\ DatesAreSet
  /\ placement \in Joined => Confirmed

\* The invariant of the pipeline holds initially.
LEMMA PipelineInvInit == PipelineInit => PipelineInv
<1> SUFFICES ASSUME PipelineInit PROVE PipelineInv
  OBVIOUS
<1> USE PipelineAssumption
<1>1. PipelineTypeOK
  BY DEF PipelineInit, PipelineTypeOK, Free, Never
<1>2. bench \in [Clerk -> BenchRow] /\ \A c \in Clerk : AimFits(bench[c])
  BY DEF PipelineInit, Free, BenchRow, AimFits, NoOne
<1> QED
  BY <1>1, <1>2 DEF PipelineInit, PipelineInv, MovesWereConfirmed, DatesAreSet, Confirmed,
     Joined, Free, NoOne

-----------------------------------------------------------------------------
(* What a step of a clerk does to the bench.                               *)

\* A clerk who starts on a request remembers what fits it; the others' memory stays.
LEMMA BenchTaken ==
  ASSUME PipelineInv, NEW c \in Clerk, NEW step, NEW aim, Take(c, step, aim),
         [step |-> step, aim |-> aim] \in BenchRow, AimFits([step |-> step, aim |-> aim])
  PROVE  /\ bench' \in [Clerk -> BenchRow]
         /\ bench'[c] = [step |-> step, aim |-> aim]
         /\ \A b \in Clerk \ {c} : bench'[b] = bench[b]
         /\ \A b \in Clerk : AimFits(bench'[b])
BY DEF Take, PipelineInv

\* A clerk who is done remembers nothing; the others' memory stays.
LEMMA BenchFreed ==
  ASSUME PipelineInv, NEW c \in Clerk, Finish(c)
  PROVE  /\ bench' \in [Clerk -> BenchRow]
         /\ bench'[c] = Free
         /\ \A b \in Clerk \ {c} : bench'[b] = bench[b]
         /\ \A b \in Clerk : AimFits(bench'[b])
<1>1. Free \in BenchRow /\ AimFits(Free)
  BY DEF Free, BenchRow, AimFits, NoOne
<1> QED
  BY <1>1 DEF Finish, PipelineInv

\* The bench has its type, and nobody on it moves somebody who was never confirmed.
BenchOK ==
  /\ bench \in [Clerk -> BenchRow] /\ \A c \in Clerk : AimFits(bench[c])
  /\ MovesWereConfirmed

\* Finishing a request keeps what the clerks remember true.
LEMMA FreedOK ==
  ASSUME PipelineInv, NEW c \in Clerk, Finish(c), Confirmed => Confirmed'
  PROVE  BenchOK'
BY BenchFreed DEF BenchOK, PipelineInv, MovesWereConfirmed, Free, NoOne

\* Starting on a request keeps what the clerks remember true.
LEMMA TakenOK ==
  ASSUME PipelineInv, NEW c \in Clerk, NEW step, NEW aim, Take(c, step, aim),
         [step |-> step, aim |-> aim] \in BenchRow, AimFits([step |-> step, aim |-> aim]),
         step = "move" /\ aim \in Joined => Confirmed,
         granted' = granted
  PROVE  BenchOK'
<1>1. \A b \in Clerk : bench'[b] = bench[b] \/ bench'[b] = [step |-> step, aim |-> aim]
  BY BenchTaken
<1> QED
  BY <1>1, BenchTaken DEF BenchOK, PipelineInv, MovesWereConfirmed, Confirmed

\* What clerks remember stays true while nobody moves and no confirmation is lost.
LEMMA BenchStays ==
  ASSUME PipelineInv, bench' = bench, Confirmed => Confirmed'
  PROVE  BenchOK'
BY DEF BenchOK, PipelineInv, MovesWereConfirmed

-----------------------------------------------------------------------------
(* PipelineInv, put together again after a step.                           *)

ScreeningOK ==
  screening \in ScreeningStatus \cup {"none"} /\ recommendation \in Disposition \cup {"none"}
ApprovalsOK == pending \in [Kind -> 0..MaxPending] /\ granted \subseteq Kind
CandidateOK == candidate \in {"live", "erasing", "gone"}
PlacementOK ==
  /\ placement \in PlacementStatus \cup {"none"} /\ today \in 0..LastDay
  /\ startAt \in Int /\ endAt \in Int
  /\ DatesAreSet /\ (placement \in Joined => Confirmed)

\* The invariant is the conjunction of one part per table and one for the clerks.
LEMMA PipelineParts ==
  /\ PipelineInv => ScreeningOK /\ ApprovalsOK /\ CandidateOK /\ PlacementOK /\ BenchOK
  /\ ScreeningOK' /\ ApprovalsOK' /\ CandidateOK' /\ PlacementOK' /\ BenchOK' => PipelineInv'
BY PipelineStates DEF PipelineInv, PipelineTypeOK, ScreeningOK, ApprovalsOK, CandidateOK,
   PlacementOK, BenchOK, BenchRow

\* The part of a table stays while the table does.
LEMMA PartsStay ==
  /\ ScreeningOK /\ UNCHANGED screeningVars => ScreeningOK'
  /\ ApprovalsOK /\ UNCHANGED approvalVars => ApprovalsOK'
  /\ CandidateOK /\ UNCHANGED candidate => CandidateOK'
  /\ PlacementOK /\ UNCHANGED <<placementVars, granted, today>> => PlacementOK'
BY DEF ScreeningOK, ApprovalsOK, CandidateOK, PlacementOK, DatesAreSet, Confirmed,
   screeningVars, placementVars, approvalVars

\* What only changes the bench, or frees it and writes to the screening.
LEMMA OnlyBench ==
  ASSUME PipelineInv, BenchOK', UNCHANGED <<screeningVars, placementVars, approvalVars, today>>,
         CandidateOK'
  PROVE  PipelineInv'
BY PipelineParts, PartsStay DEF approvalVars

\* A confirmation stays granted while nothing is decided.
LEMMA SameGranted == granted' = granted => (Confirmed => Confirmed')
BY DEF Confirmed

-----------------------------------------------------------------------------
(* The steps of a clerk.                                                   *)

\* The screening's handlers keep the invariant.
LEMMA OnTheScreening ==
  ASSUME PipelineInv, NEW c \in Clerk,
         \/ AskScreening(c) \/ WriteScreening(c) \/ RequestDecision(c) \/ FileDecision(c)
  PROVE  PipelineInv'
<1>0. /\ ScreeningOK /\ ApprovalsOK /\ CandidateOK /\ PlacementOK /\ BenchOK
      /\ bench \in [Clerk -> BenchRow] /\ AimFits(bench[c])
  BY PipelineParts DEF BenchOK
<1>1. CASE AskScreening(c)
  <2>1. PICK s \in {"in_progress", "evidence_pending", "ready_for_owner_decision", "closed"} :
          Take(c, "screening", s)
    BY <1>1 DEF AskScreening
  <2>2. [step |-> "screening", aim |-> s] \in BenchRow
        /\ AimFits([step |-> "screening", aim |-> s])
    BY DEF BenchRow, AimFits, ScreeningStatus
  <2>3. BenchOK'
    BY <1>1, <2>1, <2>2, TakenOK DEF AskScreening, approvalVars
  <2> QED
    BY <1>0, <1>1, <2>3, OnlyBench, PartsStay DEF AskScreening
<1>2. CASE WriteScreening(c)
  <2>1. BenchOK'
    BY <1>2, FreedOK, SameGranted DEF WriteScreening, approvalVars
  <2>2. ScreeningOK'
    BY <1>0, <1>2 DEF WriteScreening, ScreeningOK, On, AimFits
  <2> QED
    BY <1>0, <1>2, <2>1, <2>2, PipelineParts, PartsStay DEF WriteScreening, approvalVars
<1>3. CASE RequestDecision(c)
  <2>1. PICK d \in Disposition, step \in {"insertDecision", "fileDecision"} : Take(c, step, d)
    BY <1>3 DEF RequestDecision
  <2>2. [step |-> step, aim |-> d] \in BenchRow /\ AimFits([step |-> step, aim |-> d])
    BY DEF BenchRow, AimFits, Kind
  <2>3. BenchOK'
    BY <1>3, <2>1, <2>2, TakenOK DEF RequestDecision, approvalVars
  <2> QED
    BY <1>0, <1>3, <2>3, OnlyBench, PartsStay DEF RequestDecision
<1>4. CASE FileDecision(c)
  <2>1. bench[c].step \in {"insertDecision", "fileDecision"} /\ bench[c].aim \in Disposition
    BY <1>0, <1>4 DEF FileDecision, On, AimFits
  <2>2. bench'[c] = [bench[c] EXCEPT !.step = "ask"] /\ DOMAIN bench' = Clerk
        /\ \A b \in Clerk \ {c} : bench'[b] = bench[b]
    BY <1>0, <1>4 DEF FileDecision
  <2>3. bench'[c] \in BenchRow /\ bench'[c].step = "ask" /\ bench'[c].aim \in Kind
    BY <1>0, <2>1, <2>2 DEF BenchRow, Kind
  <2>4. bench' \in [Clerk -> BenchRow]
    BY <1>0, <1>4, <2>2, <2>3 DEF FileDecision
  <2>5. \A b \in Clerk : AimFits(bench'[b])
    BY <1>0, <2>2, <2>3, PipelineParts DEF AimFits, BenchOK
  <2>6. MovesWereConfirmed'
    BY <1>0, <1>4, <2>2, <2>3 DEF MovesWereConfirmed, BenchOK, Confirmed, FileDecision,
       approvalVars
  <2>7. BenchOK'
    BY <2>4, <2>5, <2>6 DEF BenchOK
  <2>8. ScreeningOK'
    BY <1>4, <2>1 DEF FileDecision, ScreeningOK, ScreeningStatus
  <2> QED
    BY <1>0, <1>4, <2>7, <2>8, PipelineParts, PartsStay DEF FileDecision, approvalVars
<1> QED
  BY <1>1, <1>2, <1>3, <1>4

\* The handlers that request approvals keep it.
LEMMA OnTheApprovals ==
  ASSUME PipelineInv, NEW c \in Clerk,
         AskOwner(c) \/ RequestConfirmation(c) \/ RequestReplacement(c) \/ Drop(c)
  PROVE  PipelineInv'
<1>0. /\ ScreeningOK /\ ApprovalsOK /\ CandidateOK /\ PlacementOK /\ BenchOK
      /\ AimFits(bench[c])
  BY PipelineParts DEF BenchOK
<1>1. CASE AskOwner(c)
  <2>1. BenchOK'
    BY <1>1, FreedOK, SameGranted DEF AskOwner
  <2>2. ApprovalsOK'
    <3>1. bench[c].aim \in Kind
      BY <1>0, <1>1 DEF AskOwner, On, AimFits
    <3>2. pending[bench[c].aim] + 1 \in 0..MaxPending
      BY <1>0, <1>1, <3>1, PipelineAssumption DEF AskOwner, ApprovalsOK
    <3> QED
      BY <1>0, <1>1, <3>2 DEF AskOwner, ApprovalsOK
  <2> QED
    BY <1>0, <1>1, <2>1, <2>2, PipelineParts, PartsStay DEF AskOwner
<1>2. ASSUME NEW k \in {"confirmation", "replacement"}, Take(c, "ask", k),
             UNCHANGED <<screeningVars, placementVars, approvalVars, candidate, today>>
      PROVE  PipelineInv'
  <2>1. [step |-> "ask", aim |-> k] \in BenchRow /\ AimFits([step |-> "ask", aim |-> k])
    BY DEF BenchRow, AimFits, Kind
  <2>2. BenchOK'
    BY <1>2, <2>1, TakenOK DEF approvalVars
  <2> QED
    BY <1>0, <1>2, <2>2, OnlyBench, PartsStay
<1>3. CASE Drop(c)
  <2>1. BenchOK'
    BY <1>3, FreedOK, SameGranted DEF Drop, approvalVars
  <2> QED
    BY <1>0, <1>3, <2>1, OnlyBench, PartsStay DEF Drop
<1> QED
  BY <1>1, <1>2, <1>3 DEF RequestConfirmation, RequestReplacement

\* The placement's handlers keep it: a clerk joins only what was confirmed when read.
LEMMA OnThePlacement ==
  ASSUME PipelineInv, NEW c \in Clerk,
         AskPlacement(c) \/ CreatePlacement(c) \/ AskMove(c) \/ WriteMove(c)
  PROVE  PipelineInv'
<1>0. /\ ScreeningOK /\ ApprovalsOK /\ CandidateOK /\ PlacementOK /\ BenchOK
      /\ AimFits(bench[c]) /\ MovesWereConfirmed
  BY PipelineParts DEF BenchOK
<1>1. CASE AskPlacement(c)
  <2>1. [step |-> "place", aim |-> "none"] \in BenchRow
        /\ AimFits([step |-> "place", aim |-> "none"])
    BY DEF BenchRow, AimFits
  <2>2. BenchOK'
    BY <1>1, <2>1, TakenOK DEF AskPlacement, approvalVars
  <2> QED
    BY <1>0, <1>1, <2>2, OnlyBench, PartsStay DEF AskPlacement
<1>2. CASE CreatePlacement(c)
  <2>1. BenchOK'
    BY <1>2, FreedOK, SameGranted DEF CreatePlacement, approvalVars
  <2>2. PlacementOK'
    BY <1>0, <1>2 DEF CreatePlacement, PlacementOK, PlacementStatus, DatesAreSet, Confirmed,
       Joined, approvalVars
  <2> QED
    BY <1>0, <1>2, <2>1, <2>2, PipelineParts, PartsStay DEF CreatePlacement, approvalVars
<1>3. CASE AskMove(c)
  <2>1. PICK s \in PlacementStatus :
          /\ placement # "none" /\ MayMove(PlacementFlow, placement, s)
          /\ IF Direct(s) THEN Take(c, "move", s) ELSE Take(c, "ask", "confirmation")
    BY <1>3, PipelineStates DEF AskMove
  <2>2. CASE Direct(s)
    <3>1. s # "joining_confirmed" /\ Take(c, "move", s)
      BY <2>1, <2>2 DEF Direct, NeedsApproval
    <3>2. s \in Joined => Confirmed
      BY <1>0, <2>1, <3>1, JoinedFollows DEF PlacementOK
    <3>3. [step |-> "move", aim |-> s] \in BenchRow /\ AimFits([step |-> "move", aim |-> s])
      BY <3>1 DEF BenchRow, AimFits
    <3>4. BenchOK'
      BY <1>3, <3>1, <3>2, <3>3, TakenOK DEF AskMove, approvalVars
    <3> QED
      BY <1>0, <1>3, <3>4, OnlyBench, PartsStay DEF AskMove
  <2>3. CASE ~Direct(s)
    <3>1. [step |-> "ask", aim |-> "confirmation"] \in BenchRow
          /\ AimFits([step |-> "ask", aim |-> "confirmation"])
      BY DEF BenchRow, AimFits, Kind
    <3>2. BenchOK'
      BY <1>3, <2>1, <2>3, <3>1, TakenOK DEF AskMove, approvalVars
    <3> QED
      BY <1>0, <1>3, <3>2, OnlyBench, PartsStay DEF AskMove
  <2> QED
    BY <2>2, <2>3
<1>4. CASE WriteMove(c)
  <2>1. BenchOK'
    BY <1>4, FreedOK, SameGranted DEF WriteMove, approvalVars
  <2>2. bench[c].aim \in PlacementStatus /\ (bench[c].aim \in Joined => Confirmed)
    BY <1>0, <1>4 DEF WriteMove, On, AimFits, MovesWereConfirmed
  <2>3. startAt' \in Int /\ endAt' \in Int
    BY <1>0, <1>4, PipelineAssumption DEF WriteMove, PlacementOK
  <2>4. DatesAreSet'
    BY <1>0, <1>4, PipelineAssumption DEF WriteMove, PlacementOK, DatesAreSet, Confirmed,
       Never, approvalVars
  <2>5. PlacementOK'
    BY <1>0, <1>4, <2>2, <2>3, <2>4 DEF WriteMove, PlacementOK, Confirmed, approvalVars
  <2> QED
    BY <1>0, <1>4, <2>1, <2>5, PipelineParts, PartsStay DEF WriteMove, approvalVars
<1> QED
  BY <1>1, <1>2, <1>3, <1>4

\* Erasing a candidate keeps it.
LEMMA OnTheCandidate ==
  ASSUME PipelineInv, NEW c \in Clerk,
         EraseCandidate(c) \/ ClosePlacement(c) \/ ForgetCandidate(c)
  PROVE  PipelineInv'
<1>0. /\ ScreeningOK /\ ApprovalsOK /\ CandidateOK /\ PlacementOK /\ BenchOK
      /\ bench \in [Clerk -> BenchRow] /\ AimFits(bench[c])
  BY PipelineParts DEF BenchOK
<1>1. CASE EraseCandidate(c)
  <2>1. PICK step \in {"forget", "close"} : Take(c, step, "none")
    BY <1>1 DEF EraseCandidate
  <2>2. [step |-> step, aim |-> "none"] \in BenchRow
        /\ AimFits([step |-> step, aim |-> "none"])
    BY DEF BenchRow, AimFits
  <2>3. BenchOK'
    BY <1>1, <2>1, <2>2, TakenOK DEF EraseCandidate, approvalVars
  <2>4. CandidateOK'
    BY <1>1 DEF EraseCandidate, CandidateOK
  <2> QED
    BY <1>1, <2>3, <2>4, OnlyBench DEF EraseCandidate
<1>2. CASE ClosePlacement(c)
  <2>1. bench'[c] = [bench[c] EXCEPT !.step = "forget"] /\ DOMAIN bench' = Clerk
        /\ \A b \in Clerk \ {c} : bench'[b] = bench[b]
    BY <1>0, <1>2 DEF ClosePlacement
  <2>2. bench'[c] \in BenchRow /\ bench'[c].step = "forget"
    BY <1>0, <2>1 DEF BenchRow
  <2>3. bench' \in [Clerk -> BenchRow]
    BY <1>0, <1>2, <2>1, <2>2 DEF ClosePlacement
  <2>4. \A b \in Clerk : AimFits(bench'[b])
    BY <1>0, <2>1, <2>2 DEF AimFits, BenchOK
  <2>5. MovesWereConfirmed'
    BY <1>0, <1>2, <2>1, <2>2 DEF MovesWereConfirmed, BenchOK, Confirmed, ClosePlacement,
       approvalVars
  <2>6. BenchOK'
    BY <2>3, <2>4, <2>5 DEF BenchOK
  <2>7. PlacementOK'
    BY <1>0, <1>2 DEF ClosePlacement, PlacementOK, PlacementStatus, DatesAreSet, Confirmed,
       Joined, approvalVars
  <2> QED
    BY <1>0, <1>2, <2>6, <2>7, PipelineParts, PartsStay DEF ClosePlacement, approvalVars
<1>3. CASE ForgetCandidate(c)
  <2>1. BenchOK' /\ CandidateOK'
    BY <1>3, FreedOK, SameGranted DEF ForgetCandidate, approvalVars, CandidateOK
  <2> QED
    BY <1>3, <2>1, OnlyBench DEF ForgetCandidate
<1> QED
  BY <1>1, <1>2, <1>3

-----------------------------------------------------------------------------
(* What is not a clerk's.                                                  *)

\* A decision keeps the approvals' part.
LEMMA Decided ==
  ASSUME PipelineInv, NEW k \in Kind, Decide(k), granted' \subseteq Kind
  PROVE  ApprovalsOK'
<1>1. pending \in [Kind -> 0..MaxPending] /\ pending[k] - 1 \in 0..MaxPending
  BY PipelineAssumption DEF PipelineInv, PipelineTypeOK, Decide
<1> QED
  BY <1>1 DEF Decide, ApprovalsOK

\* The owner's decisions keep the invariant.
LEMMA OfTheOwner ==
  ASSUME PipelineInv,
         \/ ApproveDecision \/ ApproveConfirmation \/ ApproveReplacement \/ RejectApproval
  PROVE  PipelineInv'
<1>0. ScreeningOK /\ ApprovalsOK /\ CandidateOK /\ PlacementOK /\ BenchOK
  BY PipelineParts
<1>1. CASE ApproveDecision
  <2>1. PICK d \in Disposition : Decide(d) /\ granted' = granted \cup {d}
    BY <1>1 DEF ApproveDecision
  <2>2. ApprovalsOK' /\ (Confirmed <=> Confirmed')
    BY <1>0, <2>1, Decided DEF ApprovalsOK, Kind, Confirmed, Disposition
  <2>3. BenchOK' /\ ScreeningOK' /\ CandidateOK'
    BY <1>0, <1>1, <2>2, BenchStays, PartsStay DEF ApproveDecision, ScreeningOK, ScreeningStatus
  <2>4. PlacementOK'
    BY <1>0, <1>1, <2>2 DEF ApproveDecision, PlacementOK, DatesAreSet, placementVars
  <2> QED
    BY <2>2, <2>3, <2>4, PipelineParts
<1>2. CASE ApproveConfirmation
  <2>1. ApprovalsOK' /\ Confirmed'
    BY <1>0, <1>2, Decided DEF ApproveConfirmation, ApprovalsOK, Kind, Confirmed
  <2>2. BenchOK' /\ ScreeningOK' /\ CandidateOK'
    BY <1>0, <1>2, <2>1, BenchStays, PartsStay DEF ApproveConfirmation
  <2>3. PlacementOK'
    BY <1>0, <1>2, <2>1, PipelineAssumption DEF ApproveConfirmation, PlacementOK, DatesAreSet,
       PlacementStatus
  <2> QED
    BY <2>1, <2>2, <2>3, PipelineParts
<1>3. CASE ApproveReplacement
  <2>1. ApprovalsOK' /\ (Confirmed <=> Confirmed')
    BY <1>0, <1>3, Decided DEF ApproveReplacement, ApprovalsOK, Kind, Confirmed
  <2>2. BenchOK' /\ ScreeningOK' /\ CandidateOK'
    BY <1>0, <1>3, <2>1, BenchStays, PartsStay DEF ApproveReplacement
  <2>3. PlacementOK'
    BY <1>0, <1>3, <2>1 DEF ApproveReplacement, PlacementOK, DatesAreSet, PlacementStatus, Joined
  <2> QED
    BY <2>1, <2>2, <2>3, PipelineParts
<1>4. CASE RejectApproval
  <2>1. ApprovalsOK'
    BY <1>0, <1>4, Decided DEF RejectApproval, ApprovalsOK
  <2>2. BenchOK' /\ ScreeningOK' /\ CandidateOK' /\ PlacementOK'
    BY <1>0, <1>4, BenchStays, SameGranted, PartsStay DEF RejectApproval
  <2> QED
    BY <2>1, <2>2, PipelineParts
<1> QED
  BY <1>1, <1>2, <1>3, <1>4

\* Creating a screening and the passing of days keep it.
LEMMA OfTheRest ==
  ASSUME PipelineInv, CreateScreening \/ DayPasses \/ UNCHANGED pipelineVars
  PROVE  PipelineInv'
<1>0. ScreeningOK /\ ApprovalsOK /\ CandidateOK /\ PlacementOK /\ BenchOK
  BY PipelineParts
<1>1. CASE CreateScreening
  <2>1. BenchOK' /\ ScreeningOK'
    BY <1>0, <1>1, BenchStays, SameGranted DEF CreateScreening, ScreeningOK, ScreeningStatus,
       approvalVars
  <2> QED
    BY <1>0, <1>1, <2>1, PipelineParts, PartsStay DEF CreateScreening, approvalVars
<1>2. CASE DayPasses
  <2>1. BenchOK'
    BY <1>0, <1>2, BenchStays, SameGranted DEF DayPasses, approvalVars
  <2>2. PlacementOK'
    BY <1>0, <1>2, PipelineAssumption DEF DayPasses, PlacementOK, DatesAreSet, Confirmed,
       placementVars, approvalVars
  <2> QED
    BY <1>0, <1>2, <2>1, <2>2, PipelineParts, PartsStay DEF DayPasses
<1>3. CASE UNCHANGED pipelineVars
  <2>1. BenchOK'
    BY <1>0, <1>3, BenchStays, SameGranted DEF pipelineVars, approvalVars
  <2> QED
    BY <1>0, <1>3, <2>1, PipelineParts, PartsStay DEF pipelineVars, approvalVars
<1> QED
  BY <1>1, <1>2, <1>3

\* The invariant holds in every reachable state of the pipeline.
LEMMA PipelineInvariant == PipelineSpec => []PipelineInv
<1>1. PipelineInv /\ [PipelineNext]_pipelineVars => PipelineInv'
  BY OnTheScreening, OnTheApprovals, OnThePlacement, OnTheCandidate, OfTheOwner, OfTheRest
     DEF PipelineNext
<1> QED
  BY <1>1, PipelineInvInit, PTL DEF PipelineSpec

\* Type correctness of the pipeline.
THEOREM PipelineTypeCorrect == PipelineSpec => []PipelineTypeOK
<1>1. PipelineInv => PipelineTypeOK
  BY DEF PipelineInv
<1> QED
  BY <1>1, PipelineInvariant, PTL

\* Whatever stale moves, late approvals and erasures came in between, whoever counts as
\* joined was confirmed by the owner, and the guarantee that is shown runs from that day
\* for its full length (recruitment.ts:1149, approvalEngine.ts:169).
THEOREM WhoJoinedWasConfirmed == PipelineSpec => []JoinedWasConfirmed
<1>1. PipelineInv => JoinedWasConfirmed
  <2> SUFFICES ASSUME PipelineInv, placement \in Joined
               PROVE  /\ "confirmation" \in granted /\ endAt = startAt + GuaranteeDays
                      /\ GuaranteeStatus \in {"active", "expired"}
                      /\ GuaranteeStatus = "active" <=> today < startAt + GuaranteeDays
    BY DEF JoinedWasConfirmed
  <2>1. /\ Confirmed /\ startAt \in 0..LastDay /\ startAt <= today
        /\ endAt = startAt + GuaranteeDays /\ today \in 0..LastDay
    BY DEF PipelineInv, DatesAreSet, PipelineTypeOK
  <2>2. GuaranteeStatus = IF today >= endAt THEN "expired" ELSE "active"
    BY <2>1, PipelineAssumption DEF GuaranteeStatus, Joined, Never
  <2> QED
    BY <2>1, <2>2, PipelineAssumption DEF Confirmed
<1> QED
  BY <1>1, PipelineInvariant, PTL

-----------------------------------------------------------------------------
(* CandidatePrivacy: the handlers' plans as a table.                       *)

CandidateStates ==
  {"imported", "consent_pending", "consented", "profile_incomplete", "available",
   "outreach_queued", "interested", "screening", "qualified", "shortlisted", "submitted",
   "interview", "offer", "joined", "withdrawn", "do_not_contact", "deletion_pending",
   "deleted"}
ShortlistStates == {"prepared", "approval_pending", "shared", "viewed", "withdrawn", "expired"}

\* The two tables have exactly the states of candidates and shortlist entries for keys.
LEMMA PrivacyStates ==
  DOMAIN CandidateFlow = CandidateStates /\ DOMAIN ShortlistFlow = ShortlistStates
BY DEF CandidateFlow, ShortlistFlow, CandidateStates, ShortlistStates

Statement ==
  {"state", "consent", "mark", "consents", "suppress", "shortlist", "audit", "prepare", "ask",
   "pending", "status", "put", "insert", "verdict", "approvals", "list", "objects", "rows",
   "redact", "resolve"}
ErasureOrder == {"mark", "approvals", "shortlist", "consents", "suppress", "list",
                 "objects", "rows", "redact", "resolve", "audit"}

\* What the statements of each handler are, and which follows which.
LEMMA PlanTable ==
  /\ Task = {"transition", "grant", "withdraw", "avoid", "share", "submit", "update",
             "upload", "scan", "erase"}
  /\ DOMAIN Plan["transition"] = {"state"} /\ Plan["transition"]["state"] = NoOne
  /\ DOMAIN Plan["grant"] = {"consent", "state"}
  /\ Plan["grant"]["consent"] = "state" /\ Plan["grant"]["state"] = NoOne
  /\ DOMAIN Plan["withdraw"] = {"mark", "consents", "suppress", "shortlist", "audit"}
  /\ Plan["withdraw"]["mark"] = "consents" /\ Plan["withdraw"]["consents"] = "suppress"
  /\ Plan["withdraw"]["suppress"] = "shortlist" /\ Plan["withdraw"]["shortlist"] = "audit"
  /\ Plan["withdraw"]["audit"] = NoOne
  /\ DOMAIN Plan["avoid"] = {"mark", "suppress"}
  /\ Plan["avoid"]["mark"] = "suppress" /\ Plan["avoid"]["suppress"] = NoOne
  /\ DOMAIN Plan["share"] = {"prepare", "ask", "pending"}
  /\ Plan["share"]["prepare"] = "ask" /\ Plan["share"]["ask"] = "pending"
  /\ Plan["share"]["pending"] = NoOne
  /\ DOMAIN Plan["submit"] = {"pending", "ask"}
  /\ Plan["submit"]["pending"] = "ask" /\ Plan["submit"]["ask"] = NoOne
  /\ DOMAIN Plan["update"] = {"status"} /\ Plan["update"]["status"] = NoOne
  /\ DOMAIN Plan["upload"] = {"put", "insert"}
  /\ Plan["upload"]["put"] = "insert" /\ Plan["upload"]["insert"] = NoOne
  /\ DOMAIN Plan["scan"] = {"verdict"} /\ Plan["scan"]["verdict"] = NoOne
  /\ Plan["erase"] = ErasureSteps
BY DEF Task, Plan

\* The statements of an erasure, and which follows which.
LEMMA ErasureTable ==
  /\ DOMAIN ErasureSteps = ErasureOrder
  /\ ErasureSteps["mark"] = "approvals" /\ ErasureSteps["approvals"] = "shortlist"
  /\ ErasureSteps["shortlist"] = "consents" /\ ErasureSteps["consents"] = "suppress"
  /\ ErasureSteps["suppress"] = "list" /\ ErasureSteps["list"] = "objects"
  /\ ErasureSteps["objects"] = "rows" /\ ErasureSteps["rows"] = "redact"
  /\ ErasureSteps["redact"] = "resolve" /\ ErasureSteps["resolve"] = "audit"
  /\ ErasureSteps["audit"] = NoOne
BY DEF ErasureSteps, ErasureOrder

\* A clerk's row, the aims that go with a task, and where a plan leads.
DeskRow ==
  [task : Task, step : {NoOne} \cup Statement,
   aim : {"none"} \cup CandidateStates \cup ShortlistStates,
   hashed : BOOLEAN, docs : SUBSET Document]
RowFits(entry) ==
  /\ entry.step \in {NoOne} \cup DOMAIN Plan[entry.task]
  /\ entry.task = "transition" /\ entry.step # NoOne => entry.aim \in AskedState
  /\ entry.task = "grant" => entry.aim \in {"none", "consented"}
  /\ entry.task = "withdraw" => entry.aim = "withdrawn"
  /\ entry.task = "avoid" => entry.aim = "do_not_contact"
  /\ entry.task = "erase" => entry.aim = "deletion_pending"
  /\ entry.task = "update" =>
       entry.aim \in {"approval_pending", "viewed", "withdrawn", "expired"}

\* Each statement of a handler is followed by another one of it, or by its end.
LEMMA PlanLeads ==
  ASSUME NEW t \in Task, NEW s \in DOMAIN Plan[t]
  PROVE  s \in Statement /\ s # NoOne /\ Plan[t][s] \in {NoOne} \cup DOMAIN Plan[t]
<1>1. CASE t = "erase"
  <2>1. s \in ErasureOrder /\ Plan[t] = ErasureSteps
    BY <1>1, PlanTable, ErasureTable
  <2>2. ErasureSteps[s] \in {NoOne} \cup ErasureOrder
    BY <2>1, ErasureTable DEF ErasureOrder
  <2> QED
    BY <2>1, <2>2, ErasureTable DEF ErasureOrder, Statement, NoOne
<1>2. CASE t \in {"transition", "grant", "withdraw", "avoid"}
  BY <1>2, PlanTable DEF NoOne, Statement
<1>3. CASE t \in {"share", "submit", "update", "upload", "scan"}
  BY <1>3, PlanTable DEF NoOne, Statement
<1> QED
  BY <1>1, <1>2, <1>3, PlanTable

-----------------------------------------------------------------------------
(* What a clerk's row says of the tables.                                  *)

Marked(entry) ==
  \/ entry.task = "withdraw" /\ entry.step \in {"consents", "suppress", "shortlist", "audit"}
  \/ entry.task = "erase" /\ entry.step \in ErasureOrder \ {"mark"}
Unshared(entry) ==
  \/ entry.task = "withdraw" /\ entry.step = "audit"
  \/ entry.task = "erase" /\ entry.step \in ErasureOrder \ {"mark", "approvals", "shortlist"}
Listed(entry) ==
  /\ entry.task = "erase"
  /\ entry.step \in {"list", "objects", "rows", "redact", "resolve", "audit"}
Erased(entry) == entry.task = "erase" /\ entry.step \in {"resolve", "audit"}

RowSound(entry) ==
  /\ Marked(entry) => marks # {}
  /\ Unshared(entry) => shortlist # "shared"
  /\ entry.task = "erase" /\ entry.step # NoOne => entry.hashed \/ suppressed
  /\ Listed(entry) => suppressed
  /\ Erased(entry) => ~identified /\ "deleted" \in marks

Done ==
  /\ recorded # {} => marks # {} /\ shortlist # "shared"
  /\ ~identified => suppressed
  /\ deletionRequest = "resolved" => ~identified /\ "deleted" \in marks

DocsApart ==
  /\ \A c \in Clerk : IF desk[c].task = "upload" THEN desk[c].docs \cap Rows = {}
                      ELSE desk[c].docs \subseteq Rows
  /\ \A b, c \in Clerk : /\ b # c /\ desk[b].task = "upload" /\ desk[c].task = "upload"
                         => desk[b].docs \cap desk[c].docs = {}

DeskOK == desk \in [Clerk -> DeskRow] /\ \A c \in Clerk : RowFits(desk[c])
ProfileOK ==
  /\ profileState \in CandidateStates /\ marks \subseteq Mark
  /\ identified \in BOOLEAN /\ suppressed \in BOOLEAN /\ consents \subseteq Consent
SharesOK == shortlist \in ShortlistStates \cup {"none"} /\ shareApprovals \in 0..MaxShares
RequestOK == deletionRequest \in RequestStatus /\ recorded \subseteq {"withdraw", "erase"}
TablesOK == ProfileOK /\ SharesOK /\ RequestOK
DocumentsOK == document \in [Document -> DocumentRow]
PrivacyInv ==
  /\ TablesOK /\ DocumentsOK /\ DeskOK /\ DocsApart /\ Done
  /\ \A c \in Clerk : RowSound(desk[c])

\* The invariant of the candidate's data holds initially.
LEMMA PrivacyInvInit == PrivacyInit => PrivacyInv
<1> SUFFICES ASSUME PrivacyInit PROVE PrivacyInv
  OBVIOUS
<1>1. TablesOK
  <2>1. identified \in BOOLEAN /\ suppressed \in BOOLEAN
    BY Zenon DEF PrivacyInit
  <2>2. profileState \in CandidateStates
    BY DEF PrivacyInit, CandidateStates
  <2>3. shareApprovals \in 0..MaxShares
    BY PrivacyAssumption DEF PrivacyInit
  <2> QED
    BY <2>1, <2>2, <2>3 DEF PrivacyInit, TablesOK, ProfileOK, SharesOK, RequestOK, RequestStatus
<1>2. DocumentsOK /\ Rows = {}
  <2>1. NoDocument \in DocumentRow /\ NoDocument.scan = "none"
    BY DEF NoDocument, DocumentRow
  <2> QED
    BY <2>1 DEF PrivacyInit, DocumentsOK, Rows
<1>3. Idle \in DeskRow /\ RowFits(Idle)
  BY PlanTable DEF Idle, DeskRow, RowFits, NoOne
<1>4. DeskOK
  BY <1>3 DEF PrivacyInit, DeskOK
<1>5. DocsApart
  BY <1>2 DEF PrivacyInit, DocsApart, Idle
<1>6. Done
  BY DEF PrivacyInit, Done
<1>7. ASSUME NEW c \in Clerk PROVE RowSound(desk[c])
  BY DEF PrivacyInit, RowSound, Idle, Marked, Unshared, Listed, Erased
<1> QED
  BY <1>1, <1>2, <1>4, <1>5, <1>6, <1>7 DEF PrivacyInv

-----------------------------------------------------------------------------
(* What a step does to the desk.                                           *)

\* c's row is new; nobody else's is.
OnlyDesk(c, entry) ==
  /\ desk' \in [Clerk -> DeskRow] /\ desk'[c] = entry
  /\ \A b \in Clerk \ {c} : desk'[b] = desk[b]
  /\ DeskOK'

\* A clerk who moves within a handler stays well typed; the others stay where they are.
LEMMA DeskSet ==
  ASSUME DeskOK, NEW c \in Clerk, NEW entry \in DeskRow, RowFits(entry),
         desk' = [desk EXCEPT ![c] = entry]
  PROVE  OnlyDesk(c, entry)
BY DEF DeskOK, OnlyDesk

\* A clerk with nothing to do is well typed.
LEMMA IdleFits == Idle \in DeskRow /\ RowFits(Idle)
BY PlanTable DEF Idle, DeskRow, RowFits, NoOne

\* Leaving a handler makes a clerk idle.
LEMMA LeaveOf ==
  ASSUME DeskOK, NEW c \in Clerk, Leave(c)
  PROVE  OnlyDesk(c, Idle)
BY DeskSet, IdleFits DEF Leave

\* A row that went on to its next statement, or is done.
Onward(entry, next, s) ==
  \/ next = Idle /\ Plan[entry.task][s] = NoOne
  \/ /\ next \in DeskRow /\ next.step = Plan[entry.task][s] /\ next.step # NoOne
     /\ next.task = entry.task /\ next.aim = entry.aim
     /\ next.hashed = entry.hashed /\ next.docs = entry.docs

\* Advancing takes a clerk to the next statement of the same handler.
LEMMA AdvanceOf ==
  ASSUME DeskOK, NEW c \in Clerk, NEW s \in Statement, Advance(c, s)
  PROVE  /\ desk[c] \in DeskRow /\ RowFits(desk[c])
         /\ desk[c].step = s /\ s \in DOMAIN Plan[desk[c].task]
         /\ OnlyDesk(c, desk'[c]) /\ Onward(desk[c], desk'[c], s)
<1>1. /\ desk[c] \in DeskRow /\ RowFits(desk[c]) /\ desk[c].step = s
      /\ s \in DOMAIN Plan[desk[c].task] /\ desk[c].task \in Task
  BY DEF DeskOK, Advance, At, RowFits, DeskRow, Statement, NoOne
<1> DEFINE next == Plan[desk[c].task][s]
           entry == [desk[c] EXCEPT !.step = next]
<1>2. next \in {NoOne} \cup DOMAIN Plan[desk[c].task] /\ next \in {NoOne} \cup Statement
  BY <1>1, PlanLeads
<1>3. CASE next = NoOne
  <2>1. desk' = [desk EXCEPT ![c] = Idle]
    BY <1>3 DEF Advance
  <2>2. OnlyDesk(c, Idle)
    BY <2>1, LeaveOf DEF Leave
  <2> QED
    BY <1>1, <1>3, <2>2 DEF Onward, OnlyDesk
<1>4. CASE next # NoOne
  <2>1. desk' = [desk EXCEPT ![c] = entry]
    BY <1>4 DEF Advance
  <2>2. /\ entry \in DeskRow /\ entry.step = next /\ entry.task = desk[c].task
        /\ entry.aim = desk[c].aim /\ entry.hashed = desk[c].hashed /\ entry.docs = desk[c].docs
    BY <1>1, <1>2 DEF DeskRow
  <2> HIDE DEF entry
  <2>3. RowFits(entry)
    BY <1>1, <1>2, <2>2, PlanLeads DEF RowFits
  <2>4. OnlyDesk(c, entry)
    BY <2>1, <2>2, <2>3, DeskSet
  <2> QED
    BY <1>1, <1>4, <2>2, <2>4 DEF Onward, OnlyDesk
<1> QED
  BY <1>3, <1>4

\* A handler is begun with what its first statement read.
LEMMA BeginOf ==
  ASSUME DeskOK, NEW c \in Clerk, NEW t \in Task, NEW s \in DOMAIN Plan[t],
         NEW aim \in {"none"} \cup CandidateStates \cup ShortlistStates,
         NEW docs \in SUBSET Document, identified \in BOOLEAN,
         Begin(c, t, s, aim, docs),
         RowFits([task |-> t, step |-> s, aim |-> aim, hashed |-> identified, docs |-> docs])
  PROVE  OnlyDesk(c, [task |-> t, step |-> s, aim |-> aim, hashed |-> identified,
                      docs |-> docs])
<1> DEFINE entry == [task |-> t, step |-> s, aim |-> aim, hashed |-> identified, docs |-> docs]
<1>1. entry \in DeskRow
  BY PlanLeads DEF DeskRow
<1>2. desk' = [desk EXCEPT ![c] = entry]
  BY DEF Begin
<1> QED
  BY <1>1, <1>2, DeskSet

-----------------------------------------------------------------------------
(* What a step may not take back, and what follows for the rows.           *)

Keeps ==
  /\ marks \subseteq marks' /\ (identified' => identified) /\ (suppressed => suppressed')
  /\ marks' # {} /\ shortlist # "shared" => shortlist' # "shared"

\* What a clerk's place says of the data stays true while no mark is lost.
LEMMA SoundStays ==
  ASSUME NEW entry, RowSound(entry), Keeps
  PROVE  RowSound(entry)'
BY DEF RowSound, Keeps, Marked, Unshared, Listed, Erased, ErasureOrder

\* An idle clerk's place says nothing.
LEMMA IdleSound == RowSound(Idle) /\ RowSound(Idle)'
BY DEF RowSound, Idle, Marked, Unshared, Listed, Erased, NoOne

\* Executing a statement makes what the next place says of the data true.
LEMMA NextSound ==
  ASSUME NEW entry \in DeskRow, NEW next, NEW s \in DOMAIN Plan[entry.task], entry.step = s,
         RowSound(entry), Onward(entry, next, s), Keeps,
         s = "mark" => marks' # {},
         s = "shortlist" => shortlist' # "shared",
         s = "suppress" => suppressed' \/ ~entry.hashed,
         s = "redact" => ~identified' /\ "deleted" \in marks'
  PROVE  RowSound(next)'
<1>0. CASE next = Idle
  BY <1>0, IdleSound
<1>1. CASE next # Idle /\ entry.task = "erase"
  <2>1. /\ s \in ErasureOrder /\ next.task = "erase" /\ next.step = ErasureSteps[s]
        /\ next.hashed = entry.hashed
    BY <1>1, PlanTable, ErasureTable DEF Onward
  <2>2. Marked(entry) /\ s # "mark" => marks # {}
    BY DEF RowSound
  <2>3. marks' # {}
    BY <1>1, <2>1, <2>2 DEF Marked, Keeps
  <2>4. Unshared(next) => shortlist' # "shared"
    BY <1>1, <2>1, <2>3, ErasureTable DEF RowSound, Keeps, Unshared, ErasureOrder
  <2>5. entry.hashed \/ suppressed
    BY <1>1, <2>1 DEF RowSound, ErasureOrder, NoOne
  <2>6. next.hashed \/ suppressed'
    BY <2>1, <2>5 DEF Keeps
  <2>7. Listed(next) => suppressed'
    BY <1>1, <2>1, <2>5, ErasureTable DEF RowSound, Keeps, Listed, ErasureOrder
  <2>8. Erased(next) => ~identified' /\ "deleted" \in marks'
    BY <1>1, <2>1, ErasureTable DEF RowSound, Keeps, Erased, ErasureOrder
  <2> QED
    BY <2>3, <2>4, <2>6, <2>7, <2>8 DEF RowSound, Marked, Unshared, Listed, Erased
<1>2. CASE next # Idle /\ entry.task = "withdraw"
  <2>1. /\ next.task = "withdraw" /\ next.step = Plan["withdraw"][s]
        /\ s \in {"mark", "consents", "suppress", "shortlist", "audit"}
    BY <1>2, PlanTable DEF Onward
  <2>2. marks' # {}
    BY <1>2, <2>1 DEF RowSound, Keeps, Marked
  <2>3. Unshared(next) => shortlist' # "shared"
    BY <1>2, <2>1, PlanTable DEF Unshared, NoOne
  <2> QED
    BY <2>1, <2>2, <2>3 DEF RowSound, Listed, Erased
<1>3. CASE next # Idle /\ entry.task \notin {"withdraw", "erase"}
  <2>1. next.task \notin {"withdraw", "erase"}
    BY <1>3 DEF Onward
  <2> QED
    BY <2>1 DEF RowSound, Marked, Unshared, Listed, Erased
<1> QED
  BY <1>0, <1>1, <1>2, <1>3

\* Whose documents are whose, when no row of a document is new.
LEMMA DocsStay ==
  ASSUME DocsApart, NEW c \in Clerk, NEW entry, OnlyDesk(c, entry), Rows \subseteq Rows',
         Rows' \subseteq Rows,
         \/ entry.docs \subseteq desk[c].docs /\ entry.task = desk[c].task
         \/ entry.docs \subseteq Rows /\ entry.task # "upload"
  PROVE  DocsApart'
<1> DEFINE Other(b) == desk'[b] = desk[b]
<1>1. \A b \in Clerk \ {c} : Other(b)
  BY DEF OnlyDesk
<1>2. desk'[c] = entry /\ Rows' = Rows
  BY DEF OnlyDesk
<1>3. ASSUME NEW b \in Clerk
      PROVE  IF desk'[b].task = "upload" THEN desk'[b].docs \cap Rows' = {}
             ELSE desk'[b].docs \subseteq Rows'
  BY <1>1, <1>2 DEF DocsApart
<1>4. ASSUME NEW a \in Clerk, NEW b \in Clerk, a # b, desk'[a].task = "upload",
             desk'[b].task = "upload"
      PROVE  desk'[a].docs \cap desk'[b].docs = {}
  BY <1>1, <1>2, <1>4 DEF DocsApart
<1> QED
  BY <1>3, <1>4 DEF DocsApart

\* An idle clerk carries no document.
LEMMA IdleDocs == Idle.docs = {} /\ Idle.task = "transition"
BY DEF Idle

-----------------------------------------------------------------------------
(* PrivacyInv, put together again.                                         *)

\* The invariant follows from its parts when one clerk moves.
LEMMA PrivacyParts ==
  ASSUME PrivacyInv, NEW c \in Clerk, NEW entry, OnlyDesk(c, entry), Keeps, RowSound(entry)',
         TablesOK', DocumentsOK', DocsApart', Done'
  PROVE  PrivacyInv'
<1>1. ASSUME NEW b \in Clerk PROVE RowSound(desk[b])'
  <2>1. CASE b = c
    BY <2>1 DEF OnlyDesk
  <2>2. CASE b # c
    <3>1. PICK was : was = desk[b]
      OBVIOUS
    <3>2. RowSound(was)
      BY <3>1 DEF PrivacyInv
    <3>3. RowSound(was)'
      BY <3>2, SoundStays
    <3>4. desk'[b] = was
      BY <2>2, <3>1 DEF OnlyDesk
    <3> QED
      BY <3>3, <3>4 DEF RowSound
  <2> QED
    BY <2>1, <2>2
<1> QED
  BY <1>1 DEF PrivacyInv, OnlyDesk
\* The part of a table stays while the table does.
LEMMA PrivacyStays ==
  /\ ProfileOK /\ UNCHANGED profileVars => ProfileOK'
  /\ SharesOK /\ UNCHANGED shareVars => SharesOK'
  /\ DocumentsOK /\ UNCHANGED document => DocumentsOK' /\ Rows' = Rows
BY DEF ProfileOK, SharesOK, DocumentsOK, Rows, profileVars, shareVars

\* When no mark, identity or suppression changes and nothing is shared, no mark is lost.
LEMMA KeepsIf ==
  ASSUME marks' = marks, identified' = identified, suppressed' = suppressed,
         shortlist' = shortlist \/ shortlist' # "shared"
  PROVE  Keeps
BY DEF Keeps

\* What is recorded stays done while no mark is lost.
LEMMA DoneStays ==
  ASSUME PrivacyInv, Keeps, UNCHANGED <<deletionRequest, recorded>>, ~identified' => suppressed'
  PROVE  Done'
BY DEF PrivacyInv, Done, Keeps

\* A clerk goes on to its next statement, having written to no document.
LEMMA Walks ==
  ASSUME PrivacyInv, NEW c \in Clerk, NEW s \in Statement, Advance(c, s), Keeps,
         TablesOK', Done', DocumentsOK', Rows' = Rows,
         s = "mark" => marks' # {},
         s = "shortlist" => shortlist' # "shared",
         s = "suppress" => suppressed' \/ ~desk[c].hashed,
         s = "redact" => ~identified' /\ "deleted" \in marks'
  PROVE  PrivacyInv'
<1>1. PICK was, next : was = desk[c] /\ next = desk'[c]
  OBVIOUS
<1>2. /\ was \in DeskRow /\ was.step = s /\ s \in DOMAIN Plan[was.task]
      /\ OnlyDesk(c, next) /\ Onward(was, next, s)
  BY <1>1, AdvanceOf DEF PrivacyInv
<1>3. RowSound(was)
  BY <1>1 DEF PrivacyInv
<1>4. RowSound(next)'
  BY <1>1, <1>2, <1>3, NextSound
<1>5. \/ next.docs \subseteq desk[c].docs /\ next.task = desk[c].task
      \/ next.docs \subseteq Rows /\ next.task # "upload"
  BY <1>1, <1>2, IdleDocs DEF Onward
<1>6. DocsApart'
  BY <1>2, <1>5, DocsStay DEF PrivacyInv
<1> QED
  BY <1>2, <1>4, <1>6, PrivacyParts

\* A clerk leaves, having written to no document.
LEMMA Leaves ==
  ASSUME PrivacyInv, NEW c \in Clerk, Leave(c), Keeps, TablesOK', Done', UNCHANGED document
  PROVE  PrivacyInv'
<1>1. OnlyDesk(c, Idle)
  BY LeaveOf DEF PrivacyInv
<1>2. DocumentsOK' /\ Rows' = Rows
  BY PrivacyStays DEF PrivacyInv
<1>3. DocsApart'
  BY <1>1, <1>2, IdleDocs, DocsStay DEF PrivacyInv
<1> QED
  BY <1>1, <1>2, <1>3, IdleSound, PrivacyParts

\* A request arrives.
LEMMA Arrives ==
  ASSUME PrivacyInv, NEW c \in Clerk, NEW t \in Task, NEW s \in DOMAIN Plan[t],
         NEW aim \in {"none"} \cup CandidateStates \cup ShortlistStates,
         NEW docs \in SUBSET Document, Begin(c, t, s, aim, docs),
         RowFits([task |-> t, step |-> s, aim |-> aim, hashed |-> identified, docs |-> docs]),
         t \in {"withdraw", "erase"} => s = "mark",
         t # "upload", docs \subseteq Rows,
         UNCHANGED <<profileVars, shareVars, erasureVars>>
  PROVE  PrivacyInv'
<1>1. PICK entry : entry = [task |-> t, step |-> s, aim |-> aim, hashed |-> identified,
                        docs |-> docs]
  OBVIOUS
<1>2. identified \in BOOLEAN
  BY DEF PrivacyInv, TablesOK, ProfileOK
<1>3. OnlyDesk(c, entry)
  BY <1>1, <1>2, BeginOf DEF PrivacyInv
<1>4. /\ UNCHANGED <<profileVars, shareVars, document, deletionRequest, recorded>>
      /\ marks' = marks /\ identified' = identified /\ suppressed' = suppressed
      /\ shortlist' = shortlist
  BY DEF profileVars, shareVars, erasureVars
<1>5. Keeps
  BY <1>4, KeepsIf
<1>6. TablesOK' /\ DocumentsOK' /\ Rows' = Rows
  BY <1>4, PrivacyStays DEF PrivacyInv, TablesOK, RequestOK
<1>7. Done'
  BY <1>4, <1>5, DoneStays DEF PrivacyInv, Done
<1>8. entry.task = t /\ entry.step = s /\ entry.hashed = identified /\ entry.docs = docs
  BY <1>1
<1>9. RowSound(entry)'
  <2>1. ~Marked(entry) /\ ~Unshared(entry) /\ ~Listed(entry) /\ ~Erased(entry)
    BY <1>8 DEF Marked, Unshared, Listed, Erased, ErasureOrder
  <2>2. entry.hashed \/ suppressed'
    BY <1>4, <1>8 DEF PrivacyInv, Done
  <2> QED
    BY <2>1, <2>2 DEF RowSound
<1>10. DocsApart'
  BY <1>3, <1>6, <1>8, DocsStay DEF PrivacyInv
<1> QED
  BY <1>3, <1>5, <1>6, <1>7, <1>9, <1>10, PrivacyParts

\* Nobody at the desk moved.
LEMMA DeskRests ==
  ASSUME PrivacyInv, desk' = desk, Keeps, TablesOK', Done', DocumentsOK', Rows' = Rows
  PROVE  PrivacyInv'
<1>1. DeskOK' /\ DocsApart'
  BY DEF PrivacyInv, DeskOK, DocsApart
<1>2. ASSUME NEW b \in Clerk PROVE RowSound(desk[b])'
  <2>1. PICK was : was = desk[b]
    OBVIOUS
  <2>2. RowSound(was)'
    BY <2>1, SoundStays DEF PrivacyInv
  <2> QED
    BY <2>1, <2>2 DEF RowSound
<1> QED
  BY <1>1, <1>2 DEF PrivacyInv
-----------------------------------------------------------------------------
(* One step per action: the requests that arrive.                          *)

\* The first statement of each handler keeps the invariant.
LEMMA PrivacyArrivals ==
  ASSUME PrivacyInv, NEW c \in Clerk,
         \/ AskTransition(c) \/ GrantConsent(c) \/ Withdraw(c) \/ DoNotContact(c)
         \/ RequestShareApproval(c) \/ RequestCandidateShare(c) \/ UpdateShortlist(c)
         \/ ReadForScan(c) \/ FulfilDeletion(c)
  PROVE  PrivacyInv'
<1>1. CASE AskTransition(c)
  <2>1. PICK a \in AskedState : Begin(c, "transition", "state", a, {})
    BY <1>1 DEF AskTransition
  <2>2. a \in CandidateStates
    BY <2>1, PrivacyAssumption, PrivacyStates
  <2> QED
    BY <1>1, <2>1, <2>2, PlanTable, Arrives DEF AskTransition, RowFits
<1>2. CASE GrantConsent(c)
  <2>1. PICK aim \in {"none", "consented"} : Begin(c, "grant", "consent", aim, {})
    BY <1>2 DEF GrantConsent
  <2> QED
    BY <1>2, <2>1, PlanTable, Arrives DEF GrantConsent, RowFits, CandidateStates
<1>3. CASE Withdraw(c)
  BY <1>3, PlanTable, Arrives DEF Withdraw, RowFits, CandidateStates
<1>4. CASE DoNotContact(c)
  BY <1>4, PlanTable, Arrives DEF DoNotContact, RowFits, CandidateStates
<1>5. CASE RequestShareApproval(c)
  <2>1. PICK s \in {"prepare", "ask"} : Begin(c, "share", s, "none", {})
    BY <1>5 DEF RequestShareApproval
  <2> QED
    BY SMTT(30), <1>5, <2>1, PlanTable, Arrives DEF RequestShareApproval, RowFits
<1>6. CASE RequestCandidateShare(c)
  BY <1>6, PlanTable, Arrives DEF RequestCandidateShare, RowFits
<1>7. CASE UpdateShortlist(c)
  <2>1. PICK a \in {"approval_pending", "viewed", "withdrawn", "expired"} :
          Begin(c, "update", "status", a, {})
    BY <1>7 DEF UpdateShortlist
  <2> QED
    BY <1>7, <2>1, PlanTable, Arrives DEF UpdateShortlist, RowFits, ShortlistStates
<1>8. CASE ReadForScan(c)
  <2>1. PICK d \in Rows : Begin(c, "scan", "verdict", "none", {d})
    BY <1>8 DEF ReadForScan
  <2>2. {d} \in SUBSET Document /\ {d} \subseteq Rows
    BY DEF Rows
  <2> QED
    BY <1>8, <2>1, <2>2, PlanTable, Arrives DEF ReadForScan, RowFits
<1>9. CASE FulfilDeletion(c)
  BY <1>9, PlanTable, ErasureTable, Arrives DEF FulfilDeletion, RowFits, CandidateStates,
     ErasureOrder
<1> QED
  BY <1>1, <1>2, <1>3, <1>4, <1>5, <1>6, <1>7, <1>8, <1>9

\* An upload starts with a document nobody else carries.
LEMMA UploadArrives ==
  ASSUME PrivacyInv, NEW c \in Clerk, Upload(c)
  PROVE  PrivacyInv'
<1>1. PICK d \in Document :
        /\ document[d] = NoDocument /\ \A b \in Clerk : d \notin desk[b].docs
        /\ Begin(c, "upload", "put", "none", {d})
  BY DEF Upload
<1>2. PICK entry : entry = [task |-> "upload", step |-> "put", aim |-> "none",
                        hashed |-> identified, docs |-> {d}]
  OBVIOUS
<1>3. identified \in BOOLEAN /\ RowFits(entry)
  BY <1>2, PlanTable DEF PrivacyInv, TablesOK, ProfileOK, RowFits
<1>4. OnlyDesk(c, entry)
  BY <1>1, <1>2, <1>3, BeginOf, PlanTable DEF PrivacyInv
<1>5. /\ UNCHANGED <<profileVars, shareVars, document, deletionRequest, recorded>>
      /\ marks' = marks /\ identified' = identified /\ suppressed' = suppressed
      /\ shortlist' = shortlist
  BY DEF Upload, profileVars, shareVars, erasureVars
<1>6. Keeps
  BY <1>5, KeepsIf
<1>7. TablesOK' /\ DocumentsOK' /\ Rows' = Rows
  BY <1>5, PrivacyStays DEF PrivacyInv, TablesOK, RequestOK
<1>8. Done'
  BY <1>5, <1>6, DoneStays DEF PrivacyInv, Done
<1>9. entry.task = "upload" /\ entry.docs = {d}
  BY <1>2
<1>10. RowSound(entry)'
  BY <1>9 DEF RowSound, Marked, Unshared, Listed, Erased
<1>11. d \notin Rows
  BY <1>1 DEF Rows, NoDocument
<1>12. DocsApart'
  <2>1. desk'[c] = entry /\ \A b \in Clerk \ {c} : desk'[b] = desk[b]
    BY <1>4 DEF OnlyDesk
  <2>2. \A b \in Clerk : IF desk'[b].task = "upload" THEN desk'[b].docs \cap Rows' = {}
                         ELSE desk'[b].docs \subseteq Rows'
    BY <1>7, <1>9, <1>11, <2>1 DEF PrivacyInv, DocsApart
  <2>3. ASSUME NEW a \in Clerk, NEW b \in Clerk, a # b, desk'[a].task = "upload",
               desk'[b].task = "upload"
        PROVE  desk'[a].docs \cap desk'[b].docs = {}
    BY <1>1, <1>9, <2>1, <2>3 DEF PrivacyInv, DocsApart
  <2> QED
    BY <2>2, <2>3 DEF DocsApart
<1> QED
  BY <1>4, <1>6, <1>7, <1>8, <1>10, <1>12, PrivacyParts

-----------------------------------------------------------------------------
(* The statements that write to the candidate.                             *)

\* Writes of consents and of the candidate's state keep the invariant.
LEMMA OnTheProfile ==
  ASSUME PrivacyInv, NEW c \in Clerk,
         InsertConsent(c) \/ WriteState(c) \/ WithdrawConsents(c)
  PROVE  PrivacyInv'
<1>1. PICK s \in {"consent", "state", "consents"} : Advance(c, s)
  BY DEF InsertConsent, WriteState, WithdrawConsents
<1>2. s \in Statement
  BY <1>1 DEF Statement
<1>3. /\ UNCHANGED <<marks, identified, suppressed, shareVars, document>>
      /\ UNCHANGED <<deletionRequest, recorded, shortlist>>
  BY DEF InsertConsent, WriteState, WithdrawConsents, erasureVars, shareVars
<1>4. desk[c] \in DeskRow /\ RowFits(desk[c]) /\ desk[c].step = s
      /\ s \in DOMAIN Plan[desk[c].task]
  BY <1>1, <1>2, AdvanceOf DEF PrivacyInv
<1>5. profileState' \in CandidateStates
  <2>1. CASE WriteState(c)
    <3>1. desk[c].step = "state" /\ "state" \in DOMAIN Plan[desk[c].task]
      BY <2>1, AdvanceOf DEF WriteState, Statement, PrivacyInv
    <3>2. desk[c].task \in {"transition", "grant"}
      BY <1>4, <3>1, PlanTable, ErasureTable DEF DeskRow, ErasureOrder
    <3>3. desk[c].aim \in CandidateStates \cup {"none"}
      BY <1>4, <3>1, <3>2, PrivacyAssumption, PrivacyStates DEF RowFits, CandidateStates, NoOne
    <3> QED
      BY <2>1, <3>3 DEF WriteState, NextState, PrivacyInv, TablesOK, ProfileOK
  <2>2. CASE ~WriteState(c)
    BY <2>2 DEF InsertConsent, WithdrawConsents, PrivacyInv, TablesOK, ProfileOK
  <2> QED
    BY <2>1, <2>2
<1>6. consents' \subseteq Consent
  BY DEF InsertConsent, WriteState, WithdrawConsents, PrivacyInv, TablesOK, ProfileOK
<1>7. TablesOK' /\ DocumentsOK' /\ Rows' = Rows
  BY <1>3, <1>5, <1>6, PrivacyStays DEF PrivacyInv, TablesOK, ProfileOK, RequestOK
<1>8. Keeps
  BY <1>3, KeepsIf
<1>9. Done'
  BY <1>3, <1>8, DoneStays DEF PrivacyInv, Done
<1> QED
  BY <1>1, <1>2, <1>7, <1>8, <1>9, Walks

\* Marking a candidate keeps it.
LEMMA OnTheMarks ==
  ASSUME PrivacyInv, NEW c \in Clerk, MarkCandidate(c)
  PROVE  PrivacyInv'
<1>1. Advance(c, "mark") /\ "mark" \in Statement
  BY DEF MarkCandidate, Statement
<1>2. desk[c] \in DeskRow /\ RowFits(desk[c]) /\ "mark" \in DOMAIN Plan[desk[c].task]
  BY <1>1, AdvanceOf DEF PrivacyInv
<1>3. desk[c].task \in {"withdraw", "avoid", "erase"}
  BY <1>2, PlanTable DEF DeskRow
<1>4. desk[c].aim \in {"withdrawn", "do_not_contact", "deletion_pending"}
      /\ (desk[c].task # "erase" => desk[c].aim \in Mark)
  BY <1>2, <1>3 DEF RowFits, Mark
<1>5. PICK m \in Mark : marks' = marks \cup {m}
  BY <1>4 DEF MarkCandidate, Mark
<1>6. profileState' \in CandidateStates
  BY <1>4 DEF MarkCandidate, CandidateStates
<1>7. /\ UNCHANGED <<identified, consents, suppressed, shareVars, document>>
      /\ UNCHANGED <<deletionRequest, recorded, shortlist>>
  BY DEF MarkCandidate, erasureVars, shareVars
<1>8. TablesOK' /\ DocumentsOK' /\ Rows' = Rows
  BY <1>5, <1>6, <1>7, PrivacyStays DEF PrivacyInv, TablesOK, ProfileOK, RequestOK
<1>9. Keeps
  BY <1>5, <1>7 DEF Keeps
<1>10. Done'
  BY <1>7, <1>9, DoneStays DEF PrivacyInv, Done
<1> QED
  BY <1>1, <1>5, <1>8, <1>9, <1>10, Walks

\* Suppressing a contact keeps it.
LEMMA OnTheList ==
  ASSUME PrivacyInv, NEW c \in Clerk, Suppress(c)
  PROVE  PrivacyInv'
<1>1. Advance(c, "suppress") /\ "suppress" \in Statement
  BY DEF Suppress, Statement
<1>2. desk[c] \in DeskRow
  BY <1>1, AdvanceOf DEF PrivacyInv
<1>3. suppressed \in BOOLEAN /\ desk[c].hashed \in BOOLEAN
  BY <1>2 DEF PrivacyInv, TablesOK, ProfileOK, DeskRow
<1>4. /\ suppressed' \in BOOLEAN /\ (suppressed => suppressed')
      /\ (suppressed' \/ ~desk[c].hashed)
  BY <1>3, Zenon DEF Suppress
<1>5. /\ UNCHANGED <<profileState, marks, identified, consents, shareVars, document>>
      /\ UNCHANGED <<deletionRequest, recorded, shortlist>>
  BY DEF Suppress, erasureVars, shareVars
<1>6. TablesOK' /\ DocumentsOK' /\ Rows' = Rows
  BY <1>4, <1>5, PrivacyStays DEF PrivacyInv, TablesOK, ProfileOK, RequestOK
<1>7. Keeps
  BY <1>4, <1>5 DEF Keeps
<1>8. Done'
  BY <1>4, <1>5, <1>7, DoneStays DEF PrivacyInv, Done
<1> QED
  BY <1>1, <1>4, <1>6, <1>7, <1>8, Walks

\* Removing a candidate's identity keeps it: the contact was suppressed before.
LEMMA OnTheIdentity ==
  ASSUME PrivacyInv, NEW c \in Clerk, RedactCandidate(c)
  PROVE  PrivacyInv'
<1>1. Advance(c, "redact") /\ "redact" \in Statement
  BY DEF RedactCandidate, Statement
<1>2. /\ desk[c] \in DeskRow /\ "redact" \in DOMAIN Plan[desk[c].task]
      /\ desk[c].step = "redact"
  BY <1>1, AdvanceOf DEF PrivacyInv
<1>3. desk[c].task = "erase"
  BY <1>2, PlanTable DEF DeskRow
<1>4. suppressed
  BY <1>2, <1>3 DEF PrivacyInv, RowSound, Listed
<1>5. /\ UNCHANGED <<consents, suppressed, shareVars, document>>
      /\ UNCHANGED <<deletionRequest, recorded, shortlist>>
  BY DEF RedactCandidate, erasureVars, shareVars
<1>6. identified' = FALSE /\ marks' = marks \cup {"deleted"} /\ profileState' = "deleted"
  BY DEF RedactCandidate
<1>7. identified' \in BOOLEAN
  BY <1>6
<1>8. marks' \subseteq Mark /\ profileState' \in CandidateStates
  BY <1>6 DEF PrivacyInv, TablesOK, ProfileOK, Mark, CandidateStates
<1>9. suppressed' \in BOOLEAN /\ consents' \subseteq Consent
  BY <1>5 DEF PrivacyInv, TablesOK, ProfileOK
<1>10. TablesOK' /\ DocumentsOK' /\ Rows' = Rows
  BY <1>5, <1>7, <1>8, <1>9, PrivacyStays DEF PrivacyInv, TablesOK, ProfileOK, RequestOK
<1>11. Keeps
  BY <1>5, <1>6 DEF Keeps
<1>12. Done'
  BY <1>4, <1>5, <1>11, DoneStays
<1> QED
  BY <1>1, <1>6, <1>10, <1>11, <1>12, Walks

-----------------------------------------------------------------------------
(* The statements that write to the shortlist, the approvals, the request. *)

\* Writes of the shortlist and of its approvals keep it: nothing is shared after a mark.
LEMMA OnTheShortlist ==
  ASSUME PrivacyInv, NEW c \in Clerk,
         \/ WithdrawShortlist(c) \/ PrepareShortlist(c) \/ MarkPending(c)
         \/ WriteShortlist(c) \/ AskApproval(c) \/ CancelApprovals(c)
  PROVE  PrivacyInv'
<1>0. /\ UNCHANGED <<profileVars, document, deletionRequest, recorded>>
      /\ UNCHANGED <<marks, identified, suppressed>>
  BY DEF WithdrawShortlist, PrepareShortlist, MarkPending, WriteShortlist, AskApproval,
     CancelApprovals, profileVars, erasureVars
<1>1. shareApprovals' \in 0..MaxShares
  BY PrivacyAssumption DEF WithdrawShortlist, PrepareShortlist, MarkPending, WriteShortlist,
     AskApproval, CancelApprovals, PrivacyInv, TablesOK, SharesOK
<1>2. /\ shortlist' \in ShortlistStates \cup {"none"}
      /\ shortlist' = shortlist \/ shortlist' # "shared"
  <2>1. CASE WriteShortlist(c)
    <3>1. /\ desk[c] \in DeskRow /\ RowFits(desk[c])
          /\ "status" \in DOMAIN Plan[desk[c].task]
      BY <2>1, AdvanceOf DEF PrivacyInv, WriteShortlist, Statement
    <3>2. desk[c].task = "update"
      BY <3>1, PlanTable, ErasureTable DEF DeskRow, ErasureOrder
    <3> QED
      BY <2>1, <3>1, <3>2 DEF WriteShortlist, RowFits, ShortlistStates
  <2>2. CASE ~WriteShortlist(c)
    BY <2>2 DEF WithdrawShortlist, PrepareShortlist, MarkPending, AskApproval,
       CancelApprovals, PrivacyInv, TablesOK, SharesOK, ShortlistStates
  <2> QED
    BY <2>1, <2>2
<1>3. TablesOK' /\ DocumentsOK' /\ Rows' = Rows
  BY <1>0, <1>1, <1>2, PrivacyStays DEF PrivacyInv, TablesOK, SharesOK, RequestOK
<1>4. Keeps
  BY <1>0, <1>2, KeepsIf
<1>5. Done'
  BY <1>0, <1>4, DoneStays DEF PrivacyInv, Done
<1>6. CASE Leave(c)
  BY <1>0, <1>3, <1>4, <1>5, <1>6, Leaves
<1>7. CASE ~Leave(c)
  <2>1. PICK s \in {"shortlist", "prepare", "pending", "status", "ask", "approvals"} :
          Advance(c, s) /\ (s = "shortlist" => shortlist' # "shared")
    BY <1>7 DEF WithdrawShortlist, PrepareShortlist, MarkPending, WriteShortlist,
       AskApproval, CancelApprovals
  <2> QED
    BY <1>3, <1>4, <1>5, <2>1, Walks DEF Statement
<1> QED
  BY <1>6, <1>7

\* Recording a withdrawal or an erasure keeps it: every step of it was done before.
LEMMA OnTheRecord ==
  ASSUME PrivacyInv, NEW c \in Clerk, RecordAudit(c) \/ ResolveRequest(c)
  PROVE  PrivacyInv'
<1>0. /\ UNCHANGED <<profileVars, shareVars, document>>
      /\ UNCHANGED <<marks, identified, suppressed, shortlist>>
  BY DEF RecordAudit, ResolveRequest, profileVars, shareVars
<1>1. Keeps
  BY <1>0, KeepsIf
<1>2. CASE RecordAudit(c)
  <2>1. Advance(c, "audit") /\ "audit" \in Statement
    BY <1>2 DEF RecordAudit, Statement
  <2>2. /\ desk[c] \in DeskRow /\ desk[c].step = "audit"
        /\ "audit" \in DOMAIN Plan[desk[c].task]
    BY <2>1, AdvanceOf DEF PrivacyInv
  <2>3. desk[c].task \in {"withdraw", "erase"}
    BY <2>2, PlanTable DEF DeskRow
  <2>4. Marked(desk[c]) /\ Unshared(desk[c])
    BY <2>2, <2>3 DEF Marked, Unshared, ErasureOrder
  <2>5. marks # {} /\ shortlist # "shared"
    BY <2>4 DEF PrivacyInv, RowSound
  <2>6. TablesOK' /\ DocumentsOK' /\ Rows' = Rows
    BY <1>0, <1>2, <2>3, PrivacyStays DEF RecordAudit, PrivacyInv, TablesOK, RequestOK
  <2>7. Done'
    BY <1>0, <1>2, <2>5 DEF RecordAudit, Done, PrivacyInv
  <2> QED
    BY <1>1, <2>1, <2>6, <2>7, Walks
<1>3. CASE ResolveRequest(c)
  <2>1. Advance(c, "resolve") /\ "resolve" \in Statement
    BY <1>3 DEF ResolveRequest, Statement
  <2>2. /\ desk[c] \in DeskRow /\ desk[c].step = "resolve"
        /\ "resolve" \in DOMAIN Plan[desk[c].task]
    BY <2>1, AdvanceOf DEF PrivacyInv
  <2>3. desk[c].task = "erase"
    BY <2>2, PlanTable DEF DeskRow
  <2>4. ~identified /\ "deleted" \in marks
    BY <2>2, <2>3 DEF PrivacyInv, RowSound, Erased
  <2>5. TablesOK' /\ DocumentsOK' /\ Rows' = Rows
    BY <1>0, <1>3, PrivacyStays DEF ResolveRequest, PrivacyInv, TablesOK, RequestOK,
       RequestStatus
  <2>6. Done'
    BY <1>0, <1>3, <2>4 DEF ResolveRequest, Done, PrivacyInv
  <2> QED
    BY <1>1, <2>1, <2>5, <2>6, Walks
<1> QED
  BY <1>2, <1>3
-----------------------------------------------------------------------------
(* The statements that write to the documents.                             *)

\* Tables that no statement touches keep their parts.
LEMMA TablesRest ==
  ASSUME PrivacyInv, UNCHANGED <<profileVars, shareVars, recorded>>,
         \/ deletionRequest' = deletionRequest
         \/ deletionRequest' \in RequestStatus \ {"resolved"}
  PROVE  Keeps /\ TablesOK' /\ Done'
<1>1. UNCHANGED <<marks, identified, suppressed, shortlist>>
  BY DEF profileVars, shareVars
<1>2. Keeps
  BY <1>1, KeepsIf
<1>3. TablesOK'
  BY PrivacyStays DEF PrivacyInv, TablesOK, RequestOK
<1>4. Done'
  BY <1>1 DEF PrivacyInv, Done
<1> QED
  BY <1>2, <1>3, <1>4

\* Who is at which statement.
LEMMA WhoIsAt ==
  ASSUME PrivacyInv, NEW c \in Clerk
  PROVE  /\ At(c, "put") \/ At(c, "insert") => desk[c].task = "upload"
         /\ At(c, "verdict") => desk[c].task = "scan"
         /\ At(c, "list") \/ At(c, "objects") \/ At(c, "rows") => desk[c].task = "erase"
<1>1. desk[c].task \in Task /\ desk[c].step \in {NoOne} \cup DOMAIN Plan[desk[c].task]
  BY DEF PrivacyInv, DeskOK, RowFits, DeskRow
<1>2. CASE desk[c].task = "erase"
  BY <1>1, <1>2, PlanTable, ErasureTable DEF At, ErasureOrder, NoOne
<1>3. CASE desk[c].task # "erase"
  BY <1>1, <1>3, PlanTable DEF At, NoOne
<1> QED
  BY <1>2, <1>3

\* Writes of stored files and verdicts keep the invariant.
LEMMA OnTheDocuments ==
  ASSUME PrivacyInv, NEW c \in Clerk,
         \/ PutObject(c) \/ RecordVerdict(c) \/ ObjectsGone(c) \/ RowsRedacted(c)
  PROVE  PrivacyInv'
<1>0. UNCHANGED <<profileVars, shareVars, recorded, deletionRequest>>
  BY DEF PutObject, RecordVerdict, ObjectsGone, RowsRedacted, erasureVars
<1>1. Keeps /\ TablesOK' /\ Done'
  BY <1>0, TablesRest
<1>2. CASE PutObject(c)
  <2>1. /\ document' \in [Document -> DocumentRow]
        /\ \A d \in Document : document'[d].scan = document[d].scan
    BY <1>2 DEF PutObject, PrivacyInv, DocumentsOK, DocumentRow
  <2>2. DocumentsOK' /\ Rows' = Rows
    BY <2>1 DEF DocumentsOK, Rows
  <2> QED
    BY <1>1, <1>2, <2>2, Walks DEF PutObject, Statement
<1>3. CASE RecordVerdict(c)
  <2>1. PICK d \in desk[c].docs, v \in {"clean", "flagged"} :
          /\ Advance(c, "verdict")
          /\ document' = IF StillToScan(d) THEN [document EXCEPT ![d].scan = v] ELSE document
    BY <1>3 DEF RecordVerdict
  <2>2. d \in Rows
    BY <2>1, WhoIsAt DEF Advance, PrivacyInv, DocsApart
  <2>3. /\ document' \in [Document -> DocumentRow]
        /\ \A e \in Document : e # d => document'[e].scan = document[e].scan
        /\ document'[d].scan # "none"
    BY <2>1, <2>2 DEF PrivacyInv, DocumentsOK, DocumentRow, Rows
  <2>4. DocumentsOK' /\ Rows' = Rows
    BY <2>2, <2>3 DEF DocumentsOK, Rows
  <2> QED
    BY <1>1, <2>1, <2>4, Walks DEF Statement
<1>4. CASE ObjectsGone(c) \/ RowsRedacted(c)
  <2>1. DocumentsOK' /\ Rows' = Rows
    BY <1>4, PrivacyStays DEF ObjectsGone, RowsRedacted, erasureVars, PrivacyInv
  <2> QED
    BY <1>1, <1>4, <2>1, Walks DEF ObjectsGone, RowsRedacted, Statement
<1> QED
  BY <1>2, <1>3, <1>4

\* Inserting a document's row keeps it.
LEMMA OnTheRows ==
  ASSUME PrivacyInv, NEW c \in Clerk, InsertDocument(c)
  PROVE  PrivacyInv'
<1>1. Keeps /\ TablesOK' /\ Done'
  BY TablesRest DEF InsertDocument
<1>2. /\ desk[c].task = "upload" /\ Advance(c, "insert") /\ "insert" \in Statement
      /\ Plan[desk[c].task]["insert"] = NoOne
  BY WhoIsAt, PlanTable DEF InsertDocument, Advance, Statement
<1>3. OnlyDesk(c, Idle)
  BY <1>2, AdvanceOf DEF Onward, PrivacyInv
<1>4. /\ document' \in [Document -> DocumentRow]
      /\ \A d \in desk[c].docs : document'[d].scan = "pending"
      /\ \A d \in Document \ desk[c].docs : document'[d].scan = document[d].scan
  <2>1. desk[c].docs \subseteq Document
    BY <1>2, AdvanceOf DEF PrivacyInv, DeskRow
  <2> QED
    BY <2>1 DEF InsertDocument, PrivacyInv, DocumentsOK, DocumentRow
<1>5. DocumentsOK'
  BY <1>4 DEF DocumentsOK
<1>6. /\ Rows \subseteq Rows' /\ Rows' \subseteq Rows \cup desk[c].docs
  BY <1>4 DEF Rows
<1>7. DocsApart'
  <2>1. desk'[c] = Idle /\ \A b \in Clerk \ {c} : desk'[b] = desk[b]
    BY <1>3 DEF OnlyDesk
  <2>2. ASSUME NEW b \in Clerk
        PROVE  IF desk'[b].task = "upload" THEN desk'[b].docs \cap Rows' = {}
               ELSE desk'[b].docs \subseteq Rows'
    <3>1. CASE b = c
      BY <2>1, <3>1, IdleDocs
    <3>2. CASE b # c /\ desk[b].task = "upload"
      BY <1>2, <1>6, <2>1, <3>2 DEF PrivacyInv, DocsApart
    <3>3. CASE b # c /\ desk[b].task # "upload"
      BY <1>6, <2>1, <3>3 DEF PrivacyInv, DocsApart
    <3> QED
      BY <3>1, <3>2, <3>3
  <2>3. ASSUME NEW a \in Clerk, NEW b \in Clerk, a # b, desk'[a].task = "upload",
               desk'[b].task = "upload"
        PROVE  desk'[a].docs \cap desk'[b].docs = {}
    BY <2>1, <2>3, IdleDocs DEF PrivacyInv, DocsApart
  <2> QED
    BY <2>2, <2>3 DEF DocsApart
<1> QED
  BY <1>1, <1>3, <1>5, <1>7, IdleSound, PrivacyParts

\* Deleting a file and redacting its row keep it.
LEMMA OnTheObjects ==
  ASSUME PrivacyInv, NEW c \in Clerk, DeleteObject(c) \/ RedactDocument(c)
  PROVE  PrivacyInv'
<1>0. UNCHANGED <<profileVars, shareVars, recorded, deletionRequest, desk>>
  BY DEF DeleteObject, RedactDocument
<1>1. Keeps /\ TablesOK' /\ Done'
  BY <1>0, TablesRest
<1>2. PICK d \in desk[c].docs :
        \/ document' = [document EXCEPT ![d].stored = FALSE] /\ At(c, "objects")
        \/ /\ document' = [document EXCEPT ![d].scan = "redacted", ![d].data = FALSE]
           /\ At(c, "rows")
  BY DEF DeleteObject, RedactDocument
<1>3. d \in Rows
  BY <1>2, WhoIsAt DEF PrivacyInv, DocsApart
<1>4. document \in [Document -> DocumentRow] /\ d \in Document /\ document[d].scan # "none"
  BY <1>3 DEF PrivacyInv, DocumentsOK, Rows
<1>5. PICK entry \in DocumentRow : document' = [document EXCEPT ![d] = entry]
                                      /\ entry.scan # "none"
  <2>1. document[d] \in DocumentRow
    BY <1>4
  <2>2. CASE document' = [document EXCEPT ![d].stored = FALSE]
    <3>1. [document[d] EXCEPT !.stored = FALSE] \in DocumentRow
          /\ [document[d] EXCEPT !.stored = FALSE].scan # "none"
      BY <1>4, <2>1 DEF DocumentRow
    <3> QED
      BY <2>2, <3>1
  <2>3. CASE document' = [document EXCEPT ![d].scan = "redacted", ![d].data = FALSE]
    <3>1. [document[d] EXCEPT !.scan = "redacted", !.data = FALSE] \in DocumentRow
          /\ [document[d] EXCEPT !.scan = "redacted", !.data = FALSE].scan # "none"
      BY <2>1 DEF DocumentRow
    <3>2. document' = [document EXCEPT ![d] = [document[d] EXCEPT !.scan = "redacted",
                                                                  !.data = FALSE]]
      BY <1>4, <2>3
    <3> QED
      BY <3>1, <3>2
  <2> QED
    BY <1>2, <2>2, <2>3
<1>6. /\ document' \in [Document -> DocumentRow]
      /\ \A e \in Document : e # d => document'[e].scan = document[e].scan
      /\ document'[d].scan # "none"
  BY <1>4, <1>5
<1>7. DocumentsOK' /\ Rows' = Rows
  BY <1>3, <1>6 DEF DocumentsOK, Rows
<1> QED
  BY <1>0, <1>1, <1>7, DeskRests

\* Listing the documents of an erasure keeps it.
LEMMA ListsDocuments ==
  ASSUME PrivacyInv, NEW c \in Clerk, ListDocuments(c)
  PROVE  PrivacyInv'
<1>1. UNCHANGED <<profileVars, shareVars, recorded, deletionRequest, document>>
  BY DEF ListDocuments, erasureVars
<1>2. Keeps /\ TablesOK' /\ Done' /\ DocumentsOK' /\ Rows' = Rows
  BY <1>1, TablesRest, PrivacyStays DEF PrivacyInv
<1>3. desk[c] \in DeskRow /\ desk[c].task = "erase" /\ desk[c].step = "list"
      /\ RowFits(desk[c]) /\ RowSound(desk[c]) /\ desk \in [Clerk -> DeskRow]
  BY WhoIsAt DEF ListDocuments, At, PrivacyInv, DeskOK
<1> DEFINE entry == [desk[c] EXCEPT !.docs = Rows, !.step = "objects"]
<1>4. /\ entry \in DeskRow /\ entry.task = "erase" /\ entry.step = "objects" /\ entry.docs = Rows
      /\ entry.aim = desk[c].aim /\ entry.hashed = desk[c].hashed
  BY <1>3 DEF DeskRow, Statement, Rows
<1>5. desk' = [desk EXCEPT ![c] = entry]
  BY <1>3 DEF ListDocuments
<1>6. PICK new : new = entry
  OBVIOUS
<1> HIDE DEF entry
<1>7. RowFits(new)
  BY <1>3, <1>4, <1>6, PlanTable, ErasureTable DEF RowFits, ErasureOrder
<1>8. OnlyDesk(c, new)
  BY <1>4, <1>5, <1>6, <1>7, DeskSet DEF PrivacyInv
<1>9. RowSound(new)
  BY <1>3, <1>4, <1>6 DEF RowSound, Marked, Unshared, Listed, Erased, ErasureOrder, NoOne
<1>10. RowSound(new)'
  BY <1>2, <1>9, SoundStays
<1>11. DocsApart'
  BY <1>2, <1>4, <1>6, <1>8, DocsStay DEF PrivacyInv
<1> QED
  BY <1>2, <1>8, <1>10, <1>11, PrivacyParts

\* A failed deletion or an abandoned handler keeps it.
LEMMA GivesUp ==
  ASSUME PrivacyInv, NEW c \in Clerk, DeletionFails(c) \/ Abandon(c)
  PROVE  PrivacyInv'
<1>1. Leave(c) /\ UNCHANGED <<profileVars, shareVars, recorded, document>>
  BY DEF DeletionFails, Abandon, erasureVars
<1>2. \/ deletionRequest' = deletionRequest
      \/ deletionRequest' \in RequestStatus \ {"resolved"}
  BY DEF DeletionFails, Abandon, RequestStatus, erasureVars
<1>3. Keeps /\ TablesOK' /\ Done'
  BY <1>1, <1>2, TablesRest
<1> QED
  BY <1>1, <1>3, Leaves

\* What happens outside the handlers keeps it.
LEMMA NotTheClerks ==
  ASSUME PrivacyInv,
         \/ ConsentExpires \/ ApproveShare \/ RejectShare \/ RequestDeletion
         \/ (\E d \in Document : ApplyParse(d)) \/ UNCHANGED privacyVars
  PROVE  PrivacyInv'
<1>1. CASE ConsentExpires
  <2>1. /\ UNCHANGED <<profileState, marks, identified, suppressed, shareVars, document>>
        /\ UNCHANGED <<deletionRequest, recorded, shortlist, desk>>
        /\ consents' \subseteq consents
    BY <1>1 DEF ConsentExpires, shareVars, erasureVars
  <2>2. TablesOK' /\ DocumentsOK' /\ Rows' = Rows
    BY <2>1, PrivacyStays DEF PrivacyInv, TablesOK, ProfileOK, RequestOK
  <2>3. Keeps
    BY <2>1, KeepsIf
  <2>4. Done'
    BY <2>1, <2>3, DoneStays DEF PrivacyInv, Done
  <2> QED
    BY <2>1, <2>2, <2>3, <2>4, DeskRests
<1>2. CASE ApproveShare \/ RejectShare
  <2>1. /\ UNCHANGED <<profileVars, document, deletionRequest, recorded, desk>>
        /\ UNCHANGED <<marks, identified, suppressed>>
    BY <1>2 DEF ApproveShare, RejectShare, profileVars, erasureVars
  <2>2. shortlist' = shortlist \/ marks = {}
    BY <1>2 DEF ApproveShare, RejectShare, SharingEligible
  <2>3. Keeps
    BY <2>1, <2>2 DEF Keeps
  <2>4. /\ shareApprovals' \in 0..MaxShares
        /\ shortlist' \in ShortlistStates \cup {"none"}
    BY <1>2, PrivacyAssumption DEF ApproveShare, RejectShare, PrivacyInv, TablesOK, SharesOK,
       ShortlistStates
  <2>5. TablesOK' /\ DocumentsOK' /\ Rows' = Rows
    BY <2>1, <2>4, PrivacyStays DEF PrivacyInv, TablesOK, SharesOK, RequestOK
  <2>6. Done'
    BY <2>1, <2>3, DoneStays DEF PrivacyInv, Done
  <2> QED
    BY <2>1, <2>3, <2>5, <2>6, DeskRests
<1>3. CASE RequestDeletion \/ UNCHANGED privacyVars
  <2>1. UNCHANGED <<profileVars, shareVars, document, recorded, desk>>
    BY <1>3 DEF RequestDeletion, privacyVars, erasureVars
  <2>2. \/ deletionRequest' = deletionRequest
        \/ deletionRequest' \in RequestStatus \ {"resolved"}
    BY <1>3 DEF RequestDeletion, RequestStatus, privacyVars, erasureVars
  <2> QED
    BY <2>1, <2>2, TablesRest, PrivacyStays, DeskRests DEF PrivacyInv
<1>4. ASSUME NEW d \in Document, ApplyParse(d) PROVE PrivacyInv'
  <2>1. UNCHANGED <<profileVars, shareVars, deletionRequest, recorded, desk>>
    BY <1>4 DEF ApplyParse
  <2>2. /\ document' \in [Document -> DocumentRow]
        /\ \A e \in Document : document'[e].scan = document[e].scan
    BY <1>4 DEF ApplyParse, PrivacyInv, DocumentsOK, DocumentRow
  <2>3. DocumentsOK' /\ Rows' = Rows
    BY <2>2 DEF DocumentsOK, Rows
  <2> QED
    BY <2>1, <2>3, TablesRest, DeskRests
<1> QED
  BY <1>1, <1>2, <1>3, <1>4

\* The invariant holds in every reachable state of the candidate's data.
LEMMA PrivacyInvariant == PrivacySpec => []PrivacyInv
<1>1. PrivacyInv /\ [PrivacyNext]_privacyVars => PrivacyInv'
  <2> SUFFICES ASSUME PrivacyInv, [PrivacyNext]_privacyVars PROVE PrivacyInv'
    OBVIOUS
  <2>1. ASSUME NEW c \in Clerk, Serve(c) PROVE PrivacyInv'
    BY <2>1, PrivacyArrivals, UploadArrives, OnTheProfile, OnTheMarks, OnTheList,
       OnTheIdentity, OnTheShortlist, OnTheRecord, OnTheDocuments, OnTheRows, OnTheObjects,
       ListsDocuments, GivesUp DEF Serve
  <2> QED
    BY <2>1, NotTheClerks DEF PrivacyNext
<1> QED
  BY <1>1, PrivacyInvInit, PTL DEF PrivacySpec

\* Type correctness of the candidate's tables and of the desk.
THEOREM PrivacyTypeCorrect == PrivacySpec => []PrivacyTypeOK
<1>1. PrivacyInv => PrivacyTypeOK
  <2> SUFFICES ASSUME PrivacyInv PROVE PrivacyTypeOK
    OBVIOUS
  <2>1. ASSUME NEW c \in Clerk
        PROVE  /\ desk[c].task \in Task
               /\ desk[c].step \in {NoOne} \cup DOMAIN Plan[desk[c].task]
               /\ desk[c].hashed \in BOOLEAN /\ desk[c].docs \subseteq Document
    BY DEF PrivacyInv, DeskOK, DeskRow, RowFits
  <2> QED
    BY <2>1, PrivacyStates DEF PrivacyInv, TablesOK, ProfileOK, SharesOK, RequestOK,
       DocumentsOK, PrivacyTypeOK, ShareStatus
<1> QED
  BY <1>1, PrivacyInvariant, PTL

\* Whatever requests died half way and were made again, what the audit records as done is
\* done: nothing of a candidate who left is with the client, and a resolved deletion left
\* no identity, the mark and the suppressed contact (recruitment.ts:485,
\* candidateWorkflows.ts:124, :176).
THEOREM WhatIsRecordedIsDone == PrivacySpec => []RecordedMeansDone
<1>1. PrivacyInv => RecordedMeansDone
  BY DEF PrivacyInv, Done, RecordedMeansDone
<1> QED
  BY <1>1, PrivacyInvariant, PTL

\* What erasure blanked stays blank: a scan or a parse under way, or an upload of its own,
\* writes to other documents (candidateWorkflows.ts:132, documentScanner.ts:133).
THEOREM RedactedForGood == PrivacySpec => RedactedIsFinal
<1>1. ASSUME PrivacyInv, [PrivacyNext]_privacyVars, NEW d \in Document, document[d] = Redacted
      PROVE  document'[d] = Redacted
  <2>0. document[d].scan = "redacted" /\ d \in Rows /\ document \in [Document -> DocumentRow]
    BY <1>1 DEF Redacted, Rows, PrivacyInv, DocumentsOK
  <2>1. ASSUME NEW c \in Clerk, PutObject(c) \/ InsertDocument(c)
        PROVE  document'[d] = Redacted
    <3>1. desk[c].task = "upload"
      BY <1>1, <2>1, WhoIsAt DEF PutObject, InsertDocument, Advance
    <3>2. d \notin desk[c].docs
      BY <1>1, <2>0, <3>1 DEF PrivacyInv, DocsApart
    <3> QED
      BY <1>1, <2>1, <3>2 DEF PutObject, InsertDocument
  <2>2. ASSUME NEW c \in Clerk, RecordVerdict(c)
        PROVE  document'[d] = Redacted
    BY <1>1, <2>0, <2>2 DEF RecordVerdict, StillToScan
  <2>3. ASSUME NEW c \in Clerk, DeleteObject(c)
        PROVE  document'[d] = Redacted
    <3>1. PICK e \in {x \in desk[c].docs : document[x].stored} :
            document' = [document EXCEPT ![e].stored = FALSE]
      BY <2>3 DEF DeleteObject
    <3>2. e # d
      BY <1>1, <3>1 DEF Redacted
    <3> QED
      BY <1>1, <2>0, <3>1, <3>2
  <2>4. ASSUME NEW c \in Clerk, RedactDocument(c)
        PROVE  document'[d] = Redacted
    BY <1>1, <2>0, <2>4 DEF RedactDocument
  <2>5. ASSUME NEW e \in Document, ApplyParse(e)
        PROVE  document'[d] = Redacted
    BY <1>1, <2>0, <2>5 DEF ApplyParse, MayHoldData
  <2>6. CASE UNCHANGED document
    BY <1>1, <2>6
  <2> QED
    BY <1>1, <2>1, <2>2, <2>3, <2>4, <2>5, <2>6 DEF PrivacyNext, Serve, AskTransition,
       GrantConsent, InsertConsent, WriteState, Withdraw, DoNotContact, MarkCandidate,
       WithdrawConsents, Suppress, WithdrawShortlist, RecordAudit, RequestShareApproval,
       RequestCandidateShare, PrepareShortlist, AskApproval, MarkPending, UpdateShortlist,
       WriteShortlist, Upload, ReadForScan, FulfilDeletion, CancelApprovals, ListDocuments,
       ObjectsGone, DeletionFails, RowsRedacted, RedactCandidate, ResolveRequest, Abandon,
       ConsentExpires, ApproveShare, RejectShare, RequestDeletion, erasureVars, privacyVars
<1>2. PrivacyInv /\ [PrivacyNext]_privacyVars
        => [\A d \in Document : document[d] = Redacted => document'[d] = Redacted]_privacyVars
  BY <1>1
<1> QED
  BY <1>2, PrivacyInvariant, PTL DEF PrivacySpec, RedactedIsFinal

-----------------------------------------------------------------------------
(* CalendarMirror: what the records hold.                                  *)

MeetingRow == [version : Nat, cancelled : BOOLEAN]
PreviewRow == [revision : Nat, calendar : CalendarId, meeting : MeetingRow]
KeyRow == [policy : Nat, preview : PreviewRow]
ContentRow == [version : Int, cancelled : BOOLEAN]
EventRow == [content : ContentRow, etag : Nat]
SyncStep == {"asked", "leased", "fetched", "posting", "created", "patching", "saved"}
SyncRow ==
  [step : SyncStep, mode : {"manual", "automatic"}, policy : Nat, preview : PreviewRow,
   revision : Nat, data : EventRow, approved : Nat]
ConnectionRow ==
  [status : {"active", "disconnected", "needs_reconnect"}, revision : Nat,
   calendar : CalendarId, tokens : BOOLEAN, lease : Sync \cup {Nobody}, fresh : BOOLEAN]
FlowRow == [step : {"none", "open", "claimed"}, revision : Nat, overtaken : BOOLEAN]
TaskStates == {"queued", "running", "done", "failed", "cancelled"}

\* The owner's side.  Who holds the lease has tokens, and an authorization that
\* was overtaken belongs to an earlier revision.
FlowFits(f) ==
  flow[f].step # "none" => /\ flow[f].revision <= connection.revision
                           /\ flow[f].overtaken => flow[f].revision < connection.revision
ConnectionOK ==
  /\ connection \in ConnectionRow /\ flow \in [Flow -> FlowRow]
  /\ connection.lease # Nobody => connection.tokens
  /\ \A f \in Flow : FlowFits(f)
OwnerOK ==
  /\ resource \in {"interview", "client_discovery"} /\ stopped \in BOOLEAN
  /\ meeting \in MeetingRow
  /\ policy \in [enabled : BOOLEAN, revision : Nat, connection : Nat]
  /\ policy.connection <= connection.revision
OwnersSide == ConnectionOK /\ OwnerOK

\* Whatever happens, an earlier revision or version never comes back, and a later
\* one is told by its number.
MovesOn ==
  /\ resource' = resource
  /\ policy.revision <= policy'.revision
  /\ policy'.revision = policy.revision => policy' = policy
  /\ connection.revision <= connection'.revision
  /\ connection'.revision = connection.revision =>
       connection'.status = connection.status /\ connection'.calendar = connection.calendar
  /\ meeting.version <= meeting'.version
  /\ meeting'.version = meeting.version => meeting' = meeting

\* Renewing the connection ends the lease and raises the revision.
LEMMA RenewFits ==
  ASSUME ConnectionOK, NEW fields \in ConnectionRow, Renew(fields)
  PROVE  /\ connection' \in ConnectionRow /\ connection'.lease = Nobody
         /\ connection'.revision = fields.revision + 1
         /\ connection'.status = fields.status /\ connection'.calendar = fields.calendar
         /\ connection'.tokens = fields.tokens
<1>1. /\ connection'.revision = fields.revision + 1 /\ connection'.lease = Nobody
      /\ connection'.status = fields.status /\ connection'.calendar = fields.calendar
  BY DEF Renew, ConnectionRow
<1>2. connection'.tokens = fields.tokens
  BY Zenon DEF Renew, ConnectionRow
<1>3. connection'.fresh = fields.fresh
  BY Zenon DEF Renew, ConnectionRow
<1>4. connection' \in ConnectionRow
  <2>1. fields.revision + 1 \in Nat
    BY DEF ConnectionRow
  <2> QED
    BY <2>1 DEF Renew, ConnectionRow
<1> QED
  BY <1>1, <1>2, <1>4

\* An overtaken flow is of an earlier revision.
LEMMA OvertakenFits ==
  ASSUME ConnectionOK, NEW f \in Flow
  PROVE  /\ Overtake(f) \in FlowRow
         /\ Overtake(f).step # "none" => Overtake(f).revision <= connection.revision
BY DEF ConnectionOK, Overtake, FlowRow, NoFlow, FlowFits

Renews == \E fields \in ConnectionRow : Renew(fields) /\ fields.revision = connection.revision
OwnerRests == UNCHANGED <<resource, meeting, stopped, policy>>

\* Steps that renew the connection.
LEMMA OwnersRenewals ==
  ASSUME OwnersSide,
         \/ \E f \in Flow : BeginConnect(f) \/ CompleteConnect(f)
         \/ \E c \in CalendarId : ConfigureCalendar(c)
         \/ DisconnectCalendar
         \/ \E s \in Sync : LoseAuthorization(s)
  PROVE  OwnersSide' /\ MovesOn
<1>0. /\ connection \in ConnectionRow /\ flow \in [Flow -> FlowRow]
      /\ connection.revision \in Nat /\ OwnerOK /\ ConnectionOK
      /\ \A f \in Flow : flow[f].step # "none" => flow[f].revision <= connection.revision
  BY DEF OwnersSide, ConnectionOK, ConnectionRow, FlowFits
<1>1. Renews
  <2>1. ASSUME NEW f \in Flow, BeginConnect(f) PROVE Renews
    BY <1>0, <2>1 DEF BeginConnect, Renews
  <2>2. ASSUME NEW fields, Renew(fields), fields \in ConnectionRow,
               fields.revision = connection.revision
        PROVE  Renews
    BY <2>2 DEF Renews
  <2>3. ASSUME NEW f \in Flow, CompleteConnect(f) PROVE Renews
    BY <1>0, <2>2, <2>3 DEF CompleteConnect, ConnectionRow
  <2>4. ASSUME NEW c \in CalendarId, ConfigureCalendar(c) PROVE Renews
    BY <1>0, <2>2, <2>4 DEF ConfigureCalendar, ConnectionRow
  <2>5. CASE DisconnectCalendar
    BY <1>0, <2>2, <2>5 DEF DisconnectCalendar, ConnectionRow
  <2>6. ASSUME NEW s \in Sync, LoseAuthorization(s) PROVE Renews
    BY <1>0, <2>2, <2>6 DEF LoseAuthorization, ConnectionRow
  <2> QED
    BY <2>1, <2>3, <2>4, <2>5, <2>6
<1>2. /\ connection' \in ConnectionRow /\ connection'.lease = Nobody
      /\ connection'.revision = connection.revision + 1
  BY <1>0, <1>1, RenewFits DEF Renews
<1>3. OwnerRests
  BY DEF BeginConnect, CompleteConnect, ConfigureCalendar, DisconnectCalendar,
         LoseAuthorization, EndWith, ownerVars, taskVars, OwnerRests
<1>4. ASSUME NEW f \in Flow PROVE flow'[f] \in FlowRow /\ FlowFits(f)'
  <2> DEFINE opened ==
        [step |-> "open", revision |-> connection.revision + 1, overtaken |-> FALSE]
  <2>1. flow'[f] \in {opened, Overtake(f), flow[f], NoFlow}
    <3>1. ASSUME NEW g \in Flow, BeginConnect(g) PROVE flow'[f] \in {opened, Overtake(f)}
      BY <3>1 DEF BeginConnect, NoFlow
    <3>2. ASSUME NEW g \in Flow, CompleteConnect(g) PROVE flow'[f] \in {flow[f], NoFlow}
      BY <1>0, <3>2 DEF CompleteConnect
    <3>3. CASE DisconnectCalendar
      BY <3>3 DEF DisconnectCalendar
    <3>4. CASE \E c \in CalendarId : ConfigureCalendar(c)
      BY <3>4 DEF ConfigureCalendar
    <3>5. CASE \E s \in Sync : LoseAuthorization(s)
      BY <3>5 DEF LoseAuthorization, EndWith
    <3> QED
      BY <3>1, <3>2, <3>3, <3>4, <3>5
  <2>2. flow'[f] \in FlowRow
    <3>1. opened \in FlowRow /\ NoFlow \in FlowRow
      BY <1>0 DEF NoFlow, FlowRow
    <3> HIDE DEF opened
    <3> QED
      BY <1>0, <2>1, <3>1, OvertakenFits
  <2>5. \/ flow'[f].step = "none" \/ flow'[f].revision <= connection.revision
        \/ flow'[f].revision = connection.revision + 1 /\ ~flow'[f].overtaken
    BY <1>0, <2>1, OvertakenFits DEF NoFlow, FlowRow
  <2>3. flow'[f].revision \in Nat
    BY <2>2 DEF FlowRow
  <2> QED
    BY <1>0, <1>2, <2>2, <2>3, <2>5 DEF FlowFits
<1>5. flow' \in [Flow -> FlowRow]
  BY <1>0, <1>4 DEF BeginConnect, CompleteConnect, ConfigureCalendar, DisconnectCalendar,
              LoseAuthorization, EndWith
<1>6. ConnectionOK'
  BY <1>2, <1>4, <1>5 DEF ConnectionOK
<1>7. OwnerOK' /\ MovesOn
  BY <1>0, <1>2, <1>3 DEF OwnerOK, OwnerRests, MovesOn, MeetingRow
<1> QED
  BY <1>6, <1>7 DEF OwnersSide

\* The other steps that touch the connection: it keeps its revision, and only
\* TakeLease gives the lease to somebody.
LEMMA OwnersRest ==
  ASSUME OwnersSide,
         \/ UNCHANGED <<ownerVars, connectVars, policy>>
         \/ UNCHANGED <<ownerVars, flow, policy>> /\ \E s \in Sync : connection' = Release(s)
         \/ \E f \in Flow : ClaimState(f) \/ AbandonConnect(f)
         \/ LeaseRunsOut
         \/ \E s \in Sync : TakeLease(s) \/ RefreshTokens(s)
  PROVE  OwnersSide' /\ MovesOn
<1>0. /\ connection \in ConnectionRow /\ flow \in [Flow -> FlowRow]
      /\ connection.revision \in Nat /\ policy.revision \in Nat /\ meeting.version \in Nat
      /\ OwnerOK /\ ConnectionOK
  BY DEF OwnersSide, ConnectionOK, ConnectionRow, OwnerOK, MeetingRow
<1>1. OwnerRests
  BY DEF ClaimState, AbandonConnect, LeaseRunsOut, TakeLease, RefreshTokens, ownerVars,
         taskVars, OwnerRests
<1>2. /\ connection' \in ConnectionRow
      /\ connection'.revision = connection.revision
      /\ connection'.status = connection.status /\ connection'.calendar = connection.calendar
  <2>1. CASE connection' = connection
    BY <1>0, <2>1
  <2>2. ASSUME NEW s \in Sync, connection' = Release(s) PROVE <1>2!:
    BY <1>0, <2>2 DEF Release, ConnectionRow
  <2>3. CASE LeaseRunsOut
    BY <1>0, <2>3 DEF LeaseRunsOut, ConnectionRow
  <2>4. ASSUME NEW s \in Sync, TakeLease(s) PROVE <1>2!:
    BY <1>0, <2>4 DEF TakeLease, ConnectionRow
  <2>5. ASSUME NEW s \in Sync, RefreshTokens(s) PROVE <1>2!:
    BY <1>0, <2>5 DEF RefreshTokens, ConnectionRow
  <2> QED
    BY <2>1, <2>2, <2>3, <2>4, <2>5 DEF ClaimState, AbandonConnect, connectVars
<1>3. connection'.lease # Nobody => connection'.tokens
  <2>1. CASE connection' = connection
    BY <1>0, <2>1 DEF ConnectionOK
  <2>2. ASSUME NEW s \in Sync, connection' = Release(s) PROVE <1>3!:
    BY <1>0, <2>2, Zenon DEF Release, ConnectionRow, ConnectionOK
  <2>3. CASE LeaseRunsOut
    BY <1>0, <2>3, Zenon DEF LeaseRunsOut, ConnectionRow, ConnectionOK
  <2>4. ASSUME NEW s \in Sync, TakeLease(s) PROVE <1>3!:
    BY <1>0, <2>4, Zenon DEF TakeLease, ConnectionRow, ConnectionOK
  <2>5. ASSUME NEW s \in Sync, RefreshTokens(s) PROVE <1>3!:
    BY <1>0, <2>5, Zenon DEF RefreshTokens, ConnectionRow, ConnectionOK
  <2> QED
    BY <2>1, <2>2, <2>3, <2>4, <2>5 DEF ClaimState, AbandonConnect, connectVars
<1>4. flow' \in [Flow -> FlowRow] /\ \A f \in Flow : FlowFits(f)'
  <2>1. CASE flow' = flow
    BY <1>0, <1>2, <2>1 DEF ConnectionOK, FlowFits
  <2>2. ASSUME NEW g \in Flow, NEW entry \in FlowRow, flow' = [flow EXCEPT ![g] = entry],
               entry.step # "none" => /\ flow[g].step # "none"
                                    /\ entry.revision = flow[g].revision
                                    /\ entry.overtaken = flow[g].overtaken
        PROVE  <1>4!:
    <3>1. flow' \in [Flow -> FlowRow]
      BY <1>0, <2>2
    <3>2. ASSUME NEW f \in Flow PROVE FlowFits(f)'
      BY <1>0, <1>2, <2>2 DEF ConnectionOK, FlowFits
    <3> QED
      BY <3>1, <3>2
  <2>3. ASSUME NEW f \in Flow, ClaimState(f) PROVE <1>4!:
    <3> DEFINE entry == [flow[f] EXCEPT !.step = "claimed"]
    <3>1. entry \in FlowRow /\ entry.revision = flow[f].revision
      BY <1>0 DEF FlowRow
    <3>2. entry.overtaken = flow[f].overtaken
      BY <1>0, Zenon DEF FlowRow
    <3>3. flow' = [flow EXCEPT ![f] = entry] /\ flow[f].step # "none"
      BY <2>3 DEF ClaimState
    <3> QED
      BY <2>2, <3>1, <3>2, <3>3
  <2>4. ASSUME NEW f \in Flow, AbandonConnect(f) PROVE <1>4!:
    BY <2>2, <2>4 DEF AbandonConnect, NoFlow, FlowRow
  <2> QED
    BY <2>1, <2>3, <2>4 DEF LeaseRunsOut, TakeLease, RefreshTokens, connectVars
<1>5. ConnectionOK'
  BY <1>2, <1>3, <1>4 DEF ConnectionOK
<1>6. OwnerOK' /\ MovesOn
  BY <1>0, <1>1, <1>2 DEF OwnerOK, OwnerRests, MovesOn
<1> QED
  BY <1>5, <1>6 DEF OwnersSide

\* The owner changes the meeting, the automation or the stop.
LEMMA OwnersChanges ==
  ASSUME OwnersSide,
         ChangeMeeting \/ SwitchStop \/ \E on \in BOOLEAN : ConfigureAutomation(on)
  PROVE  OwnersSide' /\ MovesOn
<1>0. /\ connection.revision \in Nat /\ policy.revision \in Nat /\ meeting.version \in Nat
      /\ OwnerOK /\ ConnectionOK
  BY DEF OwnersSide, ConnectionOK, ConnectionRow, OwnerOK, MeetingRow
<1>1. connection' = connection /\ flow' = flow /\ resource' = resource
  BY DEF ChangeMeeting, SwitchStop, ConfigureAutomation, connectVars, ownerVars
<1>2. ConnectionOK'
  BY <1>0, <1>1 DEF ConnectionOK, FlowFits
<1>3. CASE ChangeMeeting
  BY <1>0, <1>1, <1>2, <1>3 DEF ChangeMeeting, OwnersSide, OwnerOK, MovesOn, MeetingRow
<1>4. CASE SwitchStop
  <2>1. stopped' \in BOOLEAN
    BY <1>4, Zenon DEF SwitchStop
  <2> QED
    BY <1>0, <1>1, <1>2, <1>4, <2>1
       DEF SwitchStop, OwnersSide, OwnerOK, MovesOn, taskVars
<1>5. CASE \E on \in BOOLEAN : ConfigureAutomation(on)
  BY <1>0, <1>1, <1>2, <1>5
     DEF ConfigureAutomation, OwnersSide, OwnerOK, MovesOn, ownerVars
<1> QED
  BY <1>3, <1>4, <1>5

\* The owner's side of the invariant holds initially.
LEMMA OwnersSideInit == MirrorInit => OwnersSide
<1> SUFFICES ASSUME MirrorInit PROVE OwnersSide
  OBVIOUS
<1>1. PICK c \in CalendarId : connection \in {Disconnected(c), Connected(c)}
  BY DEF MirrorInit
<1>2. /\ Connected(c) \in ConnectionRow /\ Connected(c).lease = Nobody
      /\ Connected(c).revision = 1
  BY DEF Connected, ConnectionRow
<1>3. /\ Disconnected(c) \in ConnectionRow /\ Disconnected(c).lease = Nobody
      /\ Disconnected(c).revision = 1
  BY <1>2 DEF Disconnected, ConnectionRow
<1>4. flow \in [Flow -> FlowRow] /\ \A f \in Flow : FlowFits(f)
  BY DEF MirrorInit, NoFlow, FlowRow, FlowFits
<1>5. OwnerOK
  <2>1. meeting \in MeetingRow /\ stopped \in BOOLEAN
    BY DEF MirrorInit, MeetingRow
  <2>2. /\ policy \in [enabled : BOOLEAN, revision : Nat, connection : Nat]
        /\ policy.connection = 0
    BY DEF MirrorInit
  <2> QED
    BY <1>1, <1>2, <1>3, <2>1, <2>2 DEF MirrorInit, OwnerOK
<1> QED
  BY <1>1, <1>2, <1>3, <1>4, <1>5 DEF OwnersSide, ConnectionOK

\* What a sync does leaves the owner's side to itself, but for the lease.
SyncStepOf(s) ==
  \/ AskSync(s) \/ RunTask(s) \/ TakeLease(s) \/ RefreshTokens(s) \/ FetchEvent(s)
  \/ NothingToCancel(s) \/ CheckBeforeCreate(s) \/ PostEvent(s)
  \/ RecordCreation(s) \/ CheckBeforeUpdate(s) \/ PatchEvent(s) \/ RecordSync(s)
  \/ FailSync(s) \/ LoseAuthorization(s) \/ LoseAnswer(s) \/ CrashSync(s)

\* Every step keeps it, and revisions only grow.
LEMMA OwnersStep ==
  ASSUME OwnersSide, [MirrorNext]_mirrorVars
  PROVE  OwnersSide' /\ MovesOn
<1>1. ASSUME NEW s \in Sync, SyncStepOf(s), ~LoseAuthorization(s)
      PROVE  OwnersSide' /\ MovesOn
  <2>1. CASE AskSync(s) \/ RunTask(s) \/ FetchEvent(s) \/ CheckBeforeCreate(s) \/ PostEvent(s)
             \/ RecordCreation(s) \/ CheckBeforeUpdate(s) \/ PatchEvent(s)
    BY <2>1, OwnersRest DEF AskSync, RunTask, FetchEvent, CheckBeforeCreate, PostEvent,
       RecordCreation, CheckBeforeUpdate, PatchEvent, taskVars, connectVars
  <2>2. CASE CrashSync(s)
    BY <2>2, OwnersRest DEF CrashSync, EndWith, connectVars
  <2>3. CASE NothingToCancel(s) \/ RecordSync(s) \/ FailSync(s) \/ LoseAnswer(s)
    <3>1. UNCHANGED <<ownerVars, flow, policy>> /\ connection' = Release(s)
      BY <2>3 DEF NothingToCancel, RecordSync, FailSync, LoseAnswer, EndWith
    <3> QED
      BY <3>1, OwnersRest
  <2>4. CASE TakeLease(s) \/ RefreshTokens(s)
    BY <2>4, OwnersRest
  <2> QED
    BY <1>1, <2>1, <2>2, <2>3, <2>4 DEF SyncStepOf
<1>2. CASE UNCHANGED mirrorVars
  BY <1>2, OwnersRest DEF mirrorVars, connectVars, ownerVars, taskVars
<1>3. CASE EditOutside
  BY <1>3, OwnersRest DEF EditOutside, taskVars
<1>4. CASE \/ \E f \in Flow : BeginConnect(f) \/ CompleteConnect(f)
           \/ \E c \in CalendarId : ConfigureCalendar(c)
           \/ DisconnectCalendar
           \/ \E s \in Sync : LoseAuthorization(s)
  BY <1>4, OwnersRenewals
<1>5. CASE ChangeMeeting \/ SwitchStop \/ \E on \in BOOLEAN : ConfigureAutomation(on)
  BY <1>5, OwnersChanges
<1>6. CASE LeaseRunsOut \/ \E f \in Flow : ClaimState(f) \/ AbandonConnect(f)
  BY <1>6, OwnersRest
<1> QED
  BY <1>1, <1>2, <1>3, <1>4, <1>5, <1>6 DEF MirrorNext, SyncStepOf

\* After a disconnect no tokens come back but those of an authorization begun since:
\* an exchange that was under way is of an earlier revision, and a refresh needs the
\* lease, which nobody holds without tokens (googleCalendar.ts:91, 114).
THEOREM NoTokensComeBack == MirrorSpec => DisconnectIsFinal
<1> DEFINE anew == \E f \in Flow : /\ flow[f].step = "claimed" /\ flow'[f] = NoFlow
                                   /\ ~flow[f].overtaken
<1>1. ASSUME OwnersSide, [MirrorNext]_mirrorVars, connection'.tokens, ~connection.tokens
      PROVE  anew
  <2>0. /\ connection \in ConnectionRow /\ connection.revision \in Nat /\ ConnectionOK
        /\ flow \in [Flow -> FlowRow] /\ \A f \in Flow : FlowFits(f)
        /\ connection.lease = Nobody
    BY <1>1 DEF OwnersSide, ConnectionOK, ConnectionRow
  <2>1. ASSUME NEW f \in Flow, CompleteConnect(f) PROVE anew
    <3>1. /\ flow[f].step = "claimed" /\ flow'[f] = NoFlow
          /\ flow[f].revision = connection.revision
      BY <2>0, <2>1 DEF CompleteConnect, NotSuperseded
    <3>2. ~flow[f].overtaken
      BY <2>0, <3>1 DEF FlowFits
    <3> QED
      BY <3>1, <3>2
  <2>2. ASSUME NEW fields, fields \in ConnectionRow, ~fields.tokens, Renew(fields)
        PROVE  FALSE
    BY <1>1, <2>0, <2>2, RenewFits
  <2>3. ASSUME connection' = connection \/ (\E s \in Sync : connection' = Release(s))
        PROVE  FALSE
    BY <1>1, <2>0, <2>3, Zenon DEF Release, ConnectionRow
  <2>4. ~(\E f \in Flow : BeginConnect(f))
    BY <1>1, <2>0, <2>2 DEF BeginConnect
  <2>5. ASSUME NEW c \in CalendarId PROVE ~ConfigureCalendar(c)
    <3> DEFINE fields == [connection EXCEPT !.calendar = c]
    <3>1. fields \in ConnectionRow
      BY <2>0 DEF ConnectionRow
    <3>2. ~fields.tokens
      BY <1>1, <2>0, Zenon DEF ConnectionRow
    <3> QED
      BY <2>2, <3>1, <3>2 DEF ConfigureCalendar
  <2>6. ASSUME NEW status \in {"disconnected", "needs_reconnect"}
        PROVE  ~Renew([connection EXCEPT !.status = status, !.tokens = FALSE])
    <3> DEFINE fields == [connection EXCEPT !.status = status, !.tokens = FALSE]
    <3>1. fields \in ConnectionRow
      BY <2>0 DEF ConnectionRow
    <3>2. ~fields.tokens
      BY <2>0, Zenon DEF ConnectionRow
    <3> QED
      BY <2>2, <3>1, <3>2
  <2>7. ~DisconnectCalendar /\ ~(\E s \in Sync : LoseAuthorization(s))
    BY <2>6 DEF DisconnectCalendar, LoseAuthorization
  <2>8. ~LeaseRunsOut /\ ~(\E s \in Sync : RefreshTokens(s))
    BY <2>0, MirrorAssumption DEF LeaseRunsOut, RefreshTokens, HoldsLease
  <2>9. ~(\E s \in Sync : TakeLease(s))
    BY <1>1 DEF TakeLease
  <2>10. ASSUME NEW s \in Sync, SyncStepOf(s), ~LoseAuthorization(s), ~TakeLease(s),
                ~RefreshTokens(s)
         PROVE  FALSE
    BY <2>3, <2>10 DEF SyncStepOf, AskSync, RunTask, FetchEvent, CheckBeforeCreate, PostEvent,
       RecordCreation, CheckBeforeUpdate, PatchEvent, CrashSync, NothingToCancel, RecordSync,
       FailSync, LoseAnswer, connectVars
  <2>11. ~EditOutside /\ ~UNCHANGED mirrorVars
    BY <2>3 DEF EditOutside, mirrorVars, connectVars
  <2>12. ~ChangeMeeting /\ ~SwitchStop /\ ~(\E on \in BOOLEAN : ConfigureAutomation(on))
    BY <2>3 DEF ChangeMeeting, SwitchStop, ConfigureAutomation, connectVars
  <2>13. ~(\E f \in Flow : ClaimState(f) \/ AbandonConnect(f))
    BY <2>3 DEF ClaimState, AbandonConnect
  <2> QED
    BY <1>1, <2>1, <2>4, <2>5, <2>7, <2>8, <2>9, <2>10, <2>11, <2>12, <2>13
       DEF MirrorNext, SyncStepOf
<1> QED
  BY <1>1, OwnersSideInit, OwnersStep, PTL DEF MirrorSpec, DisconnectIsFinal

-----------------------------------------------------------------------------
(* CalendarMirror: the event in each calendar and what the syncs know of it. *)

Outside == {Foreign, [Foreign EXCEPT !.cancelled = TRUE]}
Looked == {"fetched", "posting", "created", "patching", "saved"}

EventsTyped ==
  remote \in [CalendarId -> EventRow] /\ binding \in [CalendarId -> Nat] /\ writes \in Nat
SyncsTyped == sync \in [Sync -> {NoSync} \cup SyncRow]
\* Etags only grow, and no record binds a state that somebody typed in Google.
EventFits(c) ==
  /\ remote[c].etag <= writes /\ binding[c] <= remote[c].etag
  /\ binding[c] = remote[c].etag /\ binding[c] # 0 => remote[c].content.version # -1
\* What sync s knows, in row r, is what is there now or an earlier state.
SyncFits(s, r) ==
  LET here == remote[r.preview.calendar]
      bound == binding[r.preview.calendar]
  IN /\ r.step \in Looked => /\ r.data.etag <= here.etag
                             /\ r.data.etag = here.etag => r.data.content = here.content
     /\ r.step \in {"created", "saved"} => r.data.content = r.preview.meeting
     /\ r.step = "patching" =>
          IF r.approved # 0 THEN r.approved = r.data.etag
          ELSE r.data.content.version = -1 =>
                 resource = "interview" /\ (bound = 0 \/ r.data.etag < here.etag)
     /\ connection.lease = s =>
          /\ r.step = "fetched" /\ r.data.etag = bound /\ bound # 0 =>
               r.data.content.version # -1
          /\ r.step = "saved" => here.content \in {r.preview.meeting} \cup Outside
SyncsFit == \A s \in Sync : sync[s] \in SyncRow => SyncFits(s, sync[s])
\* Who is about to patch without the lease has seen less than its holder wrote.
HolderSawMore ==
  \A s, t \in Sync :
    s # t /\ sync[s].step = "patching" /\ sync[t].step \in {"created", "saved"}
      /\ connection.lease = t => sync[s].data.etag < sync[t].data.etag
EventsSide ==
  /\ EventsTyped /\ SyncsTyped /\ SyncsFit /\ HolderSawMore
  /\ \A c \in CalendarId : EventFits(c)

\* The side of the external events holds initially.
LEMMA EventsSideInit == MirrorInit => EventsSide
BY DEF MirrorInit, EventsSide, EventsTyped, SyncsTyped, SyncsFit, HolderSawMore, EventFits,
       NoSync, NoEvent, EventRow, ContentRow, SyncRow, SyncStep

\* What a synchronisation knows stays true while nobody writes events.
LEMMA FitStays ==
  ASSUME NEW t \in Sync, NEW q \in SyncRow, SyncFits(t, q),
         UNCHANGED <<remote, binding, resource>>,
         connection'.lease = t => connection.lease = t
  PROVE  SyncFits(t, q)'
BY DEF SyncFits

\* What a synchronisation knows stays true when another event version is accepted.
LEMMA FitWritten ==
  ASSUME EventsSide, NEW t \in Sync, NEW q \in SyncRow, SyncFits(t, q),
         NEW c \in CalendarId, NEW content \in ContentRow, Accept(c, content),
         UNCHANGED <<binding, resource>>, connection'.lease = t => connection.lease = t,
         connection.lease = t /\ q.step = "saved" /\ q.preview.calendar = c =>
           content \in {q.preview.meeting} \cup Outside
  PROVE  SyncFits(t, q)'
<1>1. q.preview.calendar \in CalendarId /\ q.data.etag \in Nat
  BY DEF SyncRow, PreviewRow, EventRow
<1>2. CASE q.preview.calendar # c
  <2>1. remote'[q.preview.calendar] = remote[q.preview.calendar]
    BY <1>1, <1>2 DEF Accept, EventsSide, EventsTyped
  <2> QED
    BY <2>1 DEF SyncFits
<1>3. CASE q.preview.calendar = c
  <2>1. /\ remote'[c].content = content /\ remote'[c].etag = writes + 1
        /\ remote[c].etag < writes + 1 /\ remote[c].etag \in Nat /\ writes \in Nat
    BY DEF Accept, EventsSide, EventsTyped, EventFits, EventRow
  <2>2. q.step \in Looked => q.data.etag < writes + 1
    BY <1>1, <1>3, <2>1 DEF SyncFits
  <2>3. "patching" \in Looked
    BY DEF Looked
  <2> QED
    BY <1>1, <1>3, <2>1, <2>2, <2>3 DEF SyncFits
<1> QED
  BY <1>2, <1>3

\* What a synchronisation knows stays true when an event is bound.
LEMMA FitBound ==
  ASSUME EventsSide, NEW t \in Sync, NEW q \in SyncRow, SyncFits(t, q),
         NEW c \in CalendarId, NEW e \in Nat, binding'[c] = e,
         \A d \in CalendarId \ {c} : binding'[d] = binding[d],
         UNCHANGED <<remote, resource>>, connection'.lease # t, e <= remote[c].etag,
         q.step = "patching" /\ q.preview.calendar = c => q.data.etag < e
  PROVE  SyncFits(t, q)'
<1>1. /\ q.preview.calendar \in CalendarId /\ q.data.etag \in Nat
      /\ remote[c].etag \in Nat
  BY DEF SyncRow, PreviewRow, EventRow, EventsSide, EventsTyped
<1>2. CASE q.preview.calendar # c
  <2>1. binding'[q.preview.calendar] = binding[q.preview.calendar]
    BY <1>1, <1>2
  <2> QED
    BY <2>1 DEF SyncFits
<1>3. CASE q.preview.calendar = c
  BY <1>1, <1>3 DEF SyncFits
<1> QED
  BY <1>2, <1>3

\* Row r becomes that of sync s; the others keep theirs.
Turns(s, r) ==
  /\ sync' \in [Sync -> {NoSync} \cup SyncRow] /\ sync'[s] = r
  /\ \A t \in Sync \ {s} : sync'[t] = sync[t]

\* All synchronisations fit when the one that moves does and the others did.
LEMMA RowsFit ==
  ASSUME NEW s \in Sync, NEW r \in {NoSync} \cup SyncRow, Turns(s, r),
         r \in SyncRow => SyncFits(s, r)',
         \A t \in Sync \ {s}, q \in SyncRow : q = sync[t] => SyncFits(t, q)'
  PROVE  SyncsTyped' /\ SyncsFit'
<1>1. ASSUME NEW t \in Sync, sync'[t] \in SyncRow PROVE SyncFits(t, sync[t])'
  <2>1. PICK q \in SyncRow : q = sync'[t]
    BY <1>1
  <2>2. SyncFits(t, q)'
    BY <2>1 DEF Turns
  <2> QED
    BY <2>1, <2>2 DEF SyncFits
<1> QED
  BY <1>1 DEF Turns, SyncsTyped, SyncsFit

\* The side of the events stays while events and synchronisations do.
LEMMA EventsRest ==
  ASSUME EventsSide, UNCHANGED <<sync, remote, writes, binding, resource>>,
         connection'.lease \in {connection.lease, Nobody}
  PROVE  EventsSide'
<1>1. EventsTyped' /\ SyncsTyped' /\ \A c \in CalendarId : EventFits(c)'
  BY DEF EventsSide, EventsTyped, SyncsTyped, EventFits
<1>2. SyncsFit'
  <2>1. ASSUME NEW t \in Sync, sync'[t] \in SyncRow PROVE SyncFits(t, sync[t])'
    BY <2>1, MirrorAssumption DEF EventsSide, SyncsFit, SyncFits
  <2> QED
    BY <2>1 DEF SyncsFit
<1>3. HolderSawMore'
  BY MirrorAssumption DEF EventsSide, HolderSawMore
<1> QED
  BY <1>1, <1>2, <1>3 DEF EventsSide

\* A sync goes on, or ends, and nothing is written.
LEMMA SyncTurns ==
  ASSUME EventsSide, NEW s \in Sync, NEW r \in {NoSync} \cup SyncRow, Turns(s, r),
         UNCHANGED <<remote, writes, binding, resource>>,
         connection'.lease \in {connection.lease, Nobody, s},
         r.step \notin {"created", "saved"}, r.step = "patching" => connection'.lease = s,
         r \in SyncRow => SyncFits(s, r)'
  PROVE  EventsSide'
<1>1. EventsTyped' /\ \A c \in CalendarId : EventFits(c)'
  BY DEF EventsSide, EventsTyped, EventFits
<1>2. ASSUME NEW t \in Sync \ {s}, NEW q \in SyncRow, q = sync[t] PROVE SyncFits(t, q)'
  <2>1. SyncFits(t, q)
    BY <1>2 DEF EventsSide, SyncsFit
  <2> QED
    BY <2>1, FitStays, MirrorAssumption
<1>3. SyncsTyped' /\ SyncsFit'
  BY <1>2, RowsFit
<1>4. HolderSawMore'
  BY MirrorAssumption DEF EventsSide, HolderSawMore, Turns
<1> QED
  BY <1>1, <1>3, <1>4 DEF EventsSide

\* An accepted write gives the event its new version.
LEMMA WrittenFits ==
  ASSUME EventsSide, NEW c \in CalendarId, NEW content \in ContentRow, Accept(c, content),
         binding' = binding
  PROVE  EventsTyped' /\ \A d \in CalendarId : EventFits(d)'
<1>1. /\ remote \in [CalendarId -> EventRow] /\ binding \in [CalendarId -> Nat]
      /\ writes \in Nat /\ \A d \in CalendarId : remote[d].etag \in Nat
  BY DEF EventsSide, EventsTyped, EventRow
<1>2. [content |-> content, etag |-> writes + 1] \in EventRow
  BY <1>1 DEF EventRow
<1>3. EventsTyped'
  BY <1>1, <1>2 DEF Accept, EventsTyped
<1>4. ASSUME NEW d \in CalendarId PROVE EventFits(d)'
  BY <1>1 DEF EventsSide, Accept, EventFits
<1> QED
  BY <1>3, <1>4

\* The provider accepts what sync s wants to write, a POST of an event that is not
\* there or a PATCH of the state it saw.
LEMMA SyncWrites ==
  ASSUME EventsSide, NEW s \in Sync, NEW c \in CalendarId, NEW content \in ContentRow,
         content.version # -1, Accept(c, content), UNCHANGED <<binding, resource>>,
         connection'.lease \in {connection.lease, Nobody},
         NEW r \in {NoSync} \cup SyncRow, Turns(s, r),
         \/ r = NoSync
         \/ /\ r \in SyncRow /\ r.step \in {"created", "fetched", "saved"}
            /\ r.preview.calendar = c /\ r.preview.meeting = content
            /\ r.data.content = content /\ r.data.etag = writes + 1,
         \/ remote[c].content.version = -2
         \/ sync[s].step = "patching" /\ sync[s].data.etag = remote[c].etag
  PROVE  EventsSide'
<1>1. EventsTyped' /\ \A d \in CalendarId : EventFits(d)'
  BY WrittenFits
<1>2. /\ remote'[c].content = content /\ remote'[c].etag = writes + 1
      /\ remote[c].etag \in Nat /\ writes \in Nat /\ remote[c].etag <= writes
  BY DEF Accept, EventsSide, EventsTyped, EventFits, EventRow
<1>3. ASSUME NEW t \in Sync \ {s}, NEW q \in SyncRow, q = sync[t] PROVE SyncFits(t, q)'
  <2>1. SyncFits(t, q)
    BY <1>3 DEF EventsSide, SyncsFit
  <2>2. ASSUME connection.lease = t, q.step = "saved", q.preview.calendar = c PROVE FALSE
    <3>1. /\ remote[c].content \in {q.preview.meeting} \cup Outside
          /\ q.data.etag <= remote[c].etag /\ q.data.etag \in Nat
      BY <2>1, <2>2 DEF SyncFits, Looked, SyncRow, EventRow
    <3>2. q.preview.meeting.version \in Nat
      BY DEF SyncRow, PreviewRow, MeetingRow
    <3>3. remote[c].content.version # -2
      BY <3>1, <3>2 DEF Outside, Foreign
    <3>4. sync[s].step = "patching" /\ sync[s].data.etag = remote[c].etag
      BY <3>3
    <3>5. sync[s].data.etag < q.data.etag
      BY <1>3, <2>2, <3>4 DEF EventsSide, HolderSawMore
    <3> QED
      BY <1>2, <3>1, <3>4, <3>5
  <2> QED
    BY <2>1, <2>2, FitWritten, MirrorAssumption
<1>4. r \in SyncRow => SyncFits(s, r)'
  <2>1. NoSync \notin SyncRow
    BY DEF NoSync, SyncRow, SyncStep
  <2> QED
    BY <1>2, <2>1 DEF SyncFits
<1>5. SyncsTyped' /\ SyncsFit'
  BY <1>3, <1>4, RowsFit
<1>6. HolderSawMore'
  <2>1. ASSUME NEW t \in Sync, NEW u \in Sync, t # u, sync'[t].step = "patching",
               sync'[u].step \in {"created", "saved"}, connection'.lease = u
        PROVE  sync'[t].data.etag < sync'[u].data.etag
    <3>1. t # s /\ sync'[t] = sync[t] /\ connection.lease = u
      BY <2>1, MirrorAssumption DEF Turns, NoSync
    <3>2. CASE u # s
      BY <2>1, <3>1, <3>2 DEF Turns, EventsSide, HolderSawMore
    <3>3. CASE u = s
      <4>1. sync'[u].data.etag = writes + 1
        BY <2>1, <3>3 DEF Turns, NoSync
      <4>2. sync[t] \in SyncRow /\ sync[t].step \in Looked
        BY <2>1, <3>1 DEF EventsSide, SyncsTyped, NoSync, Looked
      <4>3. /\ sync[t].preview.calendar \in CalendarId /\ sync[t].data.etag \in Nat
            /\ sync[t].data.etag <= remote[sync[t].preview.calendar].etag
        BY <4>2 DEF EventsSide, SyncsFit, SyncFits, SyncRow, PreviewRow, EventRow
      <4>4. /\ remote[sync[t].preview.calendar].etag <= writes
            /\ remote[sync[t].preview.calendar].etag \in Nat
        BY <4>3 DEF EventsSide, EventFits, EventsTyped, EventRow
      <4> QED
        BY <1>2, <3>1, <4>1, <4>3, <4>4
    <3> QED
      BY <3>2, <3>3
  <2> QED
    BY <2>1 DEF HolderSawMore
<1> QED
  BY <1>1, <1>5, <1>6 DEF EventsSide

\* An edit from outside keeps the side of the events.
LEMMA OthersWrite ==
  ASSUME EventsSide, EditOutside
  PROVE  EventsSide'
<1>1. PICK c \in CalendarId, gone \in BOOLEAN :
        /\ Accept(c, [Foreign EXCEPT !.cancelled = gone])
        /\ UNCHANGED <<ownerVars, connectVars, taskVars, sync, binding>>
  BY DEF EditOutside
<1>2. PICK content : content = [Foreign EXCEPT !.cancelled = gone]
  OBVIOUS
<1>3. content \in ContentRow
  BY <1>2 DEF Foreign, ContentRow
<1>4. content \in Outside
  BY <1>2 DEF Foreign, Outside
<1>5. EventsTyped' /\ \A d \in CalendarId : EventFits(d)'
  BY <1>1, <1>2, <1>3, WrittenFits
<1>6. /\ UNCHANGED <<sync, binding, resource>> /\ connection' = connection
  BY <1>1 DEF ownerVars, connectVars
<1>7. ASSUME NEW t \in Sync, sync'[t] \in SyncRow PROVE SyncFits(t, sync[t])'
  <2>1. PICK q \in SyncRow : q = sync[t]
    BY <1>6, <1>7
  <2>2. SyncFits(t, q)
    BY <2>1 DEF EventsSide, SyncsFit
  <2>3. SyncFits(t, q)'
    BY <1>1, <1>2, <1>3, <1>4, <1>6, <2>2, FitWritten
  <2> QED
    BY <1>6, <2>1, <2>3 DEF SyncFits
<1>8. SyncsTyped' /\ SyncsFit' /\ HolderSawMore'
  BY <1>6, <1>7 DEF EventsSide, SyncsTyped, SyncsFit, HolderSawMore
<1> QED
  BY <1>5, <1>8 DEF EventsSide

\* The holder of the lease records the state it wrote.
LEMMA SyncBinds ==
  ASSUME EventsSide, NEW s \in Sync, NEW q \in SyncRow, q = sync[s],
         q.step \in {"created", "saved"}, connection.lease = s,
         binding' = [binding EXCEPT ![q.preview.calendar] = q.data.etag],
         UNCHANGED <<remote, writes, resource>>,
         connection'.lease \in {connection.lease, Nobody},
         NEW r \in {NoSync} \cup SyncRow, Turns(s, r),
         \/ r = NoSync
         \/ /\ r \in SyncRow /\ r.step = "fetched" /\ r.preview = q.preview /\ r.data = q.data
  PROVE  EventsSide'
<1>1. /\ q.preview.calendar \in CalendarId /\ q.data.etag \in Nat
      /\ q.preview.meeting.version \in Nat
  BY DEF SyncRow, PreviewRow, EventRow, MeetingRow
<1>9. PICK c \in CalendarId, e \in Nat : c = q.preview.calendar /\ e = q.data.etag
  BY <1>1
<1>2. SyncFits(s, q)
  BY DEF EventsSide, SyncsFit
<1>3. /\ e <= remote[c].etag
      /\ e = remote[c].etag => q.data.content = remote[c].content
      /\ q.data.content = q.preview.meeting
  BY <1>9, <1>2 DEF SyncFits, Looked
<1>4. EventsTyped' /\ \A d \in CalendarId : EventFits(d)'
  BY <1>9, <1>1, <1>3 DEF EventsSide, EventsTyped, EventFits
<1>5. ASSUME NEW t \in Sync \ {s}, NEW p \in SyncRow, p = sync[t] PROVE SyncFits(t, p)'
  <2>1. SyncFits(t, p)
    BY <1>5 DEF EventsSide, SyncsFit
  <2>2. p.step = "patching" => p.data.etag < e
    BY <1>9, <1>5 DEF EventsSide, HolderSawMore
  <2>3. connection'.lease # t
    BY <1>5, MirrorAssumption
  <2>4. binding'[c] = e /\ \A d \in CalendarId \ {c} : binding'[d] = binding[d]
    BY <1>9 DEF EventsSide, EventsTyped
  <2>5. UNCHANGED <<remote, resource>> /\ t \in Sync
    OBVIOUS
  <2>6. e <= remote[c].etag
    BY <1>3
  <2> QED
    BY <1>9, <2>1, <2>2, <2>3, <2>4, <2>5, <2>6, FitBound
<1>6. r \in SyncRow => SyncFits(s, r)'
  <2>1. NoSync \notin SyncRow
    BY DEF NoSync, SyncRow, SyncStep
  <2> QED
    BY <1>9, <1>1, <1>3, <2>1 DEF SyncFits
<1>7. SyncsTyped' /\ SyncsFit'
  BY <1>5, <1>6, RowsFit
<1>8. HolderSawMore'
  BY MirrorAssumption DEF EventsSide, HolderSawMore, Turns, NoSync
<1> QED
  BY <1>4, <1>7, <1>8 DEF EventsSide

TasksTyped == DOMAIN task \subseteq KeyRow /\ \A k \in DOMAIN task : task[k] \in TaskStates

\* What a request is asked for does not change while it is served.
SameRequest(r, q) ==
  r.mode = q.mode /\ r.policy = q.policy /\ r.preview = q.preview /\ r.approved = q.approved

\* Proceeding moves one synchronisation and keeps what it was asked for.
LEMMA ProceedTurns ==
  ASSUME SyncsTyped, NEW s \in Sync, NEW q \in SyncRow, q = sync[s], NEW step \in SyncStep,
         Proceed(s, step)
  PROVE  \E r \in SyncRow : /\ Turns(s, r) /\ SameRequest(r, q)
                            /\ r.step = step /\ r.data = q.data /\ r.revision = q.revision
<1>1. sync'[s] \in SyncRow
  BY DEF Proceed, SyncsTyped, SyncRow
<1>2. /\ SameRequest(sync'[s], q) /\ sync'[s].step = step /\ sync'[s].data = q.data
      /\ sync'[s].revision = q.revision
  BY DEF Proceed, SyncsTyped, SyncRow, SameRequest
<1>3. Turns(s, sync'[s])
  BY <1>1 DEF Turns, Proceed, SyncsTyped
<1> QED
  BY <1>1, <1>2, <1>3

\* Reading an event moves one synchronisation and keeps what it was asked for.
LEMMA LookTurns ==
  ASSUME SyncsTyped, NEW s \in Sync, NEW q \in SyncRow, q = sync[s], NEW step \in SyncStep,
         NEW data \in EventRow,
         \/ sync' = [sync EXCEPT ![s].step = step, ![s].data = data]
         \/ sync' = [sync EXCEPT ![s].data = data, ![s].step = step]
  PROVE  \E r \in SyncRow : /\ Turns(s, r) /\ SameRequest(r, q)
                            /\ r.step = step /\ r.data = data /\ r.revision = q.revision
<1>1. sync'[s] \in SyncRow
  BY DEF SyncsTyped, SyncRow
<1>2. /\ SameRequest(sync'[s], q) /\ sync'[s].step = step /\ sync'[s].data = data
      /\ sync'[s].revision = q.revision
  BY DEF SyncsTyped, SyncRow, SameRequest
<1>3. Turns(s, sync'[s])
  BY <1>1 DEF Turns, SyncsTyped
<1> QED
  BY <1>1, <1>2, <1>3

\* A synchronisation that is at some step is well typed.
LEMMA RowOf ==
  ASSUME SyncsTyped, NEW s \in Sync, sync[s] # NoSync \/ sync[s].step \in SyncStep
  PROVE  sync[s] \in SyncRow
BY DEF SyncsTyped, NoSync, SyncStep

\* A preview of the meeting is well typed.
LEMMA PreviewFits == ASSUME OwnersSide PROVE Preview(meeting) \in PreviewRow
BY DEF OwnersSide, ConnectionOK, ConnectionRow, OwnerOK, Preview, PreviewRow

\* Releasing a lease leaves it with its holder or nobody.
LEMMA ReleaseFits ==
  ASSUME OwnersSide, NEW s \in Sync
  PROVE  Release(s).lease \in {connection.lease, Nobody}
BY DEF OwnersSide, ConnectionOK, ConnectionRow, Release

\* The end of a synchronisation keeps the side of the events.
LEMMA EventsOfEnd ==
  ASSUME EventsSide, NEW s \in Sync, sync' = [sync EXCEPT ![s] = NoSync],
         UNCHANGED <<remote, writes, binding, resource>>,
         connection'.lease \in {connection.lease, Nobody}
  PROVE  EventsSide'
<1>1. Turns(s, NoSync)
  BY DEF EventsSide, SyncsTyped, Turns
<1>2. NoSync \notin SyncRow /\ NoSync.step = "none"
  BY DEF NoSync, SyncRow, SyncStep
<1> QED
  BY <1>1, <1>2, SyncTurns

\* A request begins.
LEMMA EventsOfStart ==
  ASSUME OwnersSide, EventsSide, TasksTyped, NEW s \in Sync, AskSync(s) \/ RunTask(s)
  PROVE  EventsSide'
<1>1. PICK mode \in {"manual", "automatic"}, n \in Nat, preview \in PreviewRow, e \in Nat :
        sync' = [sync EXCEPT ![s] = NewSync(mode, n, preview, e)]
  <2>1. CASE AskSync(s)
    <3>1. PICK e \in {0, remote[connection.calendar].etag} :
            sync' = [sync EXCEPT ![s] = NewSync("manual", 0, Preview(meeting), e)]
      BY <2>1 DEF AskSync
    <3>2. e \in Nat
      BY DEF OwnersSide, ConnectionOK, ConnectionRow, EventsSide, EventsTyped, EventRow
    <3> QED
      BY <3>1, <3>2, PreviewFits
  <2>2. CASE RunTask(s)
    BY <2>2 DEF RunTask, TasksTyped, KeyRow
  <2> QED
    BY <2>1, <2>2
<1>2. NewSync(mode, n, preview, e) \in SyncRow /\ NewSync(mode, n, preview, e).step = "asked"
  BY DEF NewSync, SyncRow, SyncStep, NoEvent, EventRow, ContentRow
<1>3. PICK r \in SyncRow : r = NewSync(mode, n, preview, e)
  BY <1>2
<1>4. Turns(s, r) /\ r.step = "asked"
  BY <1>1, <1>2, <1>3 DEF EventsSide, SyncsTyped, Turns
<1>5. UNCHANGED <<remote, writes, binding, resource, connection>>
  BY DEF AskSync, RunTask, ownerVars, eventVars, connectVars
<1>6. SyncFits(s, r)'
  BY <1>4 DEF SyncFits, Looked
<1> QED
  BY <1>4, <1>5, <1>6, SyncTurns

\* A request takes the lease, reads the event or passes a check.
LEMMA EventsOfChecks ==
  ASSUME OwnersSide, EventsSide, NEW s \in Sync,
         TakeLease(s) \/ FetchEvent(s) \/ CheckBeforeCreate(s) \/ CheckBeforeUpdate(s)
  PROVE  EventsSide'
<1>0. SyncsTyped /\ EventsTyped /\ UNCHANGED <<remote, writes, binding, resource>>
  BY DEF TakeLease, FetchEvent, CheckBeforeCreate, CheckBeforeUpdate, EventsSide, ownerVars,
         eventVars
<1>1. PICK q \in SyncRow : q = sync[s]
  BY <1>0, RowOf DEF TakeLease, FetchEvent, CheckBeforeCreate, CheckBeforeUpdate, Doing,
     SyncStep
<1>2. /\ SyncFits(s, q) /\ q.preview.calendar \in CalendarId
      /\ EventFits(q.preview.calendar) /\ q.preview.meeting.version \in Nat
  BY <1>1 DEF EventsSide, SyncsFit, SyncRow, PreviewRow, MeetingRow
<1>3. CASE TakeLease(s)
  <2>1. sync'[s] \in SyncRow
    BY <1>0, <1>1, <1>3 DEF TakeLease, SyncsTyped, SyncRow, SyncStep, OwnersSide,
       ConnectionOK, ConnectionRow
  <2>2. PICK r \in SyncRow : r = sync'[s]
    BY <2>1
  <2>3. Turns(s, r)
    BY <1>0, <1>3, <2>1, <2>2 DEF TakeLease, SyncsTyped, Turns
  <2>4. r.step = "leased"
    BY <1>0, <1>1, <1>3, <2>2 DEF TakeLease, SyncsTyped, SyncRow
  <2>5. connection'.lease = s
    BY <1>3 DEF TakeLease, OwnersSide, ConnectionOK, ConnectionRow
  <2>6. SyncFits(s, r)'
    BY <2>4 DEF SyncFits, Looked
  <2> QED
    BY <1>0, <2>3, <2>4, <2>5, <2>6, SyncTurns
<1>4. CASE FetchEvent(s)
  <2>1. q.preview.calendar = connection.calendar /\ connection' = connection
    BY <1>1, <1>4 DEF FetchEvent, StillCurrent, Fresh, Preview, connectVars
  <2>2. PICK data \in EventRow : data = remote[q.preview.calendar]
    BY <1>0, <1>2 DEF EventsTyped
  <2>6. PICK step \in SyncStep :
          /\ step = "fetched"
          /\ \/ sync' = [sync EXCEPT ![s].step = step, ![s].data = data]
             \/ sync' = [sync EXCEPT ![s].data = data, ![s].step = step]
    <3>1. sync' = [sync EXCEPT ![s].step = "fetched", ![s].data = data]
      BY <1>4, <2>1, <2>2, Zenon DEF FetchEvent
    <3> QED
      BY <3>1, Zenon DEF SyncStep
  <2>3. PICK r \in SyncRow : /\ Turns(s, r) /\ SameRequest(r, q)
                             /\ r.step = "fetched" /\ r.data = data
    BY <1>0, <1>1, <2>6, LookTurns
  <2>4. data.etag \in Nat
    BY DEF EventRow
  <2>5. SyncFits(s, r)'
    BY <1>0, <1>2, <2>1, <2>2, <2>3, <2>4 DEF SyncFits, SameRequest, EventFits
  <2> QED
    BY <1>0, <2>1, <2>3, <2>5, SyncTurns
<1>5. CASE CheckBeforeCreate(s)
  <2>1. PICK r \in SyncRow : /\ Turns(s, r) /\ SameRequest(r, q)
                             /\ r.step = "posting" /\ r.data = q.data
    BY <1>0, <1>1, <1>5, ProceedTurns DEF CheckBeforeCreate, SyncStep
  <2>2. q.step = "fetched" /\ connection' = connection
    BY <1>1, <1>5 DEF CheckBeforeCreate, Doing, connectVars
  <2>3. SyncFits(s, r)'
    BY <1>0, <1>2, <2>1, <2>2 DEF SyncFits, SameRequest, Looked
  <2> QED
    BY <1>0, <2>1, <2>2, <2>3, SyncTurns
<1>6. CASE CheckBeforeUpdate(s)
  <2>1. PICK r \in SyncRow : /\ Turns(s, r) /\ SameRequest(r, q)
                             /\ r.step = "patching" /\ r.data = q.data
    BY <1>0, <1>1, <1>6, ProceedTurns DEF CheckBeforeUpdate, SyncStep
  <2>2. /\ q.step = "fetched" /\ connection' = connection /\ connection.lease = s
        /\ q.approved \in {0, q.data.etag}
        /\ \/ q.approved # 0
           \/ IF binding[q.preview.calendar] # 0
              THEN binding[q.preview.calendar] = q.data.etag
              ELSE resource = "interview" \/ q.data.content = q.preview.meeting
    BY <1>1, <1>6 DEF CheckBeforeUpdate, Doing, connectVars, StillCurrent, Guard, SameReview,
       Untouched, Calendar, Wanted, Seen
  <2>3. SyncFits(s, r)'
    BY <1>0, <1>2, <2>1, <2>2 DEF SyncFits, SameRequest, Looked
  <2> QED
    BY <1>0, <2>1, <2>2, <2>3, SyncTurns
<1> QED
  BY <1>3, <1>4, <1>5, <1>6

\* The provider answers a POST or a PATCH.
LEMMA EventsOfWrites ==
  ASSUME OwnersSide, EventsSide, NEW s \in Sync, PostEvent(s) \/ PatchEvent(s) \/ LoseAnswer(s)
  PROVE  EventsSide'
<1>0. SyncsTyped /\ EventsTyped /\ UNCHANGED <<binding, resource>>
  BY DEF PostEvent, PatchEvent, LoseAnswer, EndWith, EventsSide, ownerVars
<1>1. PICK q \in SyncRow : q = sync[s]
  BY <1>0, RowOf DEF PostEvent, PatchEvent, LoseAnswer, Doing, SyncStep
<1>2. PICK c \in CalendarId, content \in ContentRow :
        c = q.preview.calendar /\ content = q.preview.meeting /\ content.version \in Nat
  BY DEF SyncRow, PreviewRow, MeetingRow, ContentRow
<1>3. SyncFits(s, q) /\ EventFits(c) /\ Calendar(s) = c /\ Wanted(s) = content
  BY <1>1, <1>2 DEF EventsSide, SyncsFit, Calendar, Wanted
<1>4. connection'.lease \in {connection.lease, Nobody}
  BY ReleaseFits DEF PostEvent, PatchEvent, LoseAnswer, connectVars
<1>6. CASE PostEvent(s) /\ remote[c] # NoEvent
  <2>1. remote' = remote /\ writes' = writes
    BY <1>3, <1>6 DEF PostEvent, eventVars
  <2>2. PICK data \in EventRow : data = remote[c]
    BY <1>0 DEF EventsTyped
  <2>3. PICK step \in SyncStep :
          /\ step = "fetched"
          /\ \/ sync' = [sync EXCEPT ![s].step = step, ![s].data = data]
             \/ sync' = [sync EXCEPT ![s].data = data, ![s].step = step]
    <3>1. sync' = [sync EXCEPT ![s].data = data, ![s].step = "fetched"]
      BY <1>3, <1>6, <2>1, <2>2, Zenon DEF PostEvent
    <3> QED
      BY <3>1, Zenon DEF SyncStep
  <2>5. PICK r \in SyncRow : /\ Turns(s, r) /\ SameRequest(r, q)
                             /\ r.step = "fetched" /\ r.data = data
    BY <1>0, <1>1, <2>3, LookTurns
  <2>6. data.etag \in Nat
    BY DEF EventRow
  <2>7. SyncFits(s, r)'
    BY <1>0, <1>2, <1>3, <2>1, <2>2, <2>5, <2>6 DEF SyncFits, SameRequest, EventFits
  <2> QED
    BY <1>0, <1>4, <2>1, <2>5, <2>7, SyncTurns
<1>7. CASE PatchEvent(s) \/ LoseAnswer(s) \/ remote[c] = NoEvent
  <2>0. NoEvent.content.version = -2
    BY DEF NoEvent
  <2>1. /\ Accept(c, content)
        /\ \/ remote[c].content.version = -2
           \/ sync[s].step = "patching" /\ sync[s].data.etag = remote[c].etag
    <3>1. CASE PatchEvent(s)
      BY <1>3, <3>1 DEF PatchEvent, Doing, Matches, Seen
    <3>2. CASE LoseAnswer(s)
      BY <1>3, <2>0, <3>2 DEF LoseAnswer, Doing, Matches, Seen
    <3>3. CASE PostEvent(s) /\ remote[c] = NoEvent
      BY <1>3, <2>0, <3>3 DEF PostEvent
    <3> QED
      BY <1>7, <3>1, <3>2, <3>3
  <2>2. PICK r \in {NoSync} \cup SyncRow :
          /\ Turns(s, r)
          /\ \/ r = NoSync
             \/ /\ r \in SyncRow /\ r.step \in {"created", "fetched", "saved"}
                /\ r.preview = q.preview
                /\ r.data.content = content /\ r.data.etag = writes + 1
    <3>1. PICK data \in EventRow : /\ data = remote'[c] /\ data.content = content
                                   /\ data.etag = writes + 1
      BY <1>0, <2>1 DEF Accept, EventsTyped, EventRow
    <3>2. CASE LoseAnswer(s)
      <4>1. Turns(s, NoSync)
        BY <1>0, <3>2 DEF LoseAnswer, EndWith, Turns, SyncsTyped
      <4> QED
        BY <4>1
    <3>3. CASE ~LoseAnswer(s)
      <4>1. PICK step \in {"created", "fetched", "saved"} :
              \/ sync' = [sync EXCEPT ![s].step = step, ![s].data = data]
              \/ sync' = [sync EXCEPT ![s].data = data, ![s].step = step]
        <5>1. CASE PatchEvent(s)
          BY <1>3, <3>1, <5>1, Zenon DEF PatchEvent
        <5>2. CASE PostEvent(s) /\ resource = "client_discovery" /\ remote[c] = NoEvent
          BY <1>3, <3>1, <5>2, Zenon DEF PostEvent
        <5>3. CASE PostEvent(s) /\ ~(resource = "client_discovery" /\ remote[c] = NoEvent)
          BY <1>3, <3>1, <5>3, Zenon DEF PostEvent
        <5> QED
          BY <1>7, <3>3, <5>1, <5>2, <5>3
      <4>2. step \in SyncStep
        BY DEF SyncStep
      <4>3. PICK r \in SyncRow : /\ Turns(s, r) /\ SameRequest(r, q)
                                 /\ r.step = step /\ r.data = data
        BY <1>0, <1>1, <4>1, <4>2, LookTurns
      <4> QED
        BY <3>1, <4>3 DEF SameRequest
    <3> QED
      BY <3>2, <3>3
  <2> QED
    BY <1>0, <1>2, <1>4, <2>1, <2>2, SyncWrites
<1> QED
  BY <1>6, <1>7

\* The holder of the lease records the event.
LEMMA EventsOfRecords ==
  ASSUME OwnersSide, EventsSide, NEW s \in Sync, RecordCreation(s) \/ RecordSync(s)
  PROVE  EventsSide'
<1>0. SyncsTyped /\ UNCHANGED <<remote, writes, resource>>
  BY DEF RecordCreation, RecordSync, EndWith, EventsSide, ownerVars, eventVars
<1>1. PICK q \in SyncRow : q = sync[s]
  BY <1>0, RowOf DEF RecordCreation, RecordSync, Doing, SyncStep
<1>2. /\ q.step \in {"created", "saved"} /\ connection.lease = s
      /\ binding' = [binding EXCEPT ![q.preview.calendar] = q.data.etag]
  BY <1>1 DEF RecordCreation, RecordSync, Doing, HoldsLease, Guard, Calendar, Seen
<1>3. connection'.lease \in {connection.lease, Nobody}
  BY ReleaseFits DEF RecordCreation, RecordSync, connectVars
<1>4. CASE RecordCreation(s)
  <2>1. PICK r \in SyncRow : /\ Turns(s, r) /\ SameRequest(r, q)
                             /\ r.step = "fetched" /\ r.data = q.data
    BY <1>0, <1>1, <1>4, ProceedTurns DEF RecordCreation, SyncStep
  <2> QED
    BY <1>0, <1>1, <1>2, <1>3, <2>1, SyncBinds DEF SameRequest
<1>5. CASE RecordSync(s)
  <2>1. Turns(s, NoSync)
    BY <1>0, <1>5 DEF RecordSync, EndWith, Turns, SyncsTyped
  <2> QED
    BY <1>0, <1>1, <1>2, <1>3, <2>1, SyncBinds
<1> QED
  BY <1>4, <1>5

\* Every step keeps the side of the events.
LEMMA EventsStep ==
  ASSUME OwnersSide, EventsSide, TasksTyped, [MirrorNext]_mirrorVars
  PROVE  EventsSide'
<1>0. connection \in ConnectionRow /\ ConnectionOK
  BY DEF OwnersSide, ConnectionOK
<1>1. ASSUME NEW s \in Sync, SyncStepOf(s) PROVE EventsSide'
  <2>1. CASE RefreshTokens(s)
    <3>1. connection'.lease = connection.lease
      BY <1>0, <2>1 DEF RefreshTokens, ConnectionRow
    <3> QED
      BY <2>1, <3>1, EventsRest DEF RefreshTokens, ownerVars, eventVars
  <2>2. CASE NothingToCancel(s) \/ FailSync(s) \/ LoseAuthorization(s) \/ CrashSync(s)
    <3>1. /\ sync' = [sync EXCEPT ![s] = NoSync]
          /\ UNCHANGED <<remote, writes, binding, resource>>
      BY <2>2 DEF NothingToCancel, FailSync, LoseAuthorization, CrashSync, EndWith, eventVars,
         ownerVars
    <3>2. connection'.lease \in {connection.lease, Nobody}
      <4>1. CASE LoseAuthorization(s)
        <5>1. [connection EXCEPT !.status = "needs_reconnect", !.tokens = FALSE]
                \in ConnectionRow
          BY <1>0 DEF ConnectionRow
        <5> QED
          BY <1>0, <4>1, <5>1, RenewFits DEF LoseAuthorization
      <4> QED
        BY <2>2, <4>1, ReleaseFits DEF NothingToCancel, FailSync, CrashSync
    <3> QED
      BY <3>1, <3>2, EventsOfEnd
  <2> QED
    BY <1>1, <2>1, <2>2, EventsOfStart, EventsOfChecks, EventsOfWrites, EventsOfRecords
       DEF SyncStepOf
<1>2. ASSUME UNCHANGED <<sync, remote, writes, binding, resource>>, Renews \/
             connection' = connection
      PROVE  EventsSide'
  BY <1>0, <1>2, RenewFits, EventsRest DEF Renews
<1>3. CASE UNCHANGED mirrorVars
  BY <1>2, <1>3 DEF mirrorVars, connectVars, ownerVars, eventVars
<1>4. ASSUME NEW f \in Flow, BeginConnect(f) \/ ClaimState(f) \/ CompleteConnect(f)
                             \/ AbandonConnect(f)
      PROVE  EventsSide'
  <2>1. [connection EXCEPT !.status = "active", !.tokens = TRUE] \in ConnectionRow
    BY <1>0 DEF ConnectionRow
  <2> QED
    BY <1>0, <1>2, <1>4, <2>1
       DEF BeginConnect, ClaimState, CompleteConnect, AbandonConnect, Renews, ownerVars,
           eventVars, ConnectionRow
<1>5. ASSUME NEW c \in CalendarId, ConfigureCalendar(c) PROVE EventsSide'
  <2>1. [connection EXCEPT !.calendar = c] \in ConnectionRow
    BY <1>0 DEF ConnectionRow
  <2> QED
    BY <1>0, <1>2, <1>5, <2>1
       DEF ConfigureCalendar, Renews, ownerVars, eventVars, ConnectionRow
<1>6. CASE DisconnectCalendar
  <2>1. [connection EXCEPT !.status = "disconnected", !.tokens = FALSE] \in ConnectionRow
    BY <1>0 DEF ConnectionRow
  <2> QED
    BY <1>0, <1>2, <1>6, <2>1
       DEF DisconnectCalendar, Renews, ownerVars, eventVars, ConnectionRow
<1>7. CASE LeaseRunsOut
  <2>1. connection'.lease = connection.lease
    BY <1>0, <1>7 DEF LeaseRunsOut, ConnectionRow
  <2> QED
    BY <1>7, <2>1, EventsRest DEF LeaseRunsOut, ownerVars, eventVars
<1>8. CASE ChangeMeeting \/ SwitchStop \/ \E on \in BOOLEAN : ConfigureAutomation(on)
  BY <1>2, <1>8 DEF ChangeMeeting, SwitchStop, ConfigureAutomation, connectVars, eventVars,
     ownerVars
<1>9. CASE EditOutside
  BY <1>9, OthersWrite
<1> QED
  BY <1>1, <1>3, <1>4, <1>5, <1>6, <1>7, <1>8, <1>9 DEF MirrorNext, SyncStepOf

-----------------------------------------------------------------------------
(* CalendarMirror: the tasks, and the one that is due.                     *)

\* A key names what was saved when it was made; nothing later looks like it.
KeyFits(k) ==
  /\ k.policy <= policy.revision /\ k.preview.revision <= connection.revision
  /\ k.preview.revision = connection.revision => k.preview.calendar = connection.calendar
  /\ k.preview.meeting.version <= meeting.version
  /\ k.preview.meeting.version = meeting.version => k.preview.meeting = meeting
KeysFit == \A k \in DOMAIN task : KeyFits(k)
Requested(s) ==
  sync[s] # NoSync /\ sync[s].mode = "automatic" => TaskOf(s) \in DOMAIN task
\* Calendar c shows meeting m or what somebody typed there, and no sync under way
\* can still put back anything else.
Upheld(m, c) ==
  /\ remote[c].content \in {m} \cup Outside
  /\ \A t \in Sync : sync[t].step = "patching" /\ sync[t].preview.calendar = c =>
       sync[t].preview.meeting = m \/ sync[t].data.etag # remote[c].etag
Due == Key(policy, meeting)
DueFits ==
  Granted(policy) =>
    /\ resource = "client_discovery" => Due \in DOMAIN task /\ task[Due] # "cancelled"
    /\ Due \in DOMAIN task /\ task[Due] = "done" /\ ~meeting.cancelled =>
         Upheld(meeting, connection.calendar)
TasksSide ==
  TasksTyped /\ KeysFit /\ DueFits /\ \A s \in Sync : Requested(s)

\* The side of the tasks holds initially.
LEMMA TasksSideInit == MirrorInit => TasksSide
BY DEF MirrorInit, TasksSide, TasksTyped, KeysFit, DueFits, Granted, Requested, NoSync

\* Revisions are numbers and a policy is of a connection that was.
LEMMA OwnerNumbers ==
  ASSUME OwnersSide
  PROVE  /\ connection.revision \in Nat /\ connection.calendar \in CalendarId
         /\ policy.revision \in Nat /\ policy.connection \in Nat
         /\ policy.connection <= connection.revision
         /\ meeting \in MeetingRow /\ meeting.version \in Nat
BY DEF OwnersSide, ConnectionOK, ConnectionRow, OwnerOK, MeetingRow

\* Task keys stay of the past: revisions only grow.
LEMMA KeysStay ==
  ASSUME OwnersSide, OwnersSide', MovesOn, TasksTyped, KeysFit,
         \A k \in DOMAIN task' : /\ k \in DOMAIN task \/ (k \in KeyRow /\ KeyFits(k)')
                                 /\ task'[k] \in TaskStates
  PROVE  TasksTyped' /\ KeysFit'
<1>1. ASSUME NEW k \in DOMAIN task PROVE KeyFits(k)'
  <2>1. k \in KeyRow /\ KeyFits(k)
    BY DEF TasksTyped, KeysFit
  <2>2. k.policy \in Nat /\ k.preview.revision \in Nat /\ k.preview.meeting.version \in Nat
    BY <2>1 DEF KeyRow, PreviewRow, MeetingRow
  <2>3. /\ policy'.revision \in Nat /\ connection'.revision \in Nat
        /\ meeting'.version \in Nat
    BY DEF OwnersSide, ConnectionOK, ConnectionRow, OwnerOK, MeetingRow
  <2> QED
    BY <2>1, <2>2, <2>3, OwnerNumbers DEF KeyFits, MovesOn
<1> QED
  BY <1>1 DEF TasksTyped, KeysFit

\* While neither the policy nor the meeting changes, what is due stays so for as
\* long as the automation is in force.
LEMMA DueStays ==
  ASSUME OwnersSide, OwnersSide', MovesOn, UNCHANGED <<policy, meeting>>, Granted(policy)'
  PROVE  /\ Granted(policy) /\ Due' = Due
         /\ connection'.revision = connection.revision
         /\ connection'.calendar = connection.calendar
<1>1. connection'.revision = connection.revision
  <2>1. connection'.revision \in Nat /\ connection'.revision = policy.connection
    BY DEF OwnersSide, ConnectionOK, ConnectionRow, Granted
  <2> QED
    BY <2>1, OwnerNumbers DEF MovesOn
<1> QED
  BY <1>1 DEF MovesOn, Granted, Due, Key, Preview

\* The due task stays due, or done with its event upheld, while the owner changes nothing.
LEMMA DueKept ==
  ASSUME OwnersSide, OwnersSide', MovesOn, DueFits, UNCHANGED <<policy, meeting>>,
         DOMAIN task \subseteq DOMAIN task',
         NEW d, d = Due, NEW m, m = meeting, NEW c, c = connection.calendar,
         ASSUME Granted(policy), Granted(policy)', d \in DOMAIN task'
         PROVE  /\ resource = "client_discovery" /\ task'[d] = "cancelled" =>
                     d \in DOMAIN task /\ task[d] = "cancelled"
                /\ task'[d] = "done" /\ ~meeting.cancelled => Upheld(m, c)'
  PROVE  DueFits'
<1> SUFFICES ASSUME Granted(policy)'
             PROVE  /\ resource' = "client_discovery" =>
                         Due' \in DOMAIN task' /\ task'[Due'] # "cancelled"
                    /\ Due' \in DOMAIN task' /\ task'[Due'] = "done" /\ ~meeting'.cancelled =>
                         Upheld(meeting, connection.calendar)'
  BY DEF DueFits
<1>1. Granted(policy) /\ Due' = d /\ connection'.calendar = c /\ meeting' = m
  BY DueStays
<1>2. Upheld(m, c)' => Upheld(meeting, connection.calendar)'
  BY <1>1 DEF Upheld
<1>3. resource' = resource
  BY DEF MovesOn
<1> QED
  BY <1>1, <1>2, <1>3 DEF DueFits

\* Steps of a request that do not end it.
GoesOn(s) ==
  \/ AskSync(s) \/ RunTask(s) \/ TakeLease(s) \/ RefreshTokens(s) \/ FetchEvent(s)
  \/ CheckBeforeCreate(s) \/ PostEvent(s) \/ RecordCreation(s) \/ CheckBeforeUpdate(s)
  \/ PatchEvent(s)

\* They leave the request as it was asked for, and let it patch only what is saved.
LEMMA RowsKeep ==
  ASSUME OwnersSide, EventsSide, NEW s \in Sync, GoesOn(s), ~AskSync(s), ~RunTask(s)
  PROVE  /\ sync[s] # NoSync
         /\ sync'[s].mode = sync[s].mode /\ sync'[s].policy = sync[s].policy
         /\ sync'[s].preview = sync[s].preview
         /\ sync'[s].step = "patching" =>
              sync'[s] = sync[s] \/ sync'[s].preview = Preview(meeting)
         /\ \A t \in Sync \ {s} : sync'[t] = sync[t]
<1>0. SyncsTyped /\ NoSync.step = "none"
  BY DEF EventsSide, NoSync
<1>1. CASE TakeLease(s)
  <2>1. sync[s] # NoSync
    BY <1>0, <1>1 DEF TakeLease, Doing
  <2>2. sync[s] \in SyncRow
    BY <1>0, <2>1, RowOf
  <2> QED
    BY <1>0, <1>1, <2>1, <2>2 DEF TakeLease, SyncsTyped, SyncRow
<1>2. CASE RefreshTokens(s)
  BY <1>0, <1>2 DEF RefreshTokens, Doing
<1>3. CASE FetchEvent(s)
  <2>1. sync[s] # NoSync
    BY <1>0, <1>3 DEF FetchEvent, Doing
  <2>2. sync[s] \in SyncRow
    BY <1>0, <2>1, RowOf
  <2> QED
    BY <1>0, <1>3, <2>1, <2>2 DEF FetchEvent, SyncsTyped, SyncRow
<1>4. ASSUME NEW step \in SyncStep, Proceed(s, step), sync[s] # NoSync,
             step = "patching" => sync[s].preview = Preview(meeting)
      PROVE  /\ sync'[s].mode = sync[s].mode /\ sync'[s].policy = sync[s].policy
             /\ sync'[s].preview = sync[s].preview
             /\ sync'[s].step = "patching" => sync'[s].preview = Preview(meeting)
             /\ \A t \in Sync \ {s} : sync'[t] = sync[t]
  <2>1. sync[s] \in SyncRow
    BY <1>0, <1>4, RowOf
  <2> QED
    BY <1>0, <1>4, <2>1 DEF Proceed, SyncsTyped, SyncRow
<1>5. CASE CheckBeforeCreate(s)
  BY <1>0, <1>4, <1>5 DEF CheckBeforeCreate, Doing, SyncStep
<1>6. CASE RecordCreation(s)
  BY <1>0, <1>4, <1>6 DEF RecordCreation, Doing, SyncStep
<1>7. CASE CheckBeforeUpdate(s)
  BY <1>0, <1>4, <1>7 DEF CheckBeforeUpdate, Doing, SyncStep, StillCurrent, Fresh
<1>8. CASE PostEvent(s) \/ PatchEvent(s)
  <2>1. sync[s] # NoSync
    BY <1>0, <1>8 DEF PostEvent, PatchEvent, Doing
  <2>2. sync[s] \in SyncRow
    BY <1>0, <2>1, RowOf
  <2> QED
    BY <1>0, <1>8, <2>1, <2>2 DEF PostEvent, PatchEvent, SyncsTyped, SyncRow
<1> QED
  BY <1>1, <1>2, <1>3, <1>5, <1>6, <1>7, <1>8 DEF GoesOn

\* An event that shows the meeting keeps showing it while nobody writes it.
LEMMA UpheldIf ==
  ASSUME EventsSide, NEW m, NEW c \in CalendarId, Upheld(m, c), remote'[c] = remote[c],
         \A t \in Sync : sync'[t].step = "patching" =>
           sync'[t] = sync[t] \/ sync'[t].preview.meeting = m
  PROVE  Upheld(m, c)'
BY DEF Upheld

\* It keeps showing it when what is written there shows it too, or comes from outside.
LEMMA UpheldWritten ==
  ASSUME EventsSide, NEW m, NEW c \in CalendarId, Upheld(m, c),
         NEW d \in CalendarId, NEW content \in ContentRow, Accept(d, content),
         d = c => content \in {m} \cup Outside,
         \A t \in Sync : sync'[t].step = "patching" => sync'[t] = sync[t]
  PROVE  Upheld(m, c)'
<1>0. remote \in [CalendarId -> EventRow] /\ writes \in Nat
  BY DEF EventsSide, EventsTyped
<1>1. CASE d # c
  <2>1. remote'[c] = remote[c]
    BY <1>0, <1>1 DEF Accept
  <2> QED
    BY <2>1, UpheldIf
<1>2. CASE d = c
  <2>1. remote'[c].content = content /\ remote'[c].etag = writes + 1
    BY <1>0, <1>2 DEF Accept
  <2>2. ASSUME NEW t \in Sync, sync[t].step = "patching", sync[t].preview.calendar = c
        PROVE  sync[t].data.etag # writes + 1
    <3>1. sync[t] \in SyncRow /\ sync[t].step \in Looked
      BY <2>2 DEF EventsSide, SyncsTyped, NoSync, Looked
    <3>2. /\ sync[t].data.etag \in Nat /\ sync[t].data.etag <= remote[c].etag
          /\ remote[c].etag \in Nat /\ remote[c].etag <= writes
      BY <1>0, <2>2, <3>1 DEF EventsSide, SyncsFit, SyncFits, EventFits, SyncRow, EventRow
    <3> QED
      BY <1>0, <3>2
  <2> QED
    BY <1>2, <2>1, <2>2 DEF Upheld
<1> QED
  BY <1>1, <1>2

\* What a sync wants to write to a calendar that is upheld is what upholds it.
LEMMA UpheldBySync ==
  ASSUME OwnersSide, EventsSide, NEW m, NEW c \in CalendarId, Upheld(m, c),
         m.version \in Nat, NEW s \in Sync,
         PostEvent(s) \/ PatchEvent(s) \/ LoseAnswer(s),
         ~(PostEvent(s) /\ remote[Calendar(s)] # NoEvent)
  PROVE  Upheld(m, c)'
<1>0. SyncsTyped
  BY DEF EventsSide
<1>1. PICK q \in SyncRow : q = sync[s]
  BY <1>0, RowOf DEF PostEvent, PatchEvent, LoseAnswer, Doing, SyncStep
<1>2. PICK d \in CalendarId, content \in ContentRow :
        d = q.preview.calendar /\ content = q.preview.meeting
  BY DEF SyncRow, PreviewRow, MeetingRow, ContentRow
<1>3. Calendar(s) = d /\ Wanted(s) = content
  BY <1>1, <1>2 DEF Calendar, Wanted
<1>4. Accept(d, content)
  BY <1>3 DEF PostEvent, PatchEvent, LoseAnswer
<1>5. d = c => content \in {m} \cup Outside
  <2>0. NoEvent.content.version = -2
    BY DEF NoEvent
  <2>1. remote[c].content.version # -2
    BY DEF Upheld, Outside, Foreign
  <2>2. d = c => sync[s].step = "patching" /\ sync[s].data.etag = remote[c].etag
    BY <1>3, <2>0, <2>1 DEF PostEvent, PatchEvent, LoseAnswer, Doing, Matches, Seen
  <2> QED
    BY <1>1, <1>2, <2>2 DEF Upheld
<1>6. ASSUME NEW t \in Sync, sync'[t].step = "patching" PROVE sync'[t] = sync[t]
  <2>1. CASE LoseAnswer(s)
    BY <1>0, <1>6, <2>1 DEF LoseAnswer, EndWith, SyncsTyped, NoSync
  <2>2. CASE PostEvent(s) \/ PatchEvent(s)
    BY <1>0, <1>1, <1>6, <2>2 DEF PostEvent, PatchEvent, SyncsTyped, SyncRow
  <2> QED
    BY <2>1, <2>2
<1> QED
  BY <1>2, <1>4, <1>5, <1>6, UpheldWritten

\* Steps that leave every task as it is.
LEMMA TasksRest ==
  ASSUME OwnersSide, OwnersSide', MovesOn, TasksSide, UNCHANGED <<policy, meeting, task>>,
         \A t \in Sync :
           \/ sync'[t] = sync[t] \/ sync'[t].mode = "manual"
           \/ /\ sync[t] # NoSync /\ sync'[t].mode = sync[t].mode
              /\ sync'[t].policy = sync[t].policy /\ sync'[t].preview = sync[t].preview,
         \A m \in MeetingRow, c \in CalendarId :
           m = meeting /\ c = connection.calendar /\ Upheld(m, c) => Upheld(m, c)'
  PROVE  TasksSide'
<1>1. TasksTyped' /\ KeysFit'
  <2>1. \A k \in DOMAIN task' : k \in DOMAIN task /\ task'[k] \in TaskStates
    BY DEF TasksSide, TasksTyped
  <2> QED
    BY <2>1, KeysStay DEF TasksSide
<1>2. \A s \in Sync : Requested(s)'
  BY DEF TasksSide, Requested, TaskOf
<1>3. DueFits'
  <2>0. PICK d : d = Due
    OBVIOUS
  <2>1. PICK m \in MeetingRow, c \in CalendarId : m = meeting /\ c = connection.calendar
    BY OwnerNumbers
  <2>2. ASSUME Granted(policy), Granted(policy)', d \in DOMAIN task'
        PROVE  /\ resource = "client_discovery" /\ task'[d] = "cancelled" =>
                    d \in DOMAIN task /\ task[d] = "cancelled"
               /\ task'[d] = "done" /\ ~meeting.cancelled => Upheld(m, c)'
    BY <2>0, <2>1, <2>2 DEF TasksSide, DueFits
  <2>3. DueFits /\ DOMAIN task \subseteq DOMAIN task'
    BY DEF TasksSide
  <2> QED
    BY <2>0, <2>1, <2>2, <2>3, DueKept
<1> QED
  BY <1>1, <1>2, <1>3 DEF TasksSide

\* The end of a synchronisation keeps the side of the tasks.
LEMMA TasksOfEnd ==
  ASSUME OwnersSide, OwnersSide', MovesOn, EventsSide, TasksSide, UNCHANGED meeting,
         NEW s \in Sync, sync[s] # NoSync, NEW status, EndWith(s, status),
         sync[s].mode = "automatic" => status \in TaskStates,
         NEW m \in MeetingRow, NEW c \in CalendarId, m = meeting, c = connection.calendar,
         Upheld(m, c) => Upheld(m, c)',
         ASSUME sync[s].mode = "automatic", TaskOf(s) = Due, Granted(policy), Granted(policy)'
         PROVE  /\ resource = "client_discovery" => status # "cancelled"
                /\ status = "done" /\ ~meeting.cancelled => Upheld(m, c)'
  PROVE  TasksSide'
<1>0. /\ SyncsTyped /\ TasksTyped /\ KeysFit /\ DueFits /\ \A t \in Sync : Requested(t)
      /\ sync' = [sync EXCEPT ![s] = NoSync] /\ policy' = policy
  BY DEF EventsSide, TasksSide, EndWith
<1>1. ASSUME NEW t \in Sync PROVE Requested(t)'
  <2>1. DOMAIN task \subseteq DOMAIN task'
    BY <1>0 DEF EndWith, SetTask
  <2>2. CASE t = s
    BY <1>0, <2>2 DEF Requested, SyncsTyped
  <2>3. CASE t # s
    BY <1>0, <2>1, <2>3 DEF Requested, SyncsTyped, TaskOf
  <2> QED
    BY <2>2, <2>3
<1>2. CASE sync[s].mode # "automatic"
  <2>1. task' = task
    BY <1>2 DEF EndWith
  <2>2. \A t \in Sync : sync'[t] = sync[t] \/ t = s
    BY <1>0 DEF SyncsTyped
  <2>3. TasksTyped' /\ KeysFit'
    BY <1>0, <2>1, KeysStay DEF TasksTyped
  <2>4. DueFits'
    <3>1. PICK d : d = Due
      OBVIOUS
    <3>2. ASSUME Granted(policy), Granted(policy)', d \in DOMAIN task'
          PROVE  /\ resource = "client_discovery" /\ task'[d] = "cancelled" =>
                      d \in DOMAIN task /\ task[d] = "cancelled"
                 /\ task'[d] = "done" /\ ~meeting.cancelled => Upheld(m, c)'
      BY <1>0, <2>1, <3>1, <3>2 DEF DueFits
    <3> QED
      BY <1>0, <2>1, <3>1, <3>2, DueKept
  <2> QED
    BY <1>1, <2>3, <2>4 DEF TasksSide
<1>3. CASE sync[s].mode = "automatic"
  <2>1. PICK k \in DOMAIN task : k = TaskOf(s)
    BY <1>0, <1>3 DEF Requested
  <2>2. /\ DOMAIN task' = DOMAIN task /\ task'[k] = status
        /\ \A j \in DOMAIN task \ {k} : task'[j] = task[j]
    BY <1>3, <2>1 DEF EndWith, SetTask
  <2>3. TasksTyped' /\ KeysFit'
    BY <1>0, <1>3, <2>2, KeysStay DEF TasksTyped
  <2>4. DueFits'
    <3>1. PICK d : d = Due
      OBVIOUS
    <3>2. ASSUME Granted(policy), Granted(policy)', d \in DOMAIN task'
          PROVE  /\ resource = "client_discovery" /\ task'[d] = "cancelled" =>
                      d \in DOMAIN task /\ task[d] = "cancelled"
                 /\ task'[d] = "done" /\ ~meeting.cancelled => Upheld(m, c)'
      <4>1. CASE d = k
        BY <1>3, <2>1, <2>2, <3>1, <3>2, <4>1
      <4>2. CASE d # k
        BY <1>0, <2>2, <3>1, <3>2, <4>2 DEF DueFits
      <4> QED
        BY <4>1, <4>2
    <3> QED
      BY <1>0, <2>2, <3>1, <3>2, DueKept
  <2> QED
    BY <1>1, <2>3, <2>4 DEF TasksSide
<1> QED
  BY <1>2, <1>3

\* A request ends: only a failed check of what is no longer saved cancels a task, and
\* what RecordSync reports done is there.
LEMMA TasksOfEnds ==
  ASSUME OwnersSide, OwnersSide', MovesOn, EventsSide, TasksSide, NEW s \in Sync,
         \/ NothingToCancel(s) \/ RecordSync(s) \/ FailSync(s) \/ LoseAuthorization(s)
         \/ LoseAnswer(s) \/ CrashSync(s)
  PROVE  TasksSide'
<1>0. SyncsTyped /\ NoSync.step = "none" /\ UNCHANGED <<meeting, policy, resource>>
  BY DEF EventsSide, NoSync, NothingToCancel, RecordSync, FailSync, LoseAuthorization,
     LoseAnswer, CrashSync, EndWith, ownerVars
<1>1. PICK q \in SyncRow : q = sync[s] /\ sync[s] # NoSync
  BY <1>0, RowOf DEF NothingToCancel, RecordSync, FailSync, LoseAuthorization, LoseAnswer,
     CrashSync, Doing
<1>2. PICK m \in MeetingRow, c \in CalendarId : m = meeting /\ c = connection.calendar
  BY OwnerNumbers
<1>3. \A t \in Sync : sync'[t].step = "patching" => sync'[t] = sync[t]
  BY <1>0 DEF NothingToCancel, RecordSync, FailSync, LoseAuthorization, LoseAnswer,
     CrashSync, EndWith, SyncsTyped
<1>4. Upheld(m, c) => Upheld(m, c)'
  <2>1. CASE LoseAnswer(s)
    <3>1. m.version \in Nat
      BY DEF MeetingRow
    <3>2. ~(PostEvent(s) /\ remote[Calendar(s)] # NoEvent)
      <4>1. CASE PostEvent(s) /\ remote[Calendar(s)] # NoEvent
        <5>1. sync[s].step = "posting"
          BY <4>1 DEF PostEvent, Doing
        <5> QED
          BY <2>1, <4>1, <5>1 DEF LoseAnswer, Doing
      <4> QED
        BY <4>1
    <3> QED
      BY <2>1, <3>1, <3>2, UpheldBySync
  <2>2. CASE ~LoseAnswer(s)
    <3>1. remote' = remote
      BY <2>2 DEF NothingToCancel, RecordSync, FailSync, LoseAuthorization, CrashSync,
         eventVars
    <3> QED
      BY <1>3, <3>1, UpheldIf
  <2> QED
    BY <2>1, <2>2
<1>5. TaskOf(s) = Due => /\ q.policy = policy.revision /\ q.preview = Preview(meeting)
                         /\ q.preview.calendar = c /\ q.preview.meeting = m
  BY <1>1, <1>2 DEF TaskOf, Due, Key, Preview
<1>6. ASSUME NEW status \in {"queued", "failed"}, EndWith(s, status) PROVE TasksSide'
  BY <1>0, <1>1, <1>2, <1>4, <1>6, TasksOfEnd DEF TaskStates
<1>7. ASSUME NEW status \in Verdicts(s), EndWith(s, status) PROVE TasksSide'
  <2>1. CASE sync[s].mode = "manual"
    BY <1>0, <1>1, <1>2, <1>4, <1>7, <2>1, TasksOfEnd
  <2>2. CASE sync[s].mode # "manual" /\ ~Dropped(s)
    BY <1>6, <1>7, <2>2 DEF Verdicts
  <2>3. CASE sync[s].mode # "manual" /\ Dropped(s)
    <3>1. status = "cancelled"
      BY <1>7, <2>3 DEF Verdicts
    <3>2. ASSUME TaskOf(s) = Due, Granted(policy) PROVE resource # "client_discovery"
      BY <1>1, <1>5, <2>3, <3>2 DEF Dropped, Stale, Fresh, Granted
    <3>3. ASSUME sync[s].mode = "automatic", TaskOf(s) = Due, Granted(policy),
                 Granted(policy)'
          PROVE  /\ resource = "client_discovery" => status # "cancelled"
                 /\ status = "done" /\ ~meeting.cancelled => Upheld(m, c)'
      BY <3>1, <3>2, <3>3
    <3>4. status \in TaskStates
      BY <3>1 DEF TaskStates
    <3> QED
      BY <1>0, <1>1, <1>2, <1>4, <1>7, <3>3, <3>4, TasksOfEnd
  <2> QED
    BY <2>1, <2>2, <2>3
<1>8. CASE FailSync(s) \/ LoseAnswer(s)
  BY <1>7, <1>8 DEF FailSync, LoseAnswer
<1>9. CASE CrashSync(s)
  BY <1>6, <1>9 DEF CrashSync
<1>10. CASE LoseAuthorization(s)
  <2>1. ~(Granted(policy)')
    <3>1. connection'.revision = connection.revision + 1
      <4>1. PICK fields \in ConnectionRow :
              Renew(fields) /\ fields.revision = connection.revision
        <5>1. [connection EXCEPT !.status = "needs_reconnect", !.tokens = FALSE]
                \in ConnectionRow
          BY DEF OwnersSide, ConnectionOK, ConnectionRow
        <5>2. [connection EXCEPT !.status = "needs_reconnect", !.tokens = FALSE].revision
                = connection.revision
          BY DEF OwnersSide, ConnectionOK, ConnectionRow
        <5> QED
          BY <1>10, <5>1, <5>2 DEF LoseAuthorization
      <4> QED
        BY <4>1, RenewFits DEF OwnersSide
    <3> QED
      BY <1>0, <3>1, DueStays, OwnerNumbers
  <2>2. PICK status \in {"queued", "failed", "cancelled"} : EndWith(s, status)
    BY <1>10 DEF LoseAuthorization
  <2> QED
    BY <1>0, <1>1, <1>2, <1>4, <2>1, <2>2, TasksOfEnd DEF TaskStates
<1>11. CASE NothingToCancel(s)
  <2>1. q.preview.meeting.cancelled /\ EndWith(s, "done")
    BY <1>1, <1>11 DEF NothingToCancel, Wanted
  <2>2. TaskOf(s) = Due => meeting.cancelled
    BY <1>2, <1>5, <2>1
  <2>3. ASSUME sync[s].mode = "automatic", TaskOf(s) = Due, Granted(policy),
               Granted(policy)'
        PROVE  /\ resource = "client_discovery" => "done" # "cancelled"
               /\ "done" = "done" /\ ~meeting.cancelled => Upheld(m, c)'
    BY <2>2, <2>3
  <2>4. PICK status \in TaskStates : status = "done"
    BY DEF TaskStates
  <2> QED
    BY <1>0, <1>1, <1>2, <1>4, <2>1, <2>3, <2>4, TasksOfEnd
<1>12. CASE RecordSync(s)
  <2>1. PICK status \in {"done", "queued", "failed"} : EndWith(s, status)
    BY <1>12 DEF RecordSync
  <2>2. TaskOf(s) = Due => Upheld(m, c)'
    <3>1. /\ connection.lease = s /\ q.step = "saved" /\ remote' = remote
          /\ SyncFits(s, q) /\ q.data.etag \in Nat
      BY <1>1, <1>12 DEF RecordSync, Guard, Doing, eventVars, EventsSide, SyncsFit, SyncRow,
         EventRow
    <3>2. ASSUME NEW t \in Sync, sync'[t].step = "patching"
          PROVE  sync'[t] = sync[t] /\ sync'[t].data.etag < q.data.etag
      <4>1. sync'[t] = sync[t] /\ t # s
        BY <1>0, <1>3, <2>1, <3>2 DEF EndWith, SyncsTyped
      <4> QED
        BY <1>1, <3>1, <3>2, <4>1 DEF EventsSide, HolderSawMore
    <3>3. /\ q.data.etag <= remote[q.preview.calendar].etag
          /\ remote[q.preview.calendar].content \in {q.preview.meeting} \cup Outside
      BY <3>1 DEF SyncFits, Looked
    <3>4. remote[c].etag \in Nat
      BY DEF EventsSide, EventsTyped, EventRow
    <3>5. ASSUME NEW t \in Sync, sync'[t].step = "patching" PROVE sync'[t].data.etag \in Nat
      BY <1>0, <3>2, <3>5 DEF SyncsTyped, SyncRow, EventRow
    <3> QED
      BY <1>5, <3>1, <3>2, <3>3, <3>4, <3>5 DEF Upheld
  <2> QED
    BY <1>0, <1>1, <1>2, <1>4, <2>1, <2>2, TasksOfEnd DEF TaskStates
<1> QED
  BY <1>8, <1>9, <1>10, <1>11, <1>12

\* Starting a task's synchronisation keeps it.
LEMMA TasksOfRun ==
  ASSUME OwnersSide, OwnersSide', MovesOn, EventsSide, TasksSide, NEW s \in Sync, RunTask(s)
  PROVE  TasksSide'
<1>0. /\ SyncsTyped /\ TasksTyped /\ KeysFit /\ DueFits /\ \A t \in Sync : Requested(t)
      /\ UNCHANGED <<meeting, policy, resource, remote>>
  BY DEF EventsSide, TasksSide, RunTask, ownerVars, eventVars
<1>1. PICK k \in DOMAIN task :
        /\ task[k] = "queued" /\ task' = SetTask(k, "running")
        /\ sync' = [sync EXCEPT ![s] = NewSync("automatic", k.policy, k.preview, 0)]
  BY DEF RunTask
<1>2. /\ DOMAIN task' = DOMAIN task /\ task'[k] = "running"
      /\ \A j \in DOMAIN task \ {k} : task'[j] = task[j]
  BY <1>1 DEF SetTask
<1>3. TasksTyped' /\ KeysFit'
  BY <1>0, <1>2, KeysStay DEF TasksTyped, TaskStates
<1>4. sync'[s].policy = k.policy /\ sync'[s].preview = k.preview /\ sync'[s].step = "asked"
  BY <1>0, <1>1 DEF SyncsTyped, NewSync
<1>5. ASSUME NEW t \in Sync PROVE Requested(t)'
  <2>1. CASE t = s
    <3>1. k \in KeyRow
      BY <1>0 DEF TasksTyped
    <3>2. [policy |-> k.policy, preview |-> k.preview] = k
      BY <3>1 DEF KeyRow
    <3>3. TaskOf(s)' = k
      BY <1>4, <3>2 DEF TaskOf
    <3> QED
      BY <1>2, <2>1, <3>3 DEF Requested
  <2>2. CASE t # s
    BY <1>0, <1>1, <1>2, <2>2 DEF Requested, SyncsTyped, TaskOf
  <2> QED
    BY <2>1, <2>2
<1>6. PICK m \in MeetingRow, c \in CalendarId : m = meeting /\ c = connection.calendar
  BY OwnerNumbers
<1>7. Upheld(m, c) => Upheld(m, c)'
  <2>1. \A t \in Sync : sync'[t].step = "patching" => sync'[t] = sync[t]
    BY <1>0, <1>1, <1>4 DEF SyncsTyped
  <2> QED
    BY <1>0, <2>1, UpheldIf
<1>8. DueFits'
  <2>1. PICK d : d = Due
    OBVIOUS
  <2>2. ASSUME Granted(policy), Granted(policy)', d \in DOMAIN task'
        PROVE  /\ resource = "client_discovery" /\ task'[d] = "cancelled" =>
                    d \in DOMAIN task /\ task[d] = "cancelled"
               /\ task'[d] = "done" /\ ~meeting.cancelled => Upheld(m, c)'
    BY <1>0, <1>2, <1>6, <1>7, <2>1, <2>2 DEF DueFits
  <2> QED
    BY <1>0, <1>2, <1>6, <2>1, <2>2, DueKept
<1> QED
  BY <1>3, <1>5, <1>8 DEF TasksSide

\* What is saved is due at once, as a task of its own.
LEMMA TasksOfChange ==
  ASSUME OwnersSide, OwnersSide', MovesOn, EventsSide, TasksSide,
         ChangeMeeting \/ \E on \in BOOLEAN : ConfigureAutomation(on)
  PROVE  TasksSide'
<1>0. /\ SyncsTyped /\ TasksTyped /\ KeysFit /\ \A t \in Sync : Requested(t)
      /\ UNCHANGED <<resource, connection, sync>>
  BY DEF EventsSide, TasksSide, ChangeMeeting, ConfigureAutomation, ownerVars, connectVars
<1>1. PICK d \in KeyRow : d = Due' /\ KeyFits(d)'
  <2>1. Due' \in KeyRow
    <3>1. Preview(meeting)' \in PreviewRow
      BY DEF OwnersSide, ConnectionOK, ConnectionRow, OwnerOK, Preview, PreviewRow
    <3>2. policy'.revision \in Nat
      BY DEF OwnersSide, OwnerOK
    <3> QED
      BY <3>1, <3>2 DEF Due, Key, KeyRow
  <2>2. PICK d : d = Due'
    OBVIOUS
  <2>3. KeyFits(d)'
    <3>1. /\ policy'.revision \in Nat /\ connection'.revision \in Nat
          /\ meeting'.version \in Nat
      BY DEF OwnersSide, ConnectionOK, ConnectionRow, OwnerOK, MeetingRow
    <3> QED
      BY <2>2, <3>1 DEF KeyFits, Due, Key, Preview
  <2> QED
    BY <2>1, <2>2, <2>3
<1>2. \/ task' = task /\ (resource = "client_discovery" /\ Granted(policy)' => d \in DOMAIN task)
      \/ /\ task' = SetTask(d, "queued") /\ d \notin DOMAIN task
  <2>1. CASE ChangeMeeting
    <3>1. policy' = policy /\ Enqueue(policy, meeting')
      BY <2>1 DEF ChangeMeeting
    <3>2. d = Key(policy, meeting') /\ (Granted(policy)' <=> Granted(policy))
      BY <1>0, <1>1, <3>1 DEF Due, Key, Preview, Granted
    <3> QED
      BY <3>1, <3>2 DEF Enqueue
  <2>2. CASE \E on \in BOOLEAN : ConfigureAutomation(on)
    <3>1. /\ meeting' = meeting
          /\ IF resource = "client_discovery" THEN Enqueue(policy', meeting) ELSE task' = task
      BY <2>2 DEF ConfigureAutomation, ownerVars
    <3>2. d = Key(policy', meeting) /\ (Granted(policy)' <=> Granted(policy'))
      BY <1>0, <1>1, <3>1 DEF Due, Key, Preview, Granted
    <3> QED
      BY <3>1, <3>2 DEF Enqueue
  <2> QED
    BY <2>1, <2>2
<1>3. d \notin DOMAIN task
  <2>1. ASSUME d \in DOMAIN task PROVE FALSE
    <3>1. /\ KeyFits(d) /\ d.policy = policy'.revision /\ d.preview.meeting = meeting'
      BY <1>0, <1>1, <2>1 DEF KeysFit, Due, Key, Preview
    <3> QED
      BY <3>1, OwnerNumbers DEF KeyFits, ChangeMeeting, ConfigureAutomation
  <2> QED
    BY <2>1
<1>4. /\ DOMAIN task \subseteq DOMAIN task' /\ DOMAIN task' \subseteq DOMAIN task \cup {d}
      /\ \A j \in DOMAIN task : task'[j] = task[j]
      /\ d \in DOMAIN task' => task'[d] = "queued"
      /\ resource = "client_discovery" /\ Granted(policy)' => d \in DOMAIN task'
  BY <1>2, <1>3 DEF SetTask
<1>5. TasksTyped' /\ KeysFit'
  BY <1>0, <1>1, <1>4, KeysStay DEF TasksTyped, TaskStates
<1>6. \A t \in Sync : Requested(t)'
  BY <1>0, <1>4 DEF Requested, TaskOf
<1>7. DueFits'
  BY <1>0, <1>1, <1>4 DEF DueFits
<1> QED
  BY <1>5, <1>6, <1>7 DEF TasksSide

\* Every step keeps the side of the tasks.
LEMMA TasksStep ==
  ASSUME OwnersSide, OwnersSide', MovesOn, EventsSide, TasksSide, [MirrorNext]_mirrorVars
  PROVE  TasksSide'
<1>0. SyncsTyped
  BY DEF EventsSide
<1>1. ASSUME UNCHANGED <<policy, meeting, task, sync>>,
             remote' = remote \/ EditOutside
      PROVE  TasksSide'
  <2>1. ASSUME NEW m \in MeetingRow, NEW c \in CalendarId, Upheld(m, c) PROVE Upheld(m, c)'
    <3>1. CASE remote' = remote
      BY <1>1, <2>1, <3>1, UpheldIf
    <3>2. CASE EditOutside
      <4>1. PICK e \in CalendarId, gone \in BOOLEAN :
              Accept(e, [Foreign EXCEPT !.cancelled = gone])
        BY <3>2 DEF EditOutside
      <4>2. PICK content : content = [Foreign EXCEPT !.cancelled = gone]
        OBVIOUS
      <4>3. content \in ContentRow
        BY <4>2 DEF Foreign, ContentRow
      <4>4. content \in Outside
        BY <4>2 DEF Foreign, Outside
      <4> QED
        BY <1>1, <2>1, <4>1, <4>2, <4>3, <4>4, UpheldWritten
    <3> QED
      BY <1>1, <3>1, <3>2
  <2> QED
    BY <1>1, <2>1, TasksRest
<1>2. CASE UNCHANGED mirrorVars
  BY <1>1, <1>2 DEF mirrorVars, ownerVars, taskVars, eventVars
<1>3. ASSUME NEW f \in Flow, BeginConnect(f) \/ ClaimState(f) \/ CompleteConnect(f)
                             \/ AbandonConnect(f)
      PROVE  TasksSide'
  BY <1>1, <1>3 DEF BeginConnect, ClaimState, CompleteConnect, AbandonConnect, ownerVars,
     taskVars, eventVars
<1>4. CASE \/ \E c \in CalendarId : ConfigureCalendar(c)
           \/ DisconnectCalendar \/ LeaseRunsOut \/ SwitchStop \/ EditOutside
  BY <1>1, <1>4 DEF ConfigureCalendar, DisconnectCalendar, LeaseRunsOut, SwitchStop,
     EditOutside, ownerVars, taskVars, eventVars
<1>5. CASE ChangeMeeting \/ \E on \in BOOLEAN : ConfigureAutomation(on)
  BY <1>5, TasksOfChange
<1>6. ASSUME NEW s \in Sync, SyncStepOf(s) PROVE TasksSide'
  <2>1. CASE \/ NothingToCancel(s) \/ RecordSync(s) \/ FailSync(s) \/ LoseAuthorization(s)
             \/ LoseAnswer(s) \/ CrashSync(s)
    BY <2>1, TasksOfEnds
  <2>2. CASE RunTask(s)
    BY <2>2, TasksOfRun
  <2>3. CASE AskSync(s)
    <3>1. UNCHANGED <<policy, meeting, task, remote>>
      BY <2>3 DEF AskSync, ownerVars, taskVars, eventVars
    <3>2. /\ sync'[s].mode = "manual" /\ sync'[s].step = "asked"
          /\ \A t \in Sync \ {s} : sync'[t] = sync[t]
      BY <1>0, <2>3 DEF AskSync, SyncsTyped, NewSync
    <3>3. ASSUME NEW m \in MeetingRow, NEW c \in CalendarId, Upheld(m, c) PROVE Upheld(m, c)'
      BY <3>1, <3>2, <3>3, UpheldIf
    <3> QED
      BY <3>1, <3>2, <3>3, TasksRest
  <2>4. CASE GoesOn(s) /\ ~AskSync(s) /\ ~RunTask(s)
    <3>1. UNCHANGED <<policy, meeting, task>>
      BY <2>4 DEF GoesOn, TakeLease, RefreshTokens, FetchEvent, CheckBeforeCreate, PostEvent,
         RecordCreation, CheckBeforeUpdate, PatchEvent, ownerVars, taskVars
    <3>2. /\ sync[s] # NoSync
          /\ sync'[s].mode = sync[s].mode /\ sync'[s].policy = sync[s].policy
          /\ sync'[s].preview = sync[s].preview
          /\ sync'[s].step = "patching" =>
               sync'[s] = sync[s] \/ sync'[s].preview = Preview(meeting)
          /\ \A t \in Sync \ {s} : sync'[t] = sync[t]
      BY <2>4, RowsKeep
    <3>3. ASSUME NEW m \in MeetingRow, NEW c \in CalendarId, m = meeting, Upheld(m, c)
          PROVE  Upheld(m, c)'
      <4> DEFINE found == PostEvent(s) /\ remote[Calendar(s)] # NoEvent
      <4>1. CASE (PostEvent(s) \/ PatchEvent(s)) /\ ~found
        <5>1. m.version \in Nat
          BY DEF MeetingRow
        <5> QED
          BY <3>3, <4>1, <5>1, UpheldBySync
      <4>2. CASE ~((PostEvent(s) \/ PatchEvent(s)) /\ ~found)
        <5>1. remote' = remote
          BY <2>4, <4>2 DEF GoesOn, TakeLease, RefreshTokens, FetchEvent, CheckBeforeCreate,
             PostEvent, RecordCreation, CheckBeforeUpdate, eventVars
        <5>2. \A t \in Sync : sync'[t].step = "patching" =>
                sync'[t] = sync[t] \/ sync'[t].preview.meeting = m
          BY <3>2, <3>3 DEF Preview
        <5> QED
          BY <3>3, <5>1, <5>2, UpheldIf
      <4> QED
        BY <4>1, <4>2
    <3> QED
      BY <3>1, <3>2, <3>3, TasksRest
  <2> QED
    BY <1>6, <2>1, <2>2, <2>3, <2>4 DEF SyncStepOf, GoesOn
<1> QED
  BY <1>2, <1>3, <1>4, <1>5, <1>6 DEF MirrorNext, SyncStepOf

-----------------------------------------------------------------------------
MirrorTyped == OwnersSide /\ EventsTyped /\ SyncsTyped /\ TasksTyped
MirrorInv == OwnersSide /\ EventsSide /\ TasksSide

\* Every step keeps the invariant of the mirror.
LEMMA MirrorInvStep ==
  ASSUME MirrorInv, [MirrorNext]_mirrorVars
  PROVE  MirrorInv'
<1>1. OwnersSide' /\ MovesOn
  BY OwnersStep DEF MirrorInv
<1>2. EventsSide'
  BY EventsStep DEF MirrorInv, TasksSide
<1>3. TasksSide'
  BY <1>1, TasksStep DEF MirrorInv
<1> QED
  BY <1>1, <1>2, <1>3 DEF MirrorInv

\* The invariant holds in every reachable state of the mirror.
LEMMA MirrorInvariant == MirrorSpec => []MirrorInv
<1>1. MirrorInit => MirrorInv
  BY OwnersSideInit, EventsSideInit, TasksSideInit DEF MirrorInv
<1> QED
  BY <1>1, MirrorInvStep, PTL DEF MirrorSpec

\* What the records hold.
THEOREM MirrorTypeCorrect == MirrorSpec => []MirrorTyped
<1>1. MirrorInv => MirrorTyped
  BY DEF MirrorInv, MirrorTyped, EventsSide, TasksSide
<1> QED
  BY <1>1, MirrorInvariant, PTL

\* While a discovery's automation is in force there is a task for what is saved now,
\* it is never taken for an outdated one, and once it is done the event in Google is
\* the saved one (discoveryCalendarAutomation.ts:45-56).
THEOREM WhatIsDoneIsThere == MirrorSpec => []MirrorCatchesUp
<1>1. MirrorInv => MirrorCatchesUp
  BY DEF MirrorInv, TasksSide, DueFits, Upheld, MirrorCatchesUp, Due, Outside
<1> QED
  BY <1>1, MirrorInvariant, PTL

\* What somebody changed in Google is overwritten only when the owner reviewed that
\* very state of it, or when no record binds an interview's event yet
\* (googleCalendar.ts:207-212).
THEOREM EditsAreKept == MirrorSpec => EditsSurvive
<1> DEFINE kept(c) == \/ \E s \in Sync : sync[s].step = "patching"
                                         /\ sync[s].approved = remote[c].etag
                      \/ resource = "interview" /\ binding[c] = 0
<1>1. ASSUME MirrorInv, [MirrorNext]_mirrorVars, NEW c \in CalendarId,
             remote[c].content.version = -1, remote'[c].content.version # -1
      PROVE  kept(c)
  <2>0. EventsSide /\ SyncsTyped /\ EventsTyped /\ EventFits(c)
    BY <1>1 DEF MirrorInv, EventsSide
  <2>1. remote'[c] # remote[c]
    BY <1>1
  <2>2. ASSUME NEW s \in Sync, PatchEvent(s) \/ LoseAnswer(s), sync[s].step = "patching",
               Calendar(s) = c, Matches(s)
        PROVE  kept(c)
    <3>1. PICK q \in SyncRow : q = sync[s]
      BY <2>0, <2>2, RowOf DEF SyncStep
    <3>2. SyncFits(s, q) /\ q.preview.calendar = c /\ q.data.etag = remote[c].etag
      BY <2>0, <2>2, <3>1 DEF EventsSide, SyncsFit, Calendar, Matches, Seen
    <3>3. q.data.content.version = -1 /\ q.data.etag \in Nat
      BY <1>1, <2>2, <3>1, <3>2 DEF SyncFits, Looked, SyncRow, EventRow
    <3> QED
      BY <2>2, <3>1, <3>2, <3>3 DEF SyncFits
  <2>3. NoEvent.content.version = -2
    BY DEF NoEvent
  <2>4. ASSUME NEW s \in Sync, PostEvent(s) PROVE FALSE
    BY <1>1, <2>0, <2>1, <2>3, <2>4 DEF PostEvent, Accept, EventsTyped, eventVars
  <2>5. ASSUME NEW s \in Sync, PatchEvent(s) \/ LoseAnswer(s) PROVE kept(c)
    BY <1>1, <2>0, <2>1, <2>2, <2>3, <2>5
       DEF PatchEvent, LoseAnswer, Accept, EventsTyped, Doing
  <2>6. ~EditOutside
    <3>1. ASSUME NEW d \in CalendarId, NEW gone \in BOOLEAN,
                 Accept(d, [Foreign EXCEPT !.cancelled = gone])
          PROVE  FALSE
      <4>1. [Foreign EXCEPT !.cancelled = gone].version = -1
        BY DEF Foreign
      <4> QED
        BY <1>1, <2>0, <2>1, <3>1, <4>1 DEF Accept, EventsTyped
    <3> QED
      BY <3>1 DEF EditOutside
  <2>7. ASSUME NEW s \in Sync, SyncStepOf(s), remote' # remote
        PROVE  PostEvent(s) \/ PatchEvent(s) \/ LoseAnswer(s)
    BY <2>7 DEF SyncStepOf, AskSync, RunTask, TakeLease, RefreshTokens, FetchEvent,
       NothingToCancel, CheckBeforeCreate, RecordCreation, CheckBeforeUpdate, RecordSync,
       FailSync, LoseAuthorization, CrashSync, eventVars
  <2>8. (\E s \in Sync : SyncStepOf(s)) \/ EditOutside \/ remote' = remote
    BY <1>1 DEF MirrorNext, SyncStepOf, BeginConnect, ClaimState, CompleteConnect,
       AbandonConnect, ConfigureCalendar, ConfigureAutomation, DisconnectCalendar,
       LeaseRunsOut, ChangeMeeting, SwitchStop, eventVars, mirrorVars
  <2> QED
    BY <2>1, <2>4, <2>5, <2>6, <2>7, <2>8
<1>2. MirrorInv /\ [MirrorNext]_mirrorVars =>
        [\A c \in CalendarId :
           remote[c].content.version = -1 /\ remote'[c].content.version # -1 =>
               \/ \E s \in Sync : sync[s].step = "patching" /\ sync[s].approved = remote[c].etag
               \/ resource = "interview" /\ binding[c] = 0]_mirrorVars
  BY <1>1
<1> QED
  BY <1>2, MirrorInvariant, PTL DEF MirrorSpec, EditsSurvive

-----------------------------------------------------------------------------
(* RankingRefresh: what the tables hold.                                   *)

MatchRow ==
  [status : {Nil, "low_confidence", "evidence_validated", "closed"},
   basis : {<<>>} \cup ((0..MaxEvidence) \X (0..MaxEdits))]
PlanRow == [on : BOOLEAN, budget : Nat, version : 0..MaxEdits, stage : DOMAIN Stages]
RunRow == [revision : 1..MaxPlans, cycle : 1..MaxRuns, minted : SUBSET ScoreTask]
TaskStatus == Unsettled \cup {"running", "completed", "cancelled"}
TaskRow == [status : TaskStatus, holder : Server \cup {Nil}, grant : 0..MaxPlans,
            result : BOOLEAN]
AttemptOutcome == {"queued", "completed", "retryable_failed", "permanently_failed", "blocked"}
ServerRow == [step : {"off", "run", "infer", "settle"}, task : {<<>>} \cup QueueTask,
              grant : 0..MaxPlans, outcome : {Nil} \cup AttemptOutcome]

RunsOf(r) == {run \in runs : run.revision = r}

SubjectOK ==
  /\ job \in [version : 0..MaxEdits, stage : DOMAIN Stages]
  /\ evidence \in [Profile -> 0..MaxEvidence] /\ scorable \in SUBSET Profile
MatchOK ==
  /\ match \in [Profile -> MatchRow]
  /\ \A p \in Profile : match[p].basis # <<>> =>
       match[p].status = "evidence_validated" /\ match[p].basis = <<evidence[p], job.version>>
PlansOK ==
  /\ plans \in Seq(PlanRow) /\ Revision <= MaxPlans
  /\ lapsed \in BOOLEAN /\ stops \subseteq 1..Revision

\* The cycles of a revision are numbered without a gap, and what they minted is counted.
CyclesInRow(r) ==
  /\ IsFiniteSet(RunsOf(r)) /\ Cardinality(RunsOf(r)) <= MaxRuns
  /\ \A n \in Nat : Recorded(r, n) <=> n \in 1..Cardinality(RunsOf(r))
RunsOK ==
  /\ runs \subseteq RunRow
  /\ \A x \in runs : x.revision \in 1..Revision /\ Cardinality(x.minted) <= MaxPerRun
  /\ \A x, y \in runs : x.revision = y.revision /\ x.cycle = y.cycle => x = y
  /\ \A r \in 1..MaxPlans : CyclesInRow(r) /\ IsFiniteSet(MintedUnder(r))
  /\ \A r \in 1..Revision : Cardinality(MintedUnder(r)) <= plans[r].budget
QueueOK ==
  /\ DOMAIN row \subseteq QueueTask /\ row \in [DOMAIN row -> TaskRow]
  /\ \A k \in CycleTask \cap DOMAIN row : k[2] \in 1..Revision
\* A cycle that comes out as completed was recorded, or stopped the plan.
CameToPass(at) ==
  at.step = "settle" /\ at.outcome = "completed" /\ at.task \in CycleTask
    => Recorded(at.task[2], at.task[3]) \/ at.task[2] \in stops
ServersOK ==
  /\ server \in [Server -> ServerRow]
  /\ \A s \in Server : /\ server[s].step # "off" => server[s].task \in DOMAIN row
                       /\ server[s].step = "settle" => server[s].outcome # Nil
                       /\ CameToPass(server[s])
AnswerOK ==
  /\ request # NoRequest =>
       request.what \in {"queued", "cancelled"} /\ request.task \in DOMAIN row
  /\ work \in {"on", "paused", "stopped"}
\* The task of the next cycle of a plan that goes on.
NextCycle == <<"cycle", Revision, Cardinality(RunsOf(Revision)) + 1>>
PlanGoesOn == Revision > 0 /\ plans[Revision].on /\ Revision \notin stops
NextWaits ==
  PlanGoesOn => /\ Cardinality(RunsOf(Revision)) < MaxRuns
            /\ NextCycle \in DOMAIN row /\ row[NextCycle].status # "completed"

RankingInv ==
  SubjectOK /\ MatchOK /\ PlansOK /\ RunsOK /\ QueueOK /\ ServersOK /\ AnswerOK /\ NextWaits

\* The bounds are numbers and the profiles finitely many.
LEMMA RankingNumbers ==
  /\ MaxPerRun \in Nat /\ MaxAiTasks \in Nat /\ MaxRuns \in Nat \ {0} /\ MaxPlans \in Nat
  /\ MaxEvidence \in Nat /\ MaxEdits \in Nat /\ IsFiniteSet(Profile)
BY RankingAssumption

\* The statuses a job can be in.
LEMMA StageNames == DOMAIN Stages = {"draft", "open", "paused", "closed"}
BY DEF Stages

\* A key tells whether its task is a cycle or a scoring, and of what.
LEMMA TaskShapes ==
  /\ \A k \in CycleTask : k[1] = "cycle" /\ k[2] \in 1..MaxPlans /\ k[3] \in 1..MaxRuns
                          /\ k = <<"cycle", k[2], k[3]>>
  /\ \A k \in ScoreTask : k[1] = "score" /\ k[2] \in Profile
                          /\ k[3] \in 0..MaxEvidence /\ k[4] \in 0..MaxEdits
  /\ \A r \in 1..MaxPlans, n \in 1..MaxRuns : <<"cycle", r, n>> \in CycleTask
  /\ CycleTask \cap ScoreTask = {}
  /\ <<>> \notin QueueTask
BY DEF CycleTask, ScoreTask, QueueTask

\* The invariant of the ranking holds initially.
LEMMA RankingInvInit == RankingInit => RankingInv
<1> SUFFICES ASSUME RankingInit PROVE RankingInv
  OBVIOUS
<1>1. SubjectOK
  BY RankingNumbers, StageNames DEF RankingInit, SubjectOK
<1>2. MatchOK
  BY DEF RankingInit, MatchOK, MatchRow, Unscored
<1>3. PlansOK /\ Revision = 0
  <2>1. plans \in Seq(PlanRow) /\ Revision = 0
    BY DEF RankingInit, Revision
  <2>2. lapsed \in BOOLEAN
    BY Zenon DEF RankingInit
  <2> QED
    BY <2>1, <2>2, RankingNumbers DEF RankingInit, PlansOK
<1>4. RunsOK
  <2>1. runs = {}
    BY DEF RankingInit
  <2>2. ASSUME NEW r PROVE RunsOf(r) = {} /\ MintedUnder(r) = {}
    BY <2>1 DEF RunsOf, MintedUnder
  <2>3. ASSUME NEW r PROVE CyclesInRow(r) /\ IsFiniteSet(MintedUnder(r))
    <3>1. IsFiniteSet(RunsOf(r)) /\ Cardinality(RunsOf(r)) = 0 /\ IsFiniteSet(MintedUnder(r))
      BY <2>2, FS_EmptySet
    <3> QED
      BY <2>1, <3>1, RankingNumbers DEF CyclesInRow, Recorded
  <2> QED
    BY <1>3, <2>1, <2>3 DEF RunsOK
<1>5. QueueOK
  <2>1. DOMAIN row = {} /\ row \in [DOMAIN row -> TaskRow]
    BY DEF RankingInit
  <2> QED
    BY <2>1 DEF QueueOK
<1>6. ServersOK
  <2>1. Off \in ServerRow /\ Off.step = "off"
    BY RankingNumbers DEF Off, ServerRow
  <2>2. \A s \in Server : server[s] = Off
    BY DEF RankingInit
  <2>3. server \in [Server -> ServerRow]
    BY <2>1 DEF RankingInit
  <2> QED
    BY <2>1, <2>2, <2>3 DEF ServersOK, CameToPass
<1>7. AnswerOK
  BY DEF RankingInit, AnswerOK
<1>8. NextWaits
  BY <1>3 DEF NextWaits, PlanGoesOn
<1> QED
  BY <1>1, <1>2, <1>3, <1>4, <1>5, <1>6, <1>7, <1>8 DEF RankingInv

-----------------------------------------------------------------------------
(* What stays when a step leaves a table alone.                            *)

\* The part of a table stays while the tables it speaks of do.
LEMMA RankingStays ==
  /\ SubjectOK /\ UNCHANGED subjectVars => SubjectOK'
  /\ MatchOK /\ UNCHANGED <<subjectVars, match>> => MatchOK'
  /\ PlansOK /\ UNCHANGED planVars => PlansOK'
  /\ RunsOK /\ UNCHANGED <<plans, runs>> => RunsOK'
  /\ QueueOK /\ UNCHANGED <<plans, row>> => QueueOK'
  /\ ServersOK /\ UNCHANGED <<planVars, row, server>> => ServersOK'
  /\ AnswerOK /\ UNCHANGED <<row, request, work>> => AnswerOK'
  /\ NextWaits /\ UNCHANGED <<planVars, row>> => NextWaits'
<1>1. SubjectOK /\ UNCHANGED subjectVars => SubjectOK'
  BY DEF SubjectOK, subjectVars
<1>2. MatchOK /\ UNCHANGED <<subjectVars, match>> => MatchOK'
  BY DEF MatchOK, subjectVars
<1>3. PlansOK /\ UNCHANGED planVars => PlansOK'
  BY DEF PlansOK, planVars, Revision
<1>4. RunsOK /\ UNCHANGED <<plans, runs>> => RunsOK'
  <2> SUFFICES ASSUME RunsOK, plans' = plans, runs' = runs PROVE RunsOK'
    OBVIOUS
  <2>1. ASSUME NEW r
        PROVE  /\ RunsOf(r)' = RunsOf(r) /\ MintedUnder(r)' = MintedUnder(r)
               /\ \A n : Recorded(r, n)' <=> Recorded(r, n)
    BY DEF RunsOf, MintedUnder, Recorded
  <2>2. ASSUME NEW r \in 1..MaxPlans
        PROVE  CyclesInRow(r)' /\ IsFiniteSet(MintedUnder(r))'
    BY <2>1 DEF RunsOK, CyclesInRow
  <2>3. ASSUME NEW r \in 1..Revision PROVE Cardinality(MintedUnder(r))' <= plans[r].budget
    BY <2>1 DEF RunsOK
  <2> QED
    BY <2>2, <2>3 DEF RunsOK, Revision
<1>5. QueueOK /\ UNCHANGED <<plans, row>> => QueueOK'
  BY DEF QueueOK, Revision
<1>6. ServersOK /\ UNCHANGED <<planVars, row, server>> => ServersOK'
  BY DEF ServersOK, CameToPass, Recorded, planVars
<1>7. AnswerOK /\ UNCHANGED <<row, request, work>> => AnswerOK'
  BY DEF AnswerOK
<1>8. NextWaits /\ UNCHANGED <<planVars, row>> => NextWaits'
  BY DEF NextWaits, NextCycle, PlanGoesOn, RunsOf, Revision, planVars
<1> QED
  BY <1>1, <1>2, <1>3, <1>4, <1>5, <1>6, <1>7, <1>8

\* The servers' rows stay sound while the queue and what is recorded only grow.
LEMMA ServersStay ==
  ASSUME ServersOK, server' = server, DOMAIN row \subseteq DOMAIN row', runs \subseteq runs',
         stops \subseteq stops'
  PROVE  ServersOK'
BY DEF ServersOK, CameToPass, Recorded

\* One server's row is new.
LEMMA ServerSet ==
  ASSUME ServersOK, NEW s \in Server, NEW at \in ServerRow, server' = [server EXCEPT ![s] = at],
         DOMAIN row \subseteq DOMAIN row', runs \subseteq runs', stops \subseteq stops',
         at.step # "off" => at.task \in DOMAIN row',
         at.step = "settle" => at.outcome # Nil,
         CameToPass(at)'
  PROVE  ServersOK'
<1>1. server' \in [Server -> ServerRow] /\ server'[s] = at
      /\ \A t \in Server \ {s} : server'[t] = server[t]
  BY DEF ServersOK
<1>2. ASSUME NEW t \in Server
      PROVE  /\ server'[t].step # "off" => server'[t].task \in DOMAIN row'
             /\ server'[t].step = "settle" => server'[t].outcome # Nil
             /\ CameToPass(server[t])'
  <2>1. CASE t = s
    BY <1>1, <2>1 DEF CameToPass, Recorded
  <2>2. CASE t # s
    BY <1>1, <2>2 DEF ServersOK, CameToPass, Recorded
  <2> QED
    BY <2>1, <2>2
<1> QED
  BY <1>1, <1>2 DEF ServersOK

\* A process that is not running is well typed.
LEMMA OffFits == Off \in ServerRow /\ Off.step = "off" /\ Off.outcome = Nil
BY RankingNumbers DEF Off, ServerRow

\* Stopping a process keeps what the others know.
LEMMA OffSet ==
  ASSUME ServersOK, NEW s \in Server, server' = [server EXCEPT ![s] = Off],
         DOMAIN row \subseteq DOMAIN row', runs \subseteq runs', stops \subseteq stops'
  PROVE  ServersOK'
<1>1. CameToPass(Off)'
  BY OffFits DEF CameToPass
<1> QED
  BY <1>1, OffFits, ServerSet

\* What an attempt came to.
LEMMA CameTo ==
  ASSUME ServersOK, NEW s \in Server, NEW outcomes \in SUBSET AttemptOutcome,
         ComesTo(s, outcomes), server[s].task \in DOMAIN row,
         DOMAIN row \subseteq DOMAIN row', runs \subseteq runs', stops \subseteq stops',
         "completed" \in outcomes /\ server[s].task \in CycleTask =>
           \/ \E run \in runs' : /\ run.revision = server[s].task[2]
                                 /\ run.cycle = server[s].task[3]
           \/ server[s].task[2] \in stops'
  PROVE  ServersOK'
<1>1. PICK o \in outcomes : server' = [server EXCEPT ![s].step = "settle", ![s].outcome = o]
  BY DEF ComesTo
<1> DEFINE row0 == [server[s] EXCEPT !.step = "settle", !.outcome = o]
<1>2. server[s] \in ServerRow
  BY DEF ServersOK
<1>3. /\ row0 \in ServerRow /\ row0.step = "settle"
      /\ row0.outcome = o /\ row0.task = server[s].task
  BY <1>1, <1>2 DEF ServerRow
<1>4. server' = [server EXCEPT ![s] = row0]
  BY <1>1, <1>2 DEF ServersOK
<1>5. PICK at : at = row0
  OBVIOUS
<1> HIDE DEF row0
<1>6. o # Nil
  BY <1>1 DEF AttemptOutcome, Nil
<1>7. CameToPass(at)'
  BY <1>1, <1>3, <1>5 DEF CameToPass, Recorded
<1> QED
  BY <1>3, <1>4, <1>5, <1>6, <1>7, ServerSet

-----------------------------------------------------------------------------
(* The queue.                                                              *)

\* Writing a task's status changes that task only.
LEMMA PutRow ==
  ASSUME QueueOK, NEW k \in DOMAIN row, NEW status \in TaskStatus
  PROVE  /\ Put(k, status) \in [DOMAIN row -> TaskRow]
         /\ Put(k, status)[k].status = status
         /\ \A i \in DOMAIN row : i # k => Put(k, status)[i] = row[i]
BY DEF Put, QueueOK, TaskRow

\* A new task is queued and well typed.
LEMMA NewRowFits ==
  ASSUME NEW r \in 0..MaxPlans
  PROVE  NewRow(r) \in TaskRow /\ NewRow(r).status = "queued"
BY RankingNumbers DEF NewRow, NoRow, TaskRow, TaskStatus, Unsettled, Ready

\* Queueing adds the keys that are new and changes no task that is there.
LEMMA QueuedRows ==
  ASSUME NEW queue, NEW keys, NEW r \in 0..MaxPlans, queue \in [DOMAIN queue -> TaskRow]
  PROVE  /\ DOMAIN Queued(queue, keys, r) = DOMAIN queue \cup keys
         /\ Queued(queue, keys, r) \in [DOMAIN queue \cup keys -> TaskRow]
         /\ \A k \in keys : Queued(queue, keys, r)[k].status = "queued"
         /\ \A k \in DOMAIN queue \ keys : Queued(queue, keys, r)[k] = queue[k]
BY NewRowFits DEF Queued

\* The same for tasks under no grant.
LEMMA QueuedUngranted ==
  ASSUME NEW queue, NEW keys, queue \in [DOMAIN queue -> TaskRow]
  PROVE  /\ DOMAIN Queued(queue, keys, 0) = DOMAIN queue \cup keys
         /\ Queued(queue, keys, 0) \in [DOMAIN queue \cup keys -> TaskRow]
         /\ \A k \in keys : Queued(queue, keys, 0)[k].status = "queued"
         /\ \A k \in DOMAIN queue \ keys : Queued(queue, keys, 0)[k] = queue[k]
<1>1. PICK r \in 0..MaxPlans : r = 0
  BY RankingNumbers
<1> QED
  BY <1>1, QueuedRows

\* A plan that goes on keeps its next task while no unrecorded cycle is settled as done.
LEMMA WaitsStays ==
  ASSUME RankingInv, plans' = plans, runs' = runs, stops \subseteq stops',
         DOMAIN row \subseteq DOMAIN row',
         \A k \in CycleTask \cap DOMAIN row : row'[k].status = "completed" =>
           row[k].status = "completed" \/ Recorded(k[2], k[3]) \/ k[2] \in stops
  PROVE  NextWaits'
<1> SUFFICES ASSUME PlanGoesOn' PROVE /\ Cardinality(RunsOf(Revision))' < MaxRuns
                                  /\ (NextCycle \in DOMAIN row)'
                                  /\ (row[NextCycle].status # "completed")'
  BY DEF NextWaits
<1>1. /\ Revision' = Revision /\ PlanGoesOn /\ RunsOf(Revision)' = RunsOf(Revision)
      /\ NextCycle' = NextCycle
  BY DEF Revision, PlanGoesOn, RunsOf, NextCycle
<1>2. Cardinality(RunsOf(Revision)) < MaxRuns /\ NextCycle \in DOMAIN row
      /\ row[NextCycle].status # "completed"
  BY <1>1 DEF RankingInv, NextWaits
<1>3. Revision \in 1..MaxPlans
  BY <1>1, RankingNumbers, LenProperties DEF PlanGoesOn, RankingInv, PlansOK, Revision
<1>4. ~Recorded(Revision, Cardinality(RunsOf(Revision)) + 1)
      /\ Cardinality(RunsOf(Revision)) \in Nat
  BY <1>3, FS_CardinalityType DEF RankingInv, RunsOK, CyclesInRow
<1>5. NextCycle \in CycleTask /\ NextCycle[2] = Revision
      /\ NextCycle[3] = Cardinality(RunsOf(Revision)) + 1
  BY <1>2, <1>3, <1>4, TaskShapes, RankingNumbers DEF NextCycle
<1>6. Revision \notin stops
  BY <1>1 DEF PlanGoesOn
<1>7. row'[NextCycle].status # "completed"
  BY <1>2, <1>4, <1>5, <1>6
<1> QED
  BY <1>1, <1>2, <1>7
-----------------------------------------------------------------------------
(* Steps of the subject: the requirement, the evidence, the matches.       *)

\* Steps that touch only the job and its matches keep the invariant.
LEMMA OnlySubject ==
  ASSUME RankingInv, SubjectOK', MatchOK', UNCHANGED <<planVars, row, server, request, work>>
  PROVE  RankingInv'
BY RankingStays DEF RankingInv, planVars

\* A match without a score is well typed.
LEMMA UnscoredFits ==
  ASSUME NEW status \in {Nil, "low_confidence", "evidence_validated", "closed"}
  PROVE  /\ Unscored(status) \in MatchRow /\ Unscored(status).status = status
         /\ Unscored(status).basis = <<>>
BY DEF Unscored, MatchRow

\* An invalidated match has no score.
LEMMA InvalidatedFits ==
  ASSUME MatchOK, NEW p \in Profile
  PROVE  Invalidated(match[p]) \in MatchRow /\ Invalidated(match[p]).basis = <<>>
BY UnscoredFits DEF MatchOK, Invalidated

\* Changes of the job, the evidence and the profiles keep the invariant.
LEMMA OfTheSubject ==
  ASSUME RankingInv,
         \/ SaveIntake \/ MoveJob
         \/ \E p \in Profile : RecordMatch(p) \/ ChangeEvidence(p) \/ LoseProfile(p)
  PROVE  RankingInv'
<1>0. SubjectOK /\ MatchOK
  BY DEF RankingInv
<1>1. CASE SaveIntake
  <2>1. SubjectOK'
    BY <1>0, <1>1, RankingNumbers DEF SaveIntake, SubjectOK
  <2>2. \A p \in Profile : match'[p] \in MatchRow /\ match'[p].basis = <<>>
    BY <1>0, <1>1, InvalidatedFits DEF SaveIntake
  <2>3. MatchOK'
    BY <1>1, <2>2 DEF SaveIntake, MatchOK
  <2> QED
    BY <1>1, <2>1, <2>3, OnlySubject DEF SaveIntake
<1>2. CASE MoveJob
  <2>1. PICK stage \in Stages[job.stage] : job' = [job EXCEPT !.stage = stage]
    BY <1>2 DEF MoveJob
  <2>2. stage \in DOMAIN Stages
    BY <1>0, <2>1, StageNames DEF SubjectOK, Stages
  <2>3. SubjectOK' /\ job'.version = job.version
    BY <1>0, <1>2, <2>1, <2>2 DEF MoveJob, SubjectOK
  <2>4. MatchOK'
    BY <1>0, <1>2, <2>3 DEF MoveJob, MatchOK
  <2> QED
    BY <1>2, <2>3, <2>4, OnlySubject DEF MoveJob
<1>3. ASSUME NEW p \in Profile, RecordMatch(p) PROVE RankingInv'
  <2>1. PICK status \in {"low_confidence", "evidence_validated"} :
          match' = [match EXCEPT ![p] = Unscored(status)]
    BY <1>3 DEF RecordMatch
  <2>2. Unscored(status) \in MatchRow /\ Unscored(status).basis = <<>>
    BY UnscoredFits
  <2>3. MatchOK'
    BY <1>0, <1>3, <2>1, <2>2 DEF MatchOK, RecordMatch, subjectVars
  <2> QED
    BY <1>0, <1>3, <2>3, OnlySubject, RankingStays DEF RecordMatch
<1>4. ASSUME NEW p \in Profile, ChangeEvidence(p) PROVE RankingInv'
  <2>1. SubjectOK'
    BY <1>0, <1>4, RankingNumbers DEF ChangeEvidence, SubjectOK
  <2>2. /\ match' = [match EXCEPT ![p] = Invalidated(match[p])]
        /\ \A q \in Profile \ {p} : evidence'[q] = evidence[q]
    BY <1>0, <1>4 DEF ChangeEvidence, SubjectOK
  <2>3. MatchOK'
    BY <1>0, <1>4, <2>2, InvalidatedFits DEF MatchOK, ChangeEvidence
  <2> QED
    BY <1>4, <2>1, <2>3, OnlySubject DEF ChangeEvidence
<1>5. ASSUME NEW p \in Profile, LoseProfile(p) PROVE RankingInv'
  <2>1. SubjectOK'
    BY <1>0, <1>5 DEF LoseProfile, SubjectOK
  <2>2. Unscored("closed") \in MatchRow /\ Unscored("closed").basis = <<>>
    BY UnscoredFits
  <2>3. match' = match \/ match' = [match EXCEPT ![p] = Unscored("closed")]
    BY <1>5 DEF LoseProfile
  <2>4. MatchOK'
    BY <1>0, <1>5, <2>2, <2>3 DEF MatchOK, LoseProfile
  <2> QED
    BY <1>5, <2>1, <2>4, OnlySubject DEF LoseProfile
<1> QED
  BY <1>1, <1>2, <1>3, <1>4, <1>5

-----------------------------------------------------------------------------
(* Steps of the queue.                                                     *)

\* Steps that touch only the queue keep it.
LEMMA OnlyQueue ==
  ASSUME RankingInv, UNCHANGED <<subjectVars, match, planVars>>,
         row' \in [DOMAIN row -> TaskRow], ServersOK', AnswerOK',
         \A k \in CycleTask \cap DOMAIN row : row'[k].status = "completed" =>
           row[k].status = "completed" \/ Recorded(k[2], k[3]) \/ k[2] \in stops
  PROVE  RankingInv'
<1>1. DOMAIN row' = DOMAIN row
  OBVIOUS
<1>2. QueueOK'
  BY <1>1 DEF RankingInv, QueueOK, planVars, Revision
<1>3. NextWaits'
  BY <1>1, WaitsStays DEF planVars
<1> QED
  BY <1>2, <1>3, RankingStays DEF RankingInv, planVars

\* Claiming a task keeps it.
LEMMA Claims ==
  ASSUME RankingInv, NEW s \in Server, NEW k \in DOMAIN row, Claim(s, k)
  PROVE  RankingInv'
<1>0. QueueOK /\ ServersOK /\ AnswerOK /\ k \in QueueTask /\ row[k] \in TaskRow
  BY DEF RankingInv, QueueOK
<1>1. /\ row' \in [DOMAIN row -> TaskRow] /\ row'[k].status = "running"
      /\ \A i \in DOMAIN row : i # k => row'[i] = row[i]
  BY <1>0 DEF Claim, QueueOK, TaskRow, TaskStatus
<1> DEFINE at0 == [Off EXCEPT !.step = "run", !.task = k, !.grant = row[k].grant]
<1>2. at0 \in ServerRow /\ at0.step = "run" /\ at0.task = k
  BY <1>0, OffFits DEF ServerRow, TaskRow
<1>3. server' = [server EXCEPT ![s] = at0]
  BY DEF Claim
<1>4. PICK at : at = at0
  OBVIOUS
<1> HIDE DEF at0
<1>5. CameToPass(at)'
  BY <1>2, <1>4 DEF CameToPass
<1>6. ServersOK'
  BY <1>0, <1>1, <1>2, <1>3, <1>4, <1>5, ServerSet DEF Claim, planVars
<1>7. AnswerOK'
  BY <1>0, <1>1 DEF AnswerOK, Claim
<1> QED
  BY <1>1, <1>6, <1>7, OnlyQueue DEF Claim

\* A row is given a new status by whoever does not settle a cycle as completed.
LEMMA PutStays ==
  ASSUME RankingInv, NEW k \in DOMAIN row, NEW status \in TaskStatus \ {"completed"},
         row' = Put(k, status), UNCHANGED <<subjectVars, match, planVars, server, work>>,
         request' \in {request, NoRequest}
  PROVE  RankingInv'
<1>1. /\ row' \in [DOMAIN row -> TaskRow] /\ row'[k].status = status
      /\ \A i \in DOMAIN row : i # k => row'[i] = row[i]
  BY PutRow DEF RankingInv
<1>2. ServersOK'
  BY <1>1, ServersStay DEF RankingInv, planVars
<1>3. AnswerOK'
  BY <1>1 DEF RankingInv, AnswerOK
<1> QED
  BY <1>1, <1>2, <1>3, OnlyQueue

\* Lost leases and the owner's answers to the queue keep it.
LEMMA OfTheQueue ==
  ASSUME RankingInv,
         \/ \E k \in DOMAIN row : LeaseExpires(k)
         \/ AnswerQueue
  PROVE  RankingInv'
<1>1. ASSUME NEW k \in DOMAIN row, LeaseExpires(k) PROVE RankingInv'
  BY <1>1, PutStays DEF LeaseExpires, TaskStatus, Unsettled
<1>2. CASE AnswerQueue
  <2>1. request.what \in {"queued", "cancelled"} /\ request.task \in DOMAIN row
    BY <1>2 DEF AnswerQueue, RankingInv, AnswerOK
  <2> QED
    BY <1>2, <2>1, PutStays DEF AnswerQueue, TaskStatus, Unsettled, Ready
<1> QED
  BY <1>1, <1>2

\* Settling a task keeps it.
LEMMA Settles ==
  ASSUME RankingInv, NEW s \in Server, Settle(s)
  PROVE  RankingInv'
<1> DEFINE k == server[s].task
           o == server[s].outcome
<1>0. QueueOK /\ ServersOK /\ AnswerOK
  BY DEF RankingInv
<1>1. /\ k \in DOMAIN row /\ o \in AttemptOutcome
      /\ (o = "completed" /\ k \in CycleTask => Recorded(k[2], k[3]) \/ k[2] \in stops)
  BY <1>0 DEF Settle, ServersOK, CameToPass, ServerRow
<1>2. o \in TaskStatus
  BY <1>1 DEF AttemptOutcome, TaskStatus, Unsettled, Ready
<1>3. /\ row' \in [DOMAIN row -> TaskRow]
      /\ row'[k].status \in {row[k].status, o}
      /\ \A i \in DOMAIN row : i # k => row'[i] = row[i]
  <2>1. CASE HasLock(s)
    <3>1. PICK mid : mid = Put(k, o)
      OBVIOUS
    <3>2. /\ mid \in [DOMAIN row -> TaskRow] /\ mid[k].status = o
          /\ \A i \in DOMAIN row : i # k => mid[i] = row[i]
      BY <1>0, <1>1, <1>2, <3>1, PutRow
    <3>3. PICK b : b = (mid[k].result \/ o = "completed")
      OBVIOUS
    <3>4. mid[k].result \in BOOLEAN
      BY <1>1, <3>2 DEF TaskRow
    <3>5. b \in BOOLEAN
      BY <3>3, <3>4, Zenon
    <3>6. row' = [mid EXCEPT ![k].result = b]
      BY <2>1, <3>1, <3>3 DEF Settle, Outcome
    <3> QED
      BY <1>1, <3>2, <3>5, <3>6 DEF TaskRow
  <2>2. CASE ~HasLock(s)
    BY <1>0, <2>2 DEF Settle, QueueOK
  <2> QED
    BY <2>1, <2>2
<1>4. ServersOK'
  BY <1>0, <1>3, OffSet DEF Settle, planVars
<1>5. AnswerOK'
  BY <1>0, <1>3 DEF AnswerOK, Settle
<1>6. ASSUME NEW i \in CycleTask \cap DOMAIN row, row'[i].status = "completed"
      PROVE  row[i].status = "completed" \/ Recorded(i[2], i[3]) \/ i[2] \in stops
  BY <1>1, <1>3, <1>6
<1> QED
  BY <1>3, <1>4, <1>5, <1>6, OnlyQueue DEF Settle

\* A score row is new, or queued again by hand.
LEMMA QueuesByHand ==
  ASSUME RankingInv, NEW p \in Profile, QueueByHand(p)
  PROVE  RankingInv'
<1>0. SubjectOK /\ QueueOK /\ ServersOK /\ AnswerOK
  BY DEF RankingInv
<1>1. CurrentScore(p) \in ScoreTask
  BY <1>0 DEF CurrentScore, SubjectOK, ScoreTask
<1>2. row' = Queued(row, {CurrentScore(p)}, 0)
  BY DEF QueueByHand
<1>3. /\ DOMAIN row' = DOMAIN row \cup {CurrentScore(p)}
      /\ row' \in [DOMAIN row' -> TaskRow]
      /\ \A k \in CycleTask \cap DOMAIN row : row'[k] = row[k]
  <2>1. row \in [DOMAIN row -> TaskRow] /\ 0 \in 0..MaxPlans
    BY <1>0, RankingNumbers DEF QueueOK
  <2>2. CurrentScore(p) \notin CycleTask
    BY <1>1, TaskShapes
  <2>3. /\ DOMAIN row' = DOMAIN row \cup {CurrentScore(p)}
        /\ row' \in [DOMAIN row \cup {CurrentScore(p)} -> TaskRow]
        /\ \A k \in DOMAIN row \ {CurrentScore(p)} : row'[k] = row[k]
    BY <1>2, <2>1, QueuedRows
  <2> QED
    BY <2>2, <2>3
<1>4. QueueOK'
  BY <1>0, <1>1, <1>3, TaskShapes DEF QueueOK, QueueByHand, planVars, Revision, QueueTask
<1>5. ServersOK' /\ AnswerOK'
  BY <1>0, <1>3, ServersStay DEF AnswerOK, QueueByHand, planVars
<1>6. NextWaits'
  BY <1>3, WaitsStays DEF QueueByHand, planVars
<1> QED
  BY <1>4, <1>5, <1>6, RankingStays DEF RankingInv, QueueByHand, planVars

-----------------------------------------------------------------------------
(* Steps of a server that write only to its own row, the stops or a match. *)

\* Steps of one process that write matches at most keep it.
LEMMA OnlyServer ==
  ASSUME RankingInv, UNCHANGED <<subjectVars, plans, lapsed, runs, row, request, work>>,
         MatchOK', ServersOK', stops \subseteq stops', stops' \subseteq 1..Revision
  PROVE  RankingInv'
<1>1. PlansOK'
  BY DEF RankingInv, PlansOK, Revision
<1>2. NextWaits'
  BY WaitsStays
<1> QED
  BY <1>1, <1>2, RankingStays DEF RankingInv

\* A process that runs a cycle holds that cycle's task.
LEMMA HeldTask ==
  ASSUME RankingInv, NEW s \in Server, NEW r, NEW n, AtCycle(s, r, n)
  PROVE  /\ server[s].task \in DOMAIN row /\ server[s].task[2] = r /\ server[s].task[3] = n
         /\ (server[s].task \in CycleTask => r \in 1..Revision)
BY DEF AtCycle, RankingInv, ServersOK, QueueOK

\* A process's steps on its own keep the invariant.
LEMMA OfAServer ==
  ASSUME RankingInv, NEW s \in Server,
         \/ LeaveTask(s) \/ Restart(s)
         \/ \E r \in 1..MaxPlans, n \in 1..MaxRuns :
              \/ DeferCycle(s, r, n) \/ SkipRecordedCycle(s, r, n) \/ StopCycle(s, r, n)
              \/ FailCycle(s, r, n)
         \/ \E k \in ScoreTask :
              \/ CheckScore(s, k) \/ FailInference(s, k) \/ DiscardScore(s, k)
              \/ ApplyScore(s, k)
  PROVE  RankingInv'
<1>0. MatchOK /\ ServersOK /\ PlansOK /\ SubjectOK
  BY DEF RankingInv
<1>1. CASE LeaveTask(s) \/ Restart(s)
  <2>1. /\ server' = [server EXCEPT ![s] = Off]
        /\ UNCHANGED <<subjectVars, match, planVars, row, request, work>>
    BY <1>1 DEF LeaveTask, Restart
  <2>2. ServersOK'
    BY <1>0, <2>1, OffSet DEF planVars
  <2> QED
    BY <1>0, <2>1, <2>2, OnlyServer, RankingStays DEF planVars, PlansOK
<1>2. ASSUME NEW outcomes \in SUBSET AttemptOutcome, ComesTo(s, outcomes),
             "completed" \notin outcomes \/ server[s].task \in ScoreTask,
             server[s].task \in DOMAIN row, MatchOK',
             UNCHANGED <<subjectVars, planVars, row, request, work>>
      PROVE  RankingInv'
  <2>1. ServersOK'
    BY <1>0, <1>2, CameTo, TaskShapes DEF planVars
  <2> QED
    BY <1>0, <1>2, <2>1, OnlyServer DEF planVars, PlansOK
<1>3. ASSUME NEW r \in 1..MaxPlans, NEW n \in 1..MaxRuns,
             \/ DeferCycle(s, r, n) \/ SkipRecordedCycle(s, r, n) \/ StopCycle(s, r, n)
             \/ FailCycle(s, r, n)
      PROVE  RankingInv'
  <2>1. AtCycle(s, r, n)
    BY <1>3 DEF DeferCycle, SkipRecordedCycle, StopCycle, FailCycle
  <2>2. /\ server[s].task \in DOMAIN row /\ server[s].task[2] = r /\ server[s].task[3] = n
        /\ r \in 1..Revision
    BY <2>1, HeldTask, TaskShapes DEF AtCycle
  <2>3. CASE DeferCycle(s, r, n) \/ FailCycle(s, r, n)
    <3>1. PICK outcomes \in {{"queued"}, {"retryable_failed", "blocked"}} :
            ComesTo(s, outcomes)
      BY <2>3 DEF DeferCycle, FailCycle
    <3>2. outcomes \in SUBSET AttemptOutcome /\ "completed" \notin outcomes
      BY <3>1 DEF AttemptOutcome
    <3>3. MatchOK' /\ UNCHANGED <<subjectVars, planVars, row, request, work>>
      BY <1>0, <2>3, RankingStays DEF DeferCycle, FailCycle
    <3> QED
      BY <1>2, <2>2, <3>1, <3>2, <3>3
  <2>4. CASE SkipRecordedCycle(s, r, n) \/ StopCycle(s, r, n)
    <3>1. /\ ComesTo(s, {"completed"})
          /\ UNCHANGED <<subjectVars, match, plans, lapsed, runs, row, request, work>>
          /\ stops \subseteq stops' /\ stops' \subseteq stops \cup {r}
          /\ Recorded(r, n) \/ r \in stops'
      BY <2>4 DEF SkipRecordedCycle, StopCycle, planVars
    <3>2. {"completed"} \in SUBSET AttemptOutcome
      BY DEF AttemptOutcome
    <3>3. \/ \E run \in runs' : run.revision = server[s].task[2] /\ run.cycle = server[s].task[3]
          \/ server[s].task[2] \in stops'
      BY <2>2, <3>1 DEF Recorded
    <3>4. ServersOK'
      BY <1>0, <2>2, <3>1, <3>2, <3>3, CameTo
    <3>5. MatchOK'
      BY <1>0, <3>1, RankingStays
    <3> QED
      BY <1>0, <2>2, <3>1, <3>4, <3>5, OnlyServer DEF PlansOK
  <2> QED
    BY <1>3, <2>3, <2>4
<1>4. ASSUME NEW k \in ScoreTask,
             \/ CheckScore(s, k) \/ FailInference(s, k) \/ DiscardScore(s, k)
             \/ ApplyScore(s, k)
      PROVE  RankingInv'
  <2>1. server[s].task = k /\ k \in DOMAIN row /\ server[s].step \in {"run", "infer"}
    BY <1>0, <1>4 DEF CheckScore, FailInference, DiscardScore, ApplyScore, Scoring, ServersOK
  <2>2. CASE ApplyScore(s, k)
    <3>1. PICK m \in {Unscored("low_confidence"), Validated(k[3], k[4])} :
            match' = [match EXCEPT ![k[2]] = m]
      BY <2>2 DEF ApplyScore
    <3>2. k = CurrentScore(k[2]) /\ k[2] \in Profile
      BY <1>4, <2>2, TaskShapes DEF ApplyScore, StillScored
    <3>3. k[3] = evidence[k[2]] /\ k[4] = job.version
      BY <3>2 DEF CurrentScore
    <3>6. MatchOK' => RankingInv'
      BY <1>2, <2>1, <2>2 DEF ApplyScore, AttemptOutcome
    <3>7. MatchOK'
      <4>1. CASE m = Unscored("low_confidence")
        <5>1. m \in MatchRow /\ m.basis = <<>>
          BY <4>1, UnscoredFits
        <5> QED
          BY <1>0, <2>2, <3>1, <3>2, <5>1 DEF MatchOK, ApplyScore, subjectVars
      <4>2. CASE m = Validated(k[3], k[4])
        <5>1. /\ m \in MatchRow /\ m.status = "evidence_validated"
              /\ m.basis = <<evidence[k[2]], job.version>>
          BY <1>0, <3>2, <3>3, <4>2 DEF Validated, MatchRow, SubjectOK
        <5> QED
          BY <1>0, <2>2, <3>1, <3>2, <5>1 DEF MatchOK, ApplyScore, subjectVars
      <4> QED
        BY <3>1, <4>1, <4>2
    <3> QED
      BY <3>6, <3>7
  <2>3. CASE CheckScore(s, k) \/ FailInference(s, k) \/ DiscardScore(s, k)
    <3>1. MatchOK' /\ UNCHANGED <<subjectVars, match, planVars, row, request, work>>
      BY <1>0, <2>3, RankingStays DEF CheckScore, FailInference, DiscardScore
    <3>2. CASE \E outcomes \in {{"permanently_failed"},
                 {"retryable_failed", "permanently_failed", "blocked"}} : ComesTo(s, outcomes)
      BY <1>2, <2>1, <3>1, <3>2 DEF AttemptOutcome
    <3>3. CASE server' = [server EXCEPT ![s].step = "infer"]
      <4> DEFINE at0 == [server[s] EXCEPT !.step = "infer"]
      <4>1. server[s] \in ServerRow
        BY <1>0 DEF ServersOK
      <4>2. at0 \in ServerRow /\ at0.step = "infer" /\ at0.task = k
        BY <2>1, <4>1 DEF ServerRow
      <4>3. server' = [server EXCEPT ![s] = at0]
        BY <1>0, <3>3 DEF ServersOK
      <4>4. PICK at : at = at0
        OBVIOUS
      <4> HIDE DEF at0
      <4>5. CameToPass(at)'
        BY <4>2, <4>4 DEF CameToPass
      <4>6. ServersOK'
        BY <1>0, <2>1, <3>1, <4>2, <4>3, <4>4, <4>5, ServerSet DEF planVars
      <4> QED
        BY <1>0, <3>1, <4>6, OnlyServer DEF planVars, PlansOK
    <3> QED
      BY <2>3, <3>2, <3>3 DEF CheckScore, FailInference, DiscardScore
  <2> QED
    BY <1>4, <2>2, <2>3
<1> QED
  BY <1>1, <1>3, <1>4

\* The owner's switches and the end of a grant keep it.
LEMMA OfTheWorkspace ==
  ASSUME RankingInv,
         \/ PlanLapses \/ SwitchWork \/ UNCHANGED rankingVars
         \/ \E k \in DOMAIN row, what \in {"queued", "cancelled"} : AskQueue(what, k)
  PROVE  RankingInv'
<1>1. CASE PlanLapses
  <2>1. lapsed' \in BOOLEAN
    BY <1>1, Zenon DEF PlanLapses
  <2>2. PlansOK'
    BY <1>1, <2>1 DEF PlanLapses, RankingInv, PlansOK, Revision
  <2>3. ServersOK'
    BY <1>1, ServersStay DEF PlanLapses, RankingInv
  <2>4. NextWaits'
    BY <1>1, WaitsStays DEF PlanLapses
  <2> QED
    BY <1>1, <2>2, <2>3, <2>4, RankingStays DEF PlanLapses, RankingInv
<1>2. CASE SwitchWork
  <2>1. AnswerOK'
    BY <1>2 DEF SwitchWork, RankingInv, AnswerOK
  <2> QED
    BY <1>2, <2>1, RankingStays DEF SwitchWork, RankingInv, planVars
<1>3. CASE UNCHANGED rankingVars
  BY <1>3, RankingStays DEF rankingVars, RankingInv, planVars
<1>4. ASSUME NEW k \in DOMAIN row, NEW what \in {"queued", "cancelled"}, AskQueue(what, k)
      PROVE  RankingInv'
  <2>1. AnswerOK'
    BY <1>4 DEF AskQueue, RankingInv, AnswerOK
  <2> QED
    BY <1>4, <2>1, RankingStays DEF AskQueue, RankingInv, planVars
<1> QED
  BY <1>1, <1>2, <1>3, <1>4
-----------------------------------------------------------------------------
(* A cycle runs: what it mints, and the cycle after it.                    *)

\* What is minted of a finite choice is finite, and no more than what was chosen.
LEMMA MintedIsCounted ==
  ASSUME NEW chosen \in SUBSET Profile
  PROVE  LET minted == {CurrentScore(p) : p \in chosen}
         IN  /\ IsFiniteSet(minted) /\ Cardinality(minted) \in Nat
             /\ IsFiniteSet(chosen) /\ Cardinality(minted) <= Cardinality(chosen)
             /\ Cardinality(chosen) \in Nat
<1> DEFINE minted == {CurrentScore(p) : p \in chosen}
           f == [p \in chosen |-> CurrentScore(p)]
<1>1. IsFiniteSet(chosen) /\ Cardinality(chosen) \in Nat
  BY RankingNumbers, FS_Subset, FS_CardinalityType
<1>2. f \in Surjection(chosen, minted)
  BY DEF Surjection
<1>3. IsFiniteSet(minted) /\ Cardinality(minted) <= Cardinality(chosen)
  BY <1>1, <1>2, FS_Surjection
<1>4. Cardinality(minted) \in Nat
  BY <1>3, FS_CardinalityType
<1> QED
  BY <1>1, <1>3, <1>4

\* The next cycle of revision r is the first that is not recorded.
LEMMA NextIsNew ==
  ASSUME RunsOK, NEW r \in 1..MaxPlans, NEW n \in 1..MaxRuns, ~Recorded(r, n),
         n > 1 => Recorded(r, n - 1)
  PROVE  n = Cardinality(RunsOf(r)) + 1 /\ IsFiniteSet(RunsOf(r))
<1>1. /\ IsFiniteSet(RunsOf(r))
      /\ \A i \in Nat : Recorded(r, i) <=> i \in 1..Cardinality(RunsOf(r))
  BY DEF RunsOK, CyclesInRow
<1>2. Cardinality(RunsOf(r)) \in Nat /\ n \in Nat /\ n >= 1 /\ n - 1 \in Nat
  BY <1>1, FS_CardinalityType, RankingNumbers
<1>3. n \notin 1..Cardinality(RunsOf(r)) /\ (n > 1 => n - 1 \in 1..Cardinality(RunsOf(r)))
  BY <1>1, <1>2
<1> QED
  BY <1>1, <1>2, <1>3

\* What was minted under a grant, run by run.
LEMMA MintedOf ==
  ASSUME NEW r, NEW m
  PROVE  m \in MintedUnder(r) <=> \E x \in runs : x.revision = r /\ m \in x.minted
BY DEF MintedUnder

\* The same in the next state.
LEMMA MintedOfNext ==
  ASSUME NEW r, NEW m
  PROVE  m \in MintedUnder(r)' <=> \E x \in runs' : x.revision = r /\ m \in x.minted
BY DEF MintedUnder

\* Recording a run adds what it minted to its grant's and to no other.
LEMMA RecordsRun ==
  ASSUME RunsOK, NEW r \in 1..MaxPlans, NEW n \in 1..MaxRuns, NEW minted \in SUBSET ScoreTask,
         ~Recorded(r, n), n > 1 => Recorded(r, n - 1),
         runs' = runs \cup {[revision |-> r, cycle |-> n, minted |-> minted]},
         IsFiniteSet(minted)
  PROVE  /\ Cardinality(RunsOf(r))' = n /\ CyclesInRow(r)'
         /\ MintedUnder(r)' = MintedUnder(r) \cup minted
         /\ IsFiniteSet(MintedUnder(r))'
         /\ \A i : i # r => RunsOf(i)' = RunsOf(i) /\ MintedUnder(i)' = MintedUnder(i)
         /\ \A i \in 1..MaxPlans : i # r => CyclesInRow(i)'
<1> DEFINE new == [revision |-> r, cycle |-> n, minted |-> minted]
<1>0. /\ runs' = runs \cup {new} /\ new.revision = r /\ new.cycle = n /\ new.minted = minted
  OBVIOUS
<1> HIDE DEF new
<1>1. n = Cardinality(RunsOf(r)) + 1 /\ IsFiniteSet(RunsOf(r))
  BY NextIsNew
<1>2. RunsOf(r)' = RunsOf(r) \cup {new} /\ new \notin RunsOf(r)
  BY <1>0 DEF RunsOf, Recorded
<1>3. IsFiniteSet(RunsOf(r))' /\ Cardinality(RunsOf(r))' = n
  BY <1>1, <1>2, FS_AddElement
<1>4. CyclesInRow(r)'
  <2>1. ASSUME NEW i \in Nat PROVE Recorded(r, i)' <=> Recorded(r, i) \/ i = n
    BY <1>0 DEF Recorded
  <2>2. \A i \in Nat : Recorded(r, i) <=> i \in 1..(n - 1)
    <3>1. Cardinality(RunsOf(r)) = n - 1
      BY <1>1, FS_CardinalityType
    <3> QED
      BY <3>1 DEF RunsOK, CyclesInRow
  <2>3. n \in Nat /\ n >= 1 /\ n <= MaxRuns
    BY RankingNumbers
  <2>4. ASSUME NEW i \in Nat PROVE Recorded(r, i)' <=> i \in 1..n
    BY <2>1, <2>2, <2>3
  <2> QED
    BY <1>3, <2>3, <2>4 DEF CyclesInRow
<1>5. MintedUnder(r)' = MintedUnder(r) \cup minted
  <2>1. ASSUME NEW m PROVE m \in MintedUnder(r)' <=> m \in MintedUnder(r) \/ m \in minted
    <3>1. m \in MintedUnder(r) <=> \E x \in runs : x.revision = r /\ m \in x.minted
      BY MintedOf
    <3>2. m \in MintedUnder(r)' <=> \E x \in runs' : x.revision = r /\ m \in x.minted
      BY MintedOfNext
    <3> QED
      BY <1>0, <3>1, <3>2
  <2> QED
    BY <2>1
<1>6. IsFiniteSet(MintedUnder(r))'
  <2>1. IsFiniteSet(MintedUnder(r))
    BY DEF RunsOK
  <2>2. IsFiniteSet(MintedUnder(r) \cup minted)
    BY <2>1, FS_Union
  <2> QED
    BY <1>5, <2>2
<1>7. ASSUME NEW i, i # r
      PROVE  RunsOf(i)' = RunsOf(i) /\ MintedUnder(i)' = MintedUnder(i)
             /\ \A j \in Nat : Recorded(i, j)' <=> Recorded(i, j)
  BY <1>0, <1>7 DEF RunsOf, MintedUnder, Recorded
<1>8. ASSUME NEW i \in 1..MaxPlans, i # r PROVE CyclesInRow(i)'
  BY <1>7, <1>8 DEF RunsOK, CyclesInRow
<1> QED
  BY <1>3, <1>4, <1>5, <1>6, <1>7, <1>8
\* A cycle keeps the invariant: it mints within the grant and queues its successor.
LEMMA RunsCycle ==
  ASSUME RankingInv, NEW s \in Server, NEW r \in 1..MaxPlans, NEW n \in 1..MaxRuns,
         RunCycle(s, r, n)
  PROVE  RankingInv'
<1>0. SubjectOK /\ MatchOK /\ PlansOK /\ RunsOK /\ QueueOK /\ ServersOK /\ AnswerOK
  BY DEF RankingInv
<1>1. /\ AtCycle(s, r, n) /\ ~Recorded(r, n) /\ (n > 1 => Recorded(r, n - 1))
      /\ r = Revision /\ ComesTo(s, {"completed"})
      /\ UNCHANGED <<subjectVars, match, plans, lapsed, request, work>>
  BY DEF RunCycle, StopReason
<1>2. PICK chosen \in SUBSET ToScore, finished \in BOOLEAN :
        LET minted == {CurrentScore(p) : p \in chosen} IN
        /\ chosen # {} => Cardinality(chosen) <= Allowance(r)
        /\ n = MaxRuns => finished
        /\ runs' = runs \cup {[revision |-> r, cycle |-> n, minted |-> minted]}
        /\ row' = Queued(Queued(row, minted, r),
                         IF finished THEN {} ELSE {<<"cycle", r, n + 1>>}, 0)
        /\ stops' = IF finished THEN stops \cup {r} ELSE stops
  BY DEF RunCycle
<1> DEFINE minted == {CurrentScore(p) : p \in chosen}
           after == IF finished THEN {} ELSE {<<"cycle", r, n + 1>>}
           new == [revision |-> r, cycle |-> n, minted |-> minted]
<1>3. /\ chosen # {} => Cardinality(chosen) <= Allowance(r)
      /\ n = MaxRuns => finished
      /\ runs' = runs \cup {[revision |-> r, cycle |-> n, minted |-> minted]}
      /\ row' = Queued(Queued(row, minted, r), after, 0)
      /\ stops' = IF finished THEN stops \cup {r} ELSE stops
  BY <1>2
<1>4. chosen \in SUBSET Profile
  BY DEF ToScore
<1>5. /\ IsFiniteSet(minted) /\ Cardinality(minted) \in Nat
      /\ Cardinality(minted) <= Cardinality(chosen) /\ Cardinality(chosen) \in Nat
  BY <1>4, MintedIsCounted
<1>6. minted \in SUBSET ScoreTask
  BY <1>0, <1>4 DEF CurrentScore, ScoreTask, SubjectOK
<1>7. chosen = {} => minted = {}
  OBVIOUS
<1> HIDE DEF minted, after
<1>8. /\ Cardinality(RunsOf(r))' = n /\ CyclesInRow(r)'
      /\ MintedUnder(r)' = MintedUnder(r) \cup minted
      /\ IsFiniteSet(MintedUnder(r))'
      /\ \A i : i # r => RunsOf(i)' = RunsOf(i) /\ MintedUnder(i)' = MintedUnder(i)
      /\ \A i \in 1..MaxPlans : i # r => CyclesInRow(i)'
  BY <1>0, <1>1, <1>3, <1>5, <1>6, RecordsRun
<1>9. r \in 1..Revision /\ plans[r].budget \in Nat /\ Revision \in Nat
  <2>1. plans \in Seq(PlanRow)
    BY <1>0 DEF PlansOK
  <2>2. Revision \in Nat /\ r \in 1..Len(plans)
    BY <1>1, <2>1, LenProperties, RankingNumbers DEF Revision
  <2>3. plans[r] \in PlanRow
    BY <2>1, <2>2, ElementOfSeq
  <2> QED
    BY <2>2, <2>3 DEF PlanRow, Revision
<1>10. Cardinality(MintedUnder(r)) \in Nat /\ Cardinality(MintedUnder(r)) <= plans[r].budget
       /\ IsFiniteSet(MintedUnder(r))
  BY <1>0, <1>9, FS_CardinalityType DEF RunsOK
<1>11. Cardinality(minted) <= MaxPerRun
       /\ Cardinality(MintedUnder(r)) + Cardinality(minted) <= plans[r].budget
  <2>1. CASE chosen = {}
    <3>1. Cardinality(minted) = 0
      BY <1>7, <2>1, FS_EmptySet
    <3> QED
      BY <1>9, <1>10, <3>1, RankingNumbers
  <2>2. CASE chosen # {}
    <3>1. Cardinality(chosen) <= Allowance(r)
      BY <1>3, <2>2
    <3> QED
      BY <1>5, <1>9, <1>10, <3>1, RankingNumbers DEF Allowance
  <2> QED
    BY <2>1, <2>2
<1>12. Cardinality(MintedUnder(r))' <= plans[r].budget
  <2>1. /\ Cardinality(MintedUnder(r) \cup minted)
             = Cardinality(MintedUnder(r)) + Cardinality(minted)
               - Cardinality(MintedUnder(r) \cap minted)
        /\ IsFiniteSet(MintedUnder(r) \cap minted)
    BY <1>5, <1>10, FS_Union, FS_Intersection
  <2>2. Cardinality(MintedUnder(r) \cap minted) \in Nat
    BY <2>1, FS_CardinalityType
  <2> QED
    BY <1>5, <1>8, <1>9, <1>10, <1>11, <2>1, <2>2
<1>13. RunsOK'
  <2>1. new \in RunRow /\ new.revision = r /\ new.cycle = n /\ new.minted = minted
    BY <1>6 DEF RunRow
  <2>2. runs' = runs \cup {new}
    BY <1>3
  <2> HIDE DEF new
  <2>3. Revision' = Revision /\ plans' = plans
    BY <1>1 DEF Revision
  <2>4. runs' \subseteq RunRow
    BY <1>0, <2>1, <2>2 DEF RunsOK
  <2>5. \A x \in runs' : x.revision \in 1..Revision' /\ Cardinality(x.minted) <= MaxPerRun
    BY <1>0, <1>9, <1>11, <2>1, <2>2, <2>3 DEF RunsOK
  <2>6. ASSUME NEW x \in runs', NEW y \in runs', x.revision = y.revision, x.cycle = y.cycle
        PROVE  x = y
    BY <1>0, <1>1, <2>1, <2>2, <2>6 DEF RunsOK, Recorded
  <2>7. ASSUME NEW i \in 1..MaxPlans PROVE CyclesInRow(i)' /\ IsFiniteSet(MintedUnder(i))'
    BY <1>0, <1>8 DEF RunsOK
  <2>8. ASSUME NEW i \in 1..Revision PROVE Cardinality(MintedUnder(i))' <= plans'[i].budget
    BY <1>0, <1>8, <1>12, <2>3 DEF RunsOK
  <2> QED
    BY <2>3, <2>4, <2>5, <2>6, <2>7, <2>8 DEF RunsOK
<1>14. /\ DOMAIN row' = DOMAIN row \cup minted \cup after
       /\ row' \in [DOMAIN row' -> TaskRow]
       /\ \A k \in after : row'[k].status = "queued"
  <2>1. row \in [DOMAIN row -> TaskRow] /\ 0 \in 0..MaxPlans /\ r \in 0..MaxPlans
    BY <1>0, RankingNumbers DEF QueueOK
  <2>2. PICK mid : mid = Queued(row, minted, r)
    OBVIOUS
  <2>3. DOMAIN mid = DOMAIN row \cup minted /\ mid \in [DOMAIN mid -> TaskRow]
    BY <2>1, <2>2, QueuedRows
  <2>4. row' = Queued(mid, after, 0)
    BY <1>3, <2>2
  <2>5. mid \in [DOMAIN mid -> TaskRow]
    BY <2>3
  <2>6. /\ DOMAIN Queued(mid, after, 0) = DOMAIN mid \cup after
        /\ Queued(mid, after, 0) \in [DOMAIN mid \cup after -> TaskRow]
        /\ \A k \in after : Queued(mid, after, 0)[k].status = "queued"
    BY <2>5, QueuedUngranted
  <2> QED
    BY <2>3, <2>4, <2>6
<1>15. after \subseteq CycleTask /\ \A k \in after : k = <<"cycle", r, n + 1>>
  BY <1>3, TaskShapes, RankingNumbers DEF after
<1>16. QueueOK'
  <2>1. DOMAIN row' \subseteq QueueTask
    BY <1>0, <1>6, <1>14, <1>15 DEF QueueOK, QueueTask
  <2>2. ASSUME NEW k \in CycleTask \cap DOMAIN row' PROVE k[2] \in 1..Revision
    <3>1. CASE k \in DOMAIN row
      BY <1>0, <2>2, <3>1 DEF QueueOK
    <3>2. CASE k \in minted
      BY <1>6, <2>2, <3>2, TaskShapes
    <3>3. CASE k \in after
      BY <1>9, <1>15, <3>3
    <3> QED
      BY <1>14, <2>2, <3>1, <3>2, <3>3
  <2> QED
    BY <1>1, <1>14, <2>1, <2>2 DEF QueueOK, Revision
<1>17. PlansOK'
  BY <1>0, <1>1, <1>3, <1>9 DEF PlansOK, Revision
<1>18. ServersOK'
  <2>1. /\ server[s].task \in DOMAIN row /\ server[s].task[2] = r /\ server[s].task[3] = n
    BY <1>1, HeldTask
  <2>2. {"completed"} \in SUBSET AttemptOutcome
    BY DEF AttemptOutcome
  <2>3. \E run \in runs' : run.revision = server[s].task[2] /\ run.cycle = server[s].task[3]
    <3>1. new \in runs' /\ new.revision = r /\ new.cycle = n
      BY <1>3
    <3> QED
      BY <2>1, <3>1
  <2>4. DOMAIN row \subseteq DOMAIN row' /\ runs \subseteq runs' /\ stops \subseteq stops'
    BY <1>3, <1>14
  <2> QED
    BY <1>0, <1>1, <2>1, <2>2, <2>3, <2>4, CameTo
<1>19. AnswerOK'
  BY <1>0, <1>1, <1>14 DEF AnswerOK
<1>20. NextWaits'
  <2> SUFFICES ASSUME PlanGoesOn' PROVE /\ Cardinality(RunsOf(Revision))' < MaxRuns
                                    /\ (NextCycle \in DOMAIN row)'
                                    /\ (row[NextCycle].status # "completed")'
    BY DEF NextWaits
  <2>1. Revision' = r
    BY <1>1 DEF Revision
  <2>2. ~finished
    BY <1>3, <2>1 DEF PlanGoesOn
  <2>3. Cardinality(RunsOf(Revision))' = n
    BY <1>8, <2>1
  <2>4. NextCycle' \in after
    BY <2>1, <2>2, <2>3 DEF NextCycle, after
  <2>5. n < MaxRuns
    BY <1>3, <2>2, RankingNumbers
  <2> QED
    BY <1>14, <2>3, <2>4, <2>5
<1> QED
  BY <1>0, <1>1, <1>13, <1>16, <1>17, <1>18, <1>19, <1>20, RankingStays DEF RankingInv

-----------------------------------------------------------------------------
(* The owner's new plan.                                                   *)

\* A new grant keeps it.
LEMMA Configures ==
  ASSUME RankingInv, NEW on \in BOOLEAN, NEW budget \in {0, MaxAiTasks},
         ConfigureRefresh(on, budget)
  PROVE  RankingInv'
<1>0. SubjectOK /\ MatchOK /\ PlansOK /\ RunsOK /\ QueueOK /\ ServersOK /\ AnswerOK
  BY DEF RankingInv
<1> DEFINE plan == [on |-> on, budget |-> budget, version |-> job.version,
                    stage |-> job.stage]
           keys == IF on THEN {<<"cycle", Revision + 1, 1>>} ELSE {}
<1>1. plan \in PlanRow /\ plan.on = on /\ plan.budget \in Nat
  BY <1>0, RankingNumbers DEF SubjectOK, PlanRow
<1>2. /\ plans' = Append(plans, plan) /\ lapsed' = FALSE /\ row' = Queued(Revoked, keys, 0)
      /\ UNCHANGED <<subjectVars, match, stops, runs, server, request, work>>
      /\ Revision < MaxPlans
  BY DEF ConfigureRefresh
<1> HIDE DEF plan, keys
<1>3. /\ plans' \in Seq(PlanRow) /\ Len(plans') = Len(plans) + 1 /\ Len(plans) \in Nat
      /\ \A i \in 1..Len(plans) : plans'[i] = plans[i]
      /\ plans'[Len(plans) + 1] = plan
  BY <1>0, <1>1, <1>2, AppendProperties, LenProperties DEF PlansOK
<1>4. Revision' = Revision + 1 /\ Revision \in Nat /\ Revision + 1 \in 1..MaxPlans
  BY <1>2, <1>3, RankingNumbers DEF Revision
<1>5. PlansOK'
  <2>1. lapsed' \in BOOLEAN
    BY <1>2
  <2>2. stops' \subseteq 1..Revision'
    BY <1>0, <1>2, <1>4 DEF PlansOK
  <2> QED
    BY <1>3, <1>4, <2>1, <2>2, RankingNumbers DEF PlansOK, Revision
<1>6. RunsOf(Revision + 1) = {} /\ MintedUnder(Revision + 1) = {}
  <2>1. \A x \in runs : x.revision # Revision + 1
    BY <1>0, <1>4 DEF RunsOK
  <2>2. RunsOf(Revision + 1) = {}
    BY <2>1 DEF RunsOf
  <2>3. MintedUnder(Revision + 1) = {}
    BY <2>1, MintedOf
  <2> QED
    BY <2>2, <2>3
<1>7. RunsOK'
  <2>1. ASSUME NEW r
        PROVE  /\ RunsOf(r)' = RunsOf(r) /\ MintedUnder(r)' = MintedUnder(r)
               /\ \A n : Recorded(r, n)' <=> Recorded(r, n)
    BY <1>2 DEF RunsOf, MintedUnder, Recorded
  <2>2. ASSUME NEW r \in 1..MaxPlans
        PROVE  CyclesInRow(r)' /\ IsFiniteSet(MintedUnder(r))'
    BY <1>0, <2>1 DEF RunsOK, CyclesInRow
  <2>3. ASSUME NEW r \in 1..Revision' PROVE Cardinality(MintedUnder(r))' <= plans'[r].budget
    <3>1. CASE r = Revision + 1
      <4>1. Cardinality(MintedUnder(r))' = 0
        BY <1>6, <2>1, <3>1, FS_EmptySet
      <4>2. plans'[r].budget \in Nat
        BY <1>1, <1>3, <3>1 DEF Revision
      <4> QED
        BY <4>1, <4>2
    <3>2. CASE r # Revision + 1
      BY <1>0, <1>3, <1>4, <2>1, <2>3, <3>2 DEF RunsOK, Revision
    <3> QED
      BY <3>1, <3>2
  <2>4. \A x \in runs : x.revision \in 1..Revision'
    BY <1>0, <1>4 DEF RunsOK
  <2> QED
    BY <1>0, <1>2, <2>2, <2>3, <2>4 DEF RunsOK
<1>8. /\ DOMAIN Revoked = DOMAIN row /\ Revoked \in [DOMAIN row -> TaskRow]
  <2>1. ASSUME NEW k \in DOMAIN row PROVE Revoked[k] \in TaskRow
    <3>1. row[k] \in TaskRow
      BY <1>0 DEF QueueOK
    <3>2. [row[k] EXCEPT !.status = "cancelled", !.holder = Nil] \in TaskRow
      BY <3>1 DEF TaskRow, TaskStatus
    <3> QED
      BY <3>1, <3>2 DEF Revoked
  <2>2. DOMAIN Revoked = DOMAIN row /\ Revoked = [k \in DOMAIN row |-> Revoked[k]]
    BY DEF Revoked
  <2>3. PICK f : f = Revoked
    OBVIOUS
  <2>4. f = [k \in DOMAIN row |-> f[k]] /\ \A k \in DOMAIN row : f[k] \in TaskRow
    BY <2>1, <2>2, <2>3
  <2>5. f \in [DOMAIN row -> TaskRow]
    BY <2>4
  <2> QED
    BY <2>2, <2>3, <2>5
<1>9. /\ DOMAIN row' = DOMAIN row \cup keys /\ row' \in [DOMAIN row' -> TaskRow]
      /\ \A k \in keys : row'[k].status = "queued"
  BY <1>2, <1>8, QueuedUngranted
<1>10. keys \subseteq CycleTask /\ \A k \in keys : k = <<"cycle", Revision + 1, 1>>
  BY <1>4, TaskShapes, RankingNumbers DEF keys
<1>11. QueueOK'
  <2>1. DOMAIN row' \subseteq QueueTask
    BY <1>0, <1>9, <1>10 DEF QueueOK, QueueTask
  <2>2. \A k \in CycleTask \cap DOMAIN row' : k[2] \in 1..Revision'
    BY <1>0, <1>4, <1>9, <1>10 DEF QueueOK
  <2> QED
    BY <1>9, <2>1, <2>2 DEF QueueOK
<1>12. ServersOK' /\ AnswerOK'
  BY <1>0, <1>2, <1>9, ServersStay DEF AnswerOK
<1>13. NextWaits'
  <2> SUFFICES ASSUME PlanGoesOn' PROVE /\ Cardinality(RunsOf(Revision))' < MaxRuns
                                    /\ (NextCycle \in DOMAIN row)'
                                    /\ (row[NextCycle].status # "completed")'
    BY DEF NextWaits
  <2>1. on
    BY <1>1, <1>3, <1>4 DEF PlanGoesOn, Revision
  <2>2. RunsOf(Revision)' = {}
    BY <1>2, <1>4, <1>6 DEF RunsOf
  <2>3. Cardinality(RunsOf(Revision))' = 0
    BY <2>2, FS_EmptySet
  <2>4. NextCycle' \in keys
    BY <1>4, <2>1, <2>3 DEF NextCycle, keys
  <2> QED
    BY <1>9, <2>3, <2>4, RankingNumbers
<1> QED
  BY <1>0, <1>2, <1>5, <1>7, <1>11, <1>12, <1>13, RankingStays DEF RankingInv

-----------------------------------------------------------------------------

\* The invariant holds in every reachable state of the ranking.
LEMMA RankingInvariant == RankingSpec => []RankingInv
<1>1. RankingInv /\ [RankingNext]_rankingVars => RankingInv'
  <2> SUFFICES ASSUME RankingInv, [RankingNext]_rankingVars PROVE RankingInv'
    OBVIOUS
  <2>1. ASSUME NEW s \in Server, Worker(s) PROVE RankingInv'
    BY <2>1, Claims, Settles, OfAServer, RunsCycle DEF Worker
  <2>2. CASE \E on \in BOOLEAN, budget \in {0, MaxAiTasks} : ConfigureRefresh(on, budget)
    BY <2>2, Configures
  <2>3. CASE PlanLapses \/ SwitchWork \/ UNCHANGED rankingVars
    BY <2>3, OfTheWorkspace
  <2>4. CASE AnswerQueue \/ SaveIntake \/ MoveJob
    BY <2>4, OfTheQueue, OfTheSubject
  <2>5. ASSUME NEW k \in DOMAIN row,
               LeaseExpires(k) \/ \E what \in {"queued", "cancelled"} : AskQueue(what, k)
        PROVE  RankingInv'
    BY <2>5, OfTheQueue, OfTheWorkspace
  <2>6. ASSUME NEW p \in Profile,
               QueueByHand(p) \/ RecordMatch(p) \/ ChangeEvidence(p) \/ LoseProfile(p)
        PROVE  RankingInv'
    BY <2>6, QueuesByHand, OfTheSubject
  <2> QED
    BY <2>1, <2>2, <2>3, <2>4, <2>5, <2>6 DEF RankingNext
<1> QED
  BY <1>1, RankingInvInit, PTL DEF RankingSpec

\* Type correctness of the plan, the queue, the runs and the matches.
THEOREM RankingTypeCorrect == RankingSpec => []RankingTypeOK
<1>1. RankingInv => RankingTypeOK
  <2> SUFFICES ASSUME RankingInv PROVE RankingTypeOK
    OBVIOUS
  <2>1. stops \subseteq 1..MaxPlans
    BY LenProperties, RankingNumbers DEF RankingInv, PlansOK, Revision
  <2> QED
    BY <2>1 DEF RankingInv, RankingTypeOK, SubjectOK, MatchOK, PlansOK, RunsOK, QueueOK,
       AnswerOK, MatchRow, PlanRow, RunRow, TaskRow, TaskStatus
<1> QED
  BY <1>1, RankingInvariant, PTL

\* However long the inference took, a validated score is of the evidence and the
\* requirement as they are now (matchContext.ts, rankedMatching.ts).
THEOREM ScoresAreCurrent == RankingSpec => []ValidatedIsCurrent
<1>1. RankingInv => ValidatedIsCurrent
  BY DEF RankingInv, MatchOK, ValidatedIsCurrent
<1> QED
  BY <1>1, RankingInvariant, PTL

\* Through retries, lost leases and deferrals, each cycle of a revision ran once and after
\* the one before it, and what a run and the whole plan minted is within what the owner
\* granted (rankingRefresh.ts:71, :85).
THEOREM RunsStayWithinGrant == RankingSpec => []UnattendedWithinGrant
<1>1. RankingInv => UnattendedWithinGrant
  <2> SUFFICES ASSUME RankingInv PROVE UnattendedWithinGrant
    OBVIOUS
  <2>1. ASSUME NEW x \in runs, x.cycle > 1 PROVE Recorded(x.revision, x.cycle - 1)
    <3>1. /\ x.revision \in 1..MaxPlans /\ x.cycle \in 1..MaxRuns
          /\ Recorded(x.revision, x.cycle) /\ CyclesInRow(x.revision)
      BY DEF RankingInv, RunsOK, RunRow, Recorded
    <3>2. Cardinality(RunsOf(x.revision)) \in Nat
      BY <3>1, FS_CardinalityType DEF CyclesInRow
    <3>3. x.cycle \in 1..Cardinality(RunsOf(x.revision)) /\ x.cycle - 1 \in Nat
      BY <3>1, RankingNumbers DEF CyclesInRow
    <3>4. x.cycle - 1 \in 1..Cardinality(RunsOf(x.revision))
      BY <2>1, <3>1, <3>2, <3>3, RankingNumbers
    <3> QED
      BY <3>1, <3>3, <3>4 DEF CyclesInRow
  <2> QED
    BY <2>1 DEF RankingInv, RunsOK, UnattendedWithinGrant
<1> QED
  BY <1>1, RankingInvariant, PTL

\* A plan that is on and was not stopped has the task of its next cycle in the queue, not
\* settled as done, whatever became of the attempts before (rankingRefresh.ts:86).
THEOREM PlanKeepsGoing == RankingSpec => []RefreshContinues
<1>1. RankingInv => RefreshContinues
  <2> SUFFICES ASSUME RankingInv, PlanGoesOn
               PROVE  LET next == Cardinality(RunsOf(Revision)) + 1
                      IN  /\ next <= MaxRuns
                          /\ Row(<<"cycle", Revision, next>>).status \notin {Nil, "completed"}
    BY DEF RefreshContinues, PlanGoesOn, RunsOf
  <2>1. /\ Cardinality(RunsOf(Revision)) < MaxRuns
        /\ NextCycle \in DOMAIN row /\ row[NextCycle].status # "completed"
    BY DEF RankingInv, NextWaits
  <2>2. Revision \in 1..MaxPlans
    BY RankingNumbers, LenProperties DEF PlanGoesOn, RankingInv, PlansOK, Revision
  <2>3. Cardinality(RunsOf(Revision)) \in Nat
    BY <2>2, FS_CardinalityType DEF RankingInv, RunsOK, CyclesInRow
  <2>4. row[NextCycle].status \in TaskStatus
    BY <2>1 DEF RankingInv, QueueOK, TaskRow
  <2>5. row[NextCycle].status # Nil
    BY <2>4 DEF TaskStatus, Unsettled, Ready, Nil
  <2> QED
    BY <2>1, <2>3, <2>5, RankingNumbers DEF Row, NextCycle
<1> QED
  BY <1>1, RankingInvariant, PTL
=============================================================================
