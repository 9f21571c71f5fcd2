--------------------------- MODULE InterviewSlots ---------------------------
(***************************************************************************)
(* The recorded calendar of one candidate: interviews, internal slot holds,*)
(* the owner's tentative discovery meeting, and the links by which         *)
(* candidate and interviewer confirm a schedule.  Every operation is one   *)
(* workspace transaction and one step; a refused one changes nothing, and  *)
(* neither does one repeated under its request key.                        *)
(*                                                                         *)
(* Appointments stay in the future; client, job, wording, reminders and the*)
(* external calendar are left out.                                         *)
(***************************************************************************)
EXTENDS Integers, Workflow

CONSTANTS
  Interview, Hold,    \* row ids
  Start,              \* times an appointment may start
  Length, Buffer,     \* its length; what a discovery keeps free around it
  MaxReschedules      \* bound: rescheduleCount

ASSUME SlotsAssumption ==
  Start \subseteq Int /\ Length \in Nat \ {0} /\ Buffer \in Nat /\ MaxReschedules \in Nat

VARIABLES
  interview,    \* interviews rows: status, start, calendarStatus, rescheduleCount
  confirmedBy,  \* actor of the audit event that last confirmed each interview
  pair,         \* the newest pair of confirmation links of each interview
  hold,         \* interviewSlotHolds rows
  meeting,      \* starts of the owner's tentative discovery meetings
  schedulable,  \* requireSchedulableCandidate finds the candidate
  accepted      \* history: the schedule each participant last accepted

slotVars == <<interview, confirmedBy, pair, hold, meeting, schedulable, accepted>>

reservedStates == {"proposed", "scheduled", "confirmed", "reminder_sent",
                   "reschedule_requested"}
Participant == {"candidate", "interviewer"}
Decision == {"confirmed", "declined"}
NoInterview == [status |-> "none", at |-> 0, calendar |-> "none", count |-> 0]
NoHold == [status |-> "none", at |-> 0]
NoSchedule == -1
NoPair == [print |-> NoSchedule, answer |-> [p \in Participant |-> "revoked"]]

SlotsInit ==
  /\ interview = [i \in Interview |-> NoInterview]
  /\ confirmedBy = [i \in Interview |-> "none"]
  /\ pair = [i \in Interview |-> NoPair]
  /\ hold = [h \in Hold |-> NoHold]
  /\ meeting = {} /\ schedulable = TRUE
  /\ accepted = [i \in Interview |-> [p \in Participant |-> NoSchedule]]
-----------------------------------------------------------------------------
(* Conflicts.                                                              *)

Clash(a, b, pad) == a < b + Length + pad /\ b < a + Length + pad

\* An interview that holds its slot.
Live(row) == row.status \in reservedStates /\ row.calendar # "cancelled"
overlaps(s, self) ==
  {i \in Interview \ self : Live(interview[i]) /\ Clash(interview[i].at, s, 0)}
holdConflicts(s, own, pad) ==
  {h \in Hold \ own : hold[h].status = "active" /\ Clash(hold[h].at, s, pad)}

\* rejectHeldSlot lets a slot pass that no discovery and no other hold keeps
\* (mutant: it does not look at the holds).
UnmetSlot(s, own) == \A m \in meeting : ~Clash(m, s, Buffer)
UnheldSlot(s, own) ==
  (\A m \in meeting : ~Clash(m, s, Buffer)) /\ holdConflicts(s, own, 0) = {}

Exists(i) == interview[i] # NoInterview
-----------------------------------------------------------------------------
(* Scheduling.                                                             *)

\* scheduleInterviewInTransaction: an interview exactly there is found again.
Scheduled(s, own) ==
  /\ schedulable /\ UnheldSlot(s, own)
  /\ \/ /\ overlaps(s, {}) = {}
        /\ \E i \in Interview :
             /\ ~Exists(i)
             /\ interview' = [interview EXCEPT ![i] =
                  [status |-> "scheduled", at |-> s, calendar |-> "tentative",
                   count |-> 0]]
     \/ /\ \E i \in Interview : overlaps(s, {}) = {i} /\ interview[i].at = s
        /\ UNCHANGED interview

Schedule(s) ==
  /\ Scheduled(s, {})
  /\ UNCHANGED <<confirmedBy, pair, hold, meeting, schedulable, accepted>>

\* rescheduleInterviewInTransaction; the same slot again changes nothing.
Reschedule(i, s) ==
  /\ Exists(i) /\ schedulable
  /\ MayMove(InterviewFlow, interview[i].status, "reschedule_requested")
  /\ ~(Live(interview[i]) /\ interview[i].status # "reschedule_requested"
       /\ interview[i].at = s)
  /\ UnheldSlot(s, {}) /\ overlaps(s, {i}) = {}
  /\ interview[i].count < MaxReschedules
  /\ interview' = [interview EXCEPT ![i] =
       [status |-> "scheduled", at |-> s, calendar |-> "tentative",
        count |-> @.count + 1]]
  /\ UNCHANGED <<confirmedBy, pair, hold, meeting, schedulable, accepted>>

\* changeInterviewStateInTransaction, by the owner or a participant.
StateChanged(i, s, actor) ==
  /\ Exists(i) /\ interview[i].status # s
  /\ MayMove(InterviewFlow, interview[i].status, s)
  /\ s \in reservedStates =>
       /\ schedulable
       /\ UnheldSlot(interview[i].at, {}) /\ overlaps(interview[i].at, {i}) = {}
  /\ interview' = [interview EXCEPT ![i].status = s,
       ![i].calendar = IF s = "confirmed" THEN "confirmed"
                       ELSE IF s \in {"cancelled", "reschedule_requested"}
                       THEN "cancelled" ELSE @]
  /\ confirmedBy' = IF s = "confirmed" THEN [confirmedBy EXCEPT ![i] = actor]
                    ELSE confirmedBy

ChangeState(i) ==
  \E s \in DOMAIN InterviewFlow :
    /\ StateChanged(i, s, "user")
    /\ UNCHANGED <<pair, hold, meeting, schedulable, accepted>>

\* The candidate withdraws, is avoided or erased.
CandidateLeaves ==
  /\ schedulable /\ schedulable' = FALSE
  /\ UNCHANGED <<interview, confirmedBy, pair, hold, meeting, accepted>>
-----------------------------------------------------------------------------
(* Holds and the discovery meeting.                                        *)

HoldSlot(h, s) ==
  /\ hold[h] = NoHold /\ schedulable
  /\ UnheldSlot(s, {}) /\ overlaps(s, {}) = {}
  /\ hold' = [hold EXCEPT ![h] = [status |-> "active", at |-> s]]
  /\ UNCHANGED <<interview, confirmedBy, pair, meeting, schedulable, accepted>>

ReleaseHold(h) ==
  /\ hold[h].status = "active" /\ hold' = [hold EXCEPT ![h].status = "released"]
  /\ UNCHANGED <<interview, confirmedBy, pair, meeting, schedulable, accepted>>

\* expiresAt passes.
HoldExpires(h) ==
  /\ hold[h].status = "active" /\ hold' = [hold EXCEPT ![h].status = "expired"]
  /\ UNCHANGED <<interview, confirmedBy, pair, meeting, schedulable, accepted>>

BookHold(h) ==
  /\ hold[h].status = "active" /\ Scheduled(hold[h].at, {h})
  /\ hold' = [hold EXCEPT ![h].status = "consumed"]
  /\ UNCHANGED <<confirmedBy, pair, meeting, schedulable, accepted>>

\* bookDiscovery as the calendar sees it: recordedOwnerBusy over the padded time.
BookMeeting(s) ==
  /\ \A i \in Interview : Live(interview[i]) => ~Clash(interview[i].at, s, Buffer)
  /\ holdConflicts(s, {}, Buffer) = {}
  /\ \A m \in meeting : ~Clash(m, s, 2 * Buffer)
  /\ meeting' = meeting \cup {s}
  /\ UNCHANGED <<interview, confirmedBy, pair, hold, schedulable, accepted>>

CancelMeeting ==
  /\ \E m \in meeting : meeting' = meeting \ {m}
  /\ UNCHANGED <<interview, confirmedBy, pair, hold, schedulable, accepted>>
-----------------------------------------------------------------------------
(* Confirmation by both participants.  confirmationScheduleFingerprint     *)
(* changes with rescheduleCount, which stands for it.                      *)

\* A new pair of links; every earlier one is revoked.
CreateConfirmations(i) ==
  /\ interview[i].status = "scheduled" /\ interview[i].calendar # "cancelled"
  /\ schedulable
  /\ pair' = [pair EXCEPT ![i] = [print |-> interview[i].count,
                                  answer |-> [p \in Participant |-> "pending"]]]
  /\ UNCHANGED <<interview, confirmedBy, hold, meeting, schedulable, accepted>>

\* Revoked by the owner; an expired link is as good as revoked.
RevokeConfirmations(i) ==
  /\ pair[i] # NoPair /\ pair' = [pair EXCEPT ![i] = NoPair]
  /\ UNCHANGED <<interview, confirmedBy, hold, meeting, schedulable, accepted>>

\* The link still speaks of the schedule there is (mutant: it speaks of the
\* interview).
StillOpen(i) == Live(interview[i])
Current(i) == Live(interview[i]) /\ pair[i].print = interview[i].count

\* publicInterviewConfirmation: p answers its pending link.
MayAnswer(i, p) ==
  /\ pair[i].answer[p] = "pending" /\ schedulable
  /\ interview[i].status = "scheduled" /\ Current(i)

Confirm(i, p) ==
  /\ MayAnswer(i, p)
  /\ pair' = [pair EXCEPT ![i].answer[p] = "confirmed"]
  /\ accepted' = [accepted EXCEPT ![i][p] = interview[i].count]
  /\ IF \A q \in Participant : q = p \/ pair[i].answer[q] = "confirmed"
     THEN StateChanged(i, "confirmed", "provider")
     ELSE UNCHANGED <<interview, confirmedBy>>
  /\ UNCHANGED <<hold, meeting, schedulable>>

\* The other pending link is revoked.
Decline(i, p) ==
  /\ MayAnswer(i, p)
  /\ StateChanged(i, "reschedule_requested", "provider")
  /\ pair' = [pair EXCEPT ![i].answer = [q \in Participant |->
       IF q = p THEN "declined" ELSE IF @[q] = "pending" THEN "revoked" ELSE @[q]]]
  /\ UNCHANGED <<hold, meeting, schedulable, accepted>>
-----------------------------------------------------------------------------
\* What happens to the calendar apart from a participant's decline.
CalendarStep ==
  \/ \E s \in Start : Schedule(s) \/ BookMeeting(s)
  \/ \E i \in Interview :
       \/ ChangeState(i) \/ CreateConfirmations(i) \/ RevokeConfirmations(i)
       \/ \E s \in Start : Reschedule(i, s)
       \/ \E p \in Participant : Confirm(i, p)
  \/ \E h \in Hold : \/ ReleaseHold(h) \/ HoldExpires(h) \/ BookHold(h)
                     \/ \E s \in Start : HoldSlot(h, s)
  \/ CancelMeeting \/ CandidateLeaves

SlotsNext ==
  \/ CalendarStep
  \/ \E i \in Interview, p \in Participant : Decline(i, p)

SlotsSpec == SlotsInit /\ [][SlotsNext]_slotVars
-----------------------------------------------------------------------------
Answer == {"pending", "revoked"} \cup Decision
InterviewRow == [status : DOMAIN InterviewFlow, at : Start, count : 0..MaxReschedules,
                 calendar : {"tentative", "confirmed", "cancelled"}]
HoldRow == [status : {"active", "released", "expired", "consumed"}, at : Start]

SlotsTypeOK ==
  /\ interview \in [Interview -> InterviewRow \cup {NoInterview}]
  /\ confirmedBy \in [Interview -> {"none", "user", "provider"}]
  /\ pair \in [Interview -> [print : Int, answer : [Participant -> Answer]]]
  /\ hold \in [Hold -> HoldRow \cup {NoHold}]
  /\ meeting \subseteq Start /\ schedulable \in BOOLEAN
  /\ accepted \in [Interview -> [Participant -> Int]]

\* The candidate is nowhere twice, and neither is the owner: interviews that keep
\* their slot, active holds and padded discovery meetings never overlap, through
\* whatever holds are booked or lapse and whatever is moved or reopened
\* (interviewScheduling.ts:30, recordedCalendarBusy.ts:13).
NoDoubleBooking ==
  /\ \A i \in Interview : Live(interview[i]) =>
       /\ overlaps(interview[i].at, {i}) = {}
       /\ UnmetSlot(interview[i].at, {}) /\ holdConflicts(interview[i].at, {}, 0) = {}
  /\ \A h \in Hold : hold[h].status = "active" =>
       UnmetSlot(hold[h].at, {}) /\ holdConflicts(hold[h].at, {h}, 0) = {}
  /\ \A m, n \in meeting : m = n \/ ~Clash(m, n, Buffer)

\* An interview that the participants' answers confirmed was accepted by both at the
\* time it now has: no answer to an earlier schedule counts
\* (interviewConfirmations.ts:16, :55).
ConfirmedMeansAgreed ==
  \A i \in Interview :
    /\ interview[i].status \in {"confirmed", "reminder_sent", "completed"}
    /\ confirmedBy[i] = "provider"
    => \A p \in Participant : accepted[i][p] = interview[i].count
=============================================================================
