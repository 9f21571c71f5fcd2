---------------------- MODULE InterviewRecovery_proofs -----------------------
(* Theorems about InterviewSlots and InterviewRecovery for any number of   *)
(* interviews, holds, starts, groups of invitations and bookings in flight.*)
EXTENDS InterviewRecovery, TLAPS

-----------------------------------------------------------------------------
(* The table of interview states.                                          *)

InterviewStatus ==
  {"proposed", "availability_requested", "scheduled", "confirmed", "reminder_sent",
   "reschedule_requested", "completed", "feedback_pending", "feedback_received",
   "no_show", "cancelled", "closed"}

\* The interview table has exactly the interview statuses for keys.
LEMMA InterviewStates == DOMAIN InterviewFlow = InterviewStatus
BY DEF InterviewFlow, InterviewStatus

\* What an interview is once the owner or the participants agreed, it was before or
\* has just been confirmed.
Agreed == {"confirmed", "reminder_sent", "completed"}

\* Only a confirmation leads into the agreed states from outside them.
LEMMA AgreedFollows ==
  ASSUME NEW from \in InterviewStatus, NEW to \in Agreed \ {"confirmed"},
         MayMove(InterviewFlow, from, to)
  PROVE  from \in Agreed
BY DEF MayMove, InterviewFlow, InterviewStatus, Agreed

\* A row that is there is an interview's; only such a row follows the table.
LEMMA RowThere ==
  ASSUME SlotsTypeOK, NEW i \in Interview, Exists(i)
  PROVE  /\ interview[i] \in InterviewRow
         /\ interview[i].status \in InterviewStatus
         /\ interview[i].at \in Start /\ interview[i].at \in Int
         /\ interview[i].count \in 0..MaxReschedules
BY InterviewStates, SlotsAssumption DEF SlotsTypeOK, InterviewRow, Exists

\* An active hold is for one of the hours offered, which is a number.
LEMMA ActiveHold ==
  ASSUME SlotsTypeOK, NEW h \in Hold, hold[h].status = "active"
  PROVE  hold[h].at \in Start /\ hold[h].at \in Int
<1>1. hold[h] \in HoldRow
  BY DEF SlotsTypeOK, NoHold
<1> QED
  BY <1>1, SlotsAssumption DEF HoldRow

\* An interview that occupies its hour exists.
LEMMA LiveRow ==
  ASSUME SlotsTypeOK, NEW i \in Interview, Live(interview[i])
  PROVE  Exists(i)
BY DEF SlotsTypeOK, Live, Exists, NoInterview, reservedStates

-----------------------------------------------------------------------------
(* The effects that several operations share.                              *)

\* A found interview changes nothing; a new one is a well-typed row.
LEMMA ScheduledType ==
  ASSUME SlotsTypeOK, NEW s \in Start, NEW own, Scheduled(s, own)
  PROVE  interview' \in [Interview -> InterviewRow \cup {NoInterview}]
<1>1. CASE UNCHANGED interview
  BY <1>1 DEF SlotsTypeOK
<1>2. CASE \E i \in Interview : interview' = [interview EXCEPT ![i] =
             [status |-> "scheduled", at |-> s, calendar |-> "tentative", count |-> 0]]
  <2>1. [status |-> "scheduled", at |-> s, calendar |-> "tentative", count |-> 0]
          \in InterviewRow
    BY InterviewStates, SlotsAssumption DEF InterviewRow, InterviewStatus
  <2> QED
    BY <1>2, <2>1 DEF SlotsTypeOK
<1> QED
  BY <1>1, <1>2 DEF Scheduled

\* A state change keeps the time and the count, and every other interview.
LEMMA StateChangedRow ==
  ASSUME SlotsTypeOK, NEW i \in Interview, NEW s \in DOMAIN InterviewFlow, NEW actor,
         StateChanged(i, s, actor)
  PROVE  /\ interview' \in [Interview -> InterviewRow \cup {NoInterview}]
         /\ interview'[i].status = s
         /\ interview'[i].at = interview[i].at
         /\ interview'[i].count = interview[i].count
         /\ \A j \in Interview \ {i} : interview'[j] = interview[j]
<1> DEFINE calendar == IF s = "confirmed" THEN "confirmed"
                       ELSE IF s \in {"cancelled", "reschedule_requested"}
                       THEN "cancelled" ELSE interview[i].calendar
           row == [interview[i] EXCEPT !.status = s, !.calendar = calendar]
<1>1. interview[i] \in InterviewRow
  BY RowThere DEF StateChanged
<1>2. row \in InterviewRow
  BY <1>1 DEF InterviewRow
<1>3. interview' = [interview EXCEPT ![i] = row]
  BY <1>1 DEF StateChanged, SlotsTypeOK, InterviewRow
<1>4. row.status = s /\ row.at = interview[i].at /\ row.count = interview[i].count
  BY <1>1 DEF InterviewRow
<1> HIDE DEF row
<1> QED
  BY <1>2, <1>3, <1>4 DEF SlotsTypeOK

-----------------------------------------------------------------------------
(* Types of the calendar.                                                  *)

\* The initial states of the calendar are well typed.
LEMMA SlotsTypeInit == SlotsInit => SlotsTypeOK
BY DEF SlotsInit, SlotsTypeOK, NoPair, NoSchedule, Answer

\* Every step of the calendar keeps its types.
LEMMA SlotsTypeStep == SlotsTypeOK /\ [SlotsNext]_slotVars => SlotsTypeOK'
<1> SUFFICES ASSUME SlotsTypeOK, [SlotsNext]_slotVars PROVE SlotsTypeOK'
  OBVIOUS
<1>1. ASSUME NEW s \in Start, Schedule(s) PROVE SlotsTypeOK'
  BY <1>1, ScheduledType DEF Schedule, SlotsTypeOK
<1>2. ASSUME NEW i \in Interview, NEW s \in Start, Reschedule(i, s) PROVE SlotsTypeOK'
  <2>1. interview[i].count + 1 \in 0..MaxReschedules
    BY <1>2, RowThere, SlotsAssumption DEF Reschedule
  <2>2. interview[i] \in InterviewRow
    BY <1>2, RowThere DEF Reschedule
  <2>3. [status |-> "scheduled", at |-> s, calendar |-> "tentative",
         count |-> interview[i].count + 1] \in InterviewRow
    BY <2>1, InterviewStates DEF InterviewRow, InterviewStatus
  <2> QED
    BY <1>2, <2>3 DEF Reschedule, SlotsTypeOK
<1>3. ASSUME NEW i \in Interview, ChangeState(i) PROVE SlotsTypeOK'
  <2>1. PICK s \in DOMAIN InterviewFlow :
          /\ StateChanged(i, s, "user")
          /\ UNCHANGED <<pair, hold, meeting, schedulable, accepted>>
    BY <1>3 DEF ChangeState
  <2>2. confirmedBy' \in [Interview -> {"none", "user", "provider"}]
    BY <2>1 DEF StateChanged, SlotsTypeOK
  <2> QED
    BY <2>1, <2>2, StateChangedRow DEF SlotsTypeOK
<1>4. ASSUME NEW h \in Hold, NEW s \in Start, HoldSlot(h, s) PROVE SlotsTypeOK'
  BY <1>4 DEF HoldSlot, SlotsTypeOK, HoldRow
<1>5. ASSUME NEW h \in Hold, ReleaseHold(h) \/ HoldExpires(h) PROVE SlotsTypeOK'
  <2>1. hold[h] \in HoldRow
    BY <1>5 DEF ReleaseHold, HoldExpires, SlotsTypeOK, NoHold
  <2> QED
    BY SMTT(30), <1>5, <2>1 DEF ReleaseHold, HoldExpires, SlotsTypeOK, HoldRow
<1>6. ASSUME NEW h \in Hold, BookHold(h) PROVE SlotsTypeOK'
  <2>1. hold[h] \in HoldRow
    BY <1>6 DEF BookHold, SlotsTypeOK, NoHold
  <2>2. interview' \in [Interview -> InterviewRow \cup {NoInterview}]
    BY <1>6, <2>1, ScheduledType DEF BookHold, HoldRow
  <2> QED
    BY <1>6, <2>1, <2>2 DEF BookHold, SlotsTypeOK, HoldRow
<1>7. ASSUME NEW s \in Start, BookMeeting(s) PROVE SlotsTypeOK'
  BY <1>7 DEF BookMeeting, SlotsTypeOK
<1>8. ASSUME CancelMeeting \/ CandidateLeaves PROVE SlotsTypeOK'
  BY <1>8 DEF CancelMeeting, CandidateLeaves, SlotsTypeOK
<1>9. ASSUME NEW i \in Interview, CreateConfirmations(i) \/ RevokeConfirmations(i)
      PROVE  SlotsTypeOK'
  <2>1. CASE CreateConfirmations(i)
    <3>1. interview[i].count \in Int
      BY <2>1, RowThere DEF CreateConfirmations, Exists, NoInterview
    <3> QED
      BY <2>1, <3>1 DEF CreateConfirmations, SlotsTypeOK, Answer
  <2>2. CASE RevokeConfirmations(i)
    BY <2>2 DEF RevokeConfirmations, SlotsTypeOK, NoPair, NoSchedule, Answer
  <2> QED
    BY <1>9, <2>1, <2>2
<1>10. ASSUME NEW i \in Interview, NEW p \in Participant, Confirm(i, p)
       PROVE  SlotsTypeOK'
  <2>1. Exists(i) /\ interview[i].count \in Int
    BY <1>10, RowThere DEF Confirm, MayAnswer, Exists, NoInterview
  <2>2. interview' \in [Interview -> InterviewRow \cup {NoInterview}]
    BY <1>10, StateChangedRow, InterviewStates DEF Confirm, SlotsTypeOK, InterviewStatus
  <2>3. confirmedBy' \in [Interview -> {"none", "user", "provider"}]
    BY <1>10 DEF Confirm, StateChanged, SlotsTypeOK
  <2>4. pair' \in [Interview -> [print : Int, answer : [Participant -> Answer]]]
    BY <1>10 DEF Confirm, SlotsTypeOK, Answer, Decision
  <2>5. accepted' \in [Interview -> [Participant -> Int]]
    BY <1>10, <2>1 DEF Confirm, SlotsTypeOK
  <2> QED
    BY <1>10, <2>2, <2>3, <2>4, <2>5 DEF Confirm, SlotsTypeOK
<1>11. ASSUME NEW i \in Interview, NEW p \in Participant, Decline(i, p)
       PROVE  SlotsTypeOK'
  <2>1. interview' \in [Interview -> InterviewRow \cup {NoInterview}]
    BY <1>11, StateChangedRow, InterviewStates DEF Decline, InterviewStatus
  <2>2. confirmedBy' \in [Interview -> {"none", "user", "provider"}]
    BY <1>11 DEF Decline, StateChanged, SlotsTypeOK
  <2>3. pair' \in [Interview -> [print : Int, answer : [Participant -> Answer]]]
    BY SMTT(30), <1>11 DEF Decline, SlotsTypeOK, Answer, Decision
  <2> QED
    BY <1>11, <2>1, <2>2, <2>3 DEF Decline, SlotsTypeOK
<1>12. CASE UNCHANGED slotVars
  BY <1>12 DEF slotVars, SlotsTypeOK
<1> QED
  BY <1>1, <1>2, <1>3, <1>4, <1>5, <1>6, <1>7, <1>8, <1>9, <1>10, <1>11, <1>12
  DEF SlotsNext, CalendarStep

\* Every row, link and meeting of the calendar has its type
\* (interviewScheduling.ts, interviewConfirmations.ts, interviewSlotHolds.ts).
THEOREM SlotsTypeCorrect == SlotsSpec => []SlotsTypeOK
<1> QED
  BY SlotsTypeInit, SlotsTypeStep, PTL DEF SlotsSpec

-----------------------------------------------------------------------------
(* No double booking.  A clash concerns both sides alike, and a greater    *)
(* distance keeps the smaller one.                                         *)

\* Two hours clash in either order, and a wider margin only adds clashes.
LEMMA ClashFacts ==
  ASSUME NEW a \in Int, NEW b \in Int, NEW pad \in Nat, NEW more \in Nat, pad <= more
  PROVE  /\ Clash(a, b, pad) <=> Clash(b, a, pad)
         /\ ~Clash(a, b, more) => ~Clash(a, b, pad)
BY SlotsAssumption DEF Clash

\* NoDoubleBooking pair by pair.
InterviewsApart ==
  \A i, j \in Interview :
    i # j /\ Live(interview[i]) /\ Live(interview[j])
    => ~Clash(interview[j].at, interview[i].at, 0)
OffHolds ==
  \A i \in Interview, h \in Hold :
    Live(interview[i]) /\ hold[h].status = "active" => ~Clash(hold[h].at, interview[i].at, 0)
OffMeetings ==
  \A i \in Interview, m \in meeting :
    Live(interview[i]) => ~Clash(m, interview[i].at, Buffer)
HoldsApart ==
  \A h, k \in Hold :
    h # k /\ hold[h].status = "active" /\ hold[k].status = "active"
    => ~Clash(hold[k].at, hold[h].at, 0)
HoldsOffMeetings ==
  \A h \in Hold, m \in meeting :
    hold[h].status = "active" => ~Clash(m, hold[h].at, Buffer)
MeetingsApart == \A m, n \in meeting : m = n \/ ~Clash(m, n, Buffer)
CalendarApart ==
  /\ InterviewsApart /\ OffHolds /\ OffMeetings
  /\ HoldsApart /\ HoldsOffMeetings /\ MeetingsApart

\* The inductive form of no double booking says the same as the property.
LEMMA ApartMeans == CalendarApart <=> NoDoubleBooking
<1>1. CalendarApart => NoDoubleBooking
  BY DEF CalendarApart, InterviewsApart, OffHolds, OffMeetings, HoldsApart,
         HoldsOffMeetings, MeetingsApart, NoDoubleBooking, overlaps, UnmetSlot,
         holdConflicts
<1>2. ASSUME NoDoubleBooking PROVE CalendarApart
  <2>1. InterviewsApart
    BY <1>2 DEF NoDoubleBooking, InterviewsApart, overlaps
  <2>2. OffHolds /\ OffMeetings
    BY <1>2 DEF NoDoubleBooking, OffHolds, OffMeetings, UnmetSlot, holdConflicts
  <2>3. HoldsApart /\ HoldsOffMeetings
    BY <1>2 DEF NoDoubleBooking, HoldsApart, HoldsOffMeetings, UnmetSlot, holdConflicts
  <2> QED
    BY <1>2, <2>1, <2>2, <2>3 DEF NoDoubleBooking, CalendarApart, MeetingsApart
<1> QED
  BY <1>1, <1>2

\* A time that the guards of the operations find free, for the interview self and
\* whoever owns the holds in own.
FreeSlot(s, self, own) ==
  /\ \A j \in Interview \ self : Live(interview[j]) => ~Clash(interview[j].at, s, 0)
  /\ \A h \in Hold \ own : hold[h].status = "active" => ~Clash(hold[h].at, s, 0)
  /\ \A m \in meeting : ~Clash(m, s, Buffer)

\* A slot nobody holds and no interview overlaps is free.
LEMMA FreeMeans ==
  ASSUME NEW s, NEW self, NEW own, UnheldSlot(s, own), overlaps(s, self) = {}
  PROVE  FreeSlot(s, self, own)
BY DEF FreeSlot, UnheldSlot, overlaps, holdConflicts

\* An interview may come to any time that is free; the holds of others stay where
\* they are, and what is active was active.
LEMMA InterviewTakesSlot ==
  ASSUME SlotsTypeOK, CalendarApart, NEW i \in Interview, NEW own,
         NEW s \in Start, interview'[i].at = s,
         Live(interview'[i]) => FreeSlot(s, {i}, own),
         \A j \in Interview \ {i} : interview'[j] = interview[j],
         \A h \in Hold : hold'[h].status = "active" =>
           h \notin own /\ hold'[h] = hold[h],
         UNCHANGED meeting
  PROVE  CalendarApart'
<1>1. s \in Int /\ 0 \in Nat
  BY SlotsAssumption
<1>2. ASSUME NEW j \in Interview \ {i}, Live(interview[j])
      PROVE  interview[j].at \in Int
  BY <1>2, RowThere, LiveRow
<1>3. InterviewsApart'
  <2> SUFFICES ASSUME NEW j \in Interview, NEW k \in Interview, j # k,
                      Live(interview'[j]), Live(interview'[k])
               PROVE  ~Clash(interview'[k].at, interview'[j].at, 0)
    BY DEF InterviewsApart, Live
  <2>1. CASE j = i
    BY <2>1, <1>2 DEF FreeSlot
  <2>2. CASE k = i
    <3>1. ~Clash(interview[j].at, s, 0)
      BY <2>2 DEF FreeSlot
    <3> QED
      BY <3>1, <2>2, <1>1, <1>2, ClashFacts
  <2>3. CASE j # i /\ k # i
    BY <2>3 DEF CalendarApart, InterviewsApart
  <2> QED
    BY <2>1, <2>2, <2>3
<1>4. OffHolds'
  <2> SUFFICES ASSUME NEW j \in Interview, NEW h \in Hold,
                      Live(interview'[j]), hold'[h].status = "active"
               PROVE  ~Clash(hold'[h].at, interview'[j].at, 0)
    BY DEF OffHolds, Live
  <2>1. CASE j = i
    BY <2>1 DEF FreeSlot
  <2>2. CASE j # i
    BY <2>2 DEF CalendarApart, OffHolds
  <2> QED
    BY <2>1, <2>2
<1>5. OffMeetings'
  <2> SUFFICES ASSUME NEW j \in Interview, NEW m \in meeting, Live(interview'[j])
               PROVE  ~Clash(m, interview'[j].at, Buffer)
    BY DEF OffMeetings, Live
  <2>1. CASE j = i
    BY <2>1 DEF FreeSlot
  <2>2. CASE j # i
    BY <2>2 DEF CalendarApart, OffMeetings
  <2> QED
    BY <2>1, <2>2
<1>6. HoldsApart' /\ HoldsOffMeetings' /\ MeetingsApart'
  BY DEF CalendarApart, HoldsApart, HoldsOffMeetings, MeetingsApart
<1> QED
  BY <1>3, <1>4, <1>5, <1>6 DEF CalendarApart

\* Where the interviews are as they were, and no hold becomes active, nothing new
\* can clash.
LEMMA NothingTaken ==
  ASSUME CalendarApart, UNCHANGED <<interview, meeting>>,
         \A h \in Hold : hold'[h].status = "active" => hold'[h] = hold[h]
  PROVE  CalendarApart'
<1>1. InterviewsApart' /\ OffMeetings' /\ MeetingsApart'
  BY DEF CalendarApart, InterviewsApart, OffMeetings, MeetingsApart
<1>2. OffHolds' /\ HoldsApart' /\ HoldsOffMeetings'
  BY DEF CalendarApart, OffHolds, HoldsApart, HoldsOffMeetings
<1> QED
  BY <1>1, <1>2 DEF CalendarApart

\* A time that is free when it is written clashes with nothing, whichever holds it consumes.
LEMMA ScheduledApart ==
  ASSUME SlotsTypeOK, CalendarApart, NEW s \in Start, NEW own, Scheduled(s, own),
         \A h \in Hold : hold'[h].status = "active" =>
           h \notin own /\ hold'[h] = hold[h],
         UNCHANGED meeting
  PROVE  CalendarApart'
<1>1. CASE UNCHANGED interview
  BY <1>1, NothingTaken
<1>2. CASE /\ overlaps(s, {}) = {}
           /\ \E i \in Interview : interview' = [interview EXCEPT ![i] =
                [status |-> "scheduled", at |-> s, calendar |-> "tentative",
                 count |-> 0]]
  <2>1. PICK i \in Interview : interview' = [interview EXCEPT ![i] =
               [status |-> "scheduled", at |-> s, calendar |-> "tentative", count |-> 0]]
    BY <1>2
  <2>2. FreeSlot(s, {}, own)
    BY <1>2, FreeMeans DEF Scheduled
  <2>3. FreeSlot(s, {i}, own)
    BY <2>2 DEF FreeSlot
  <2>4. /\ interview'[i].at = s
        /\ \A j \in Interview \ {i} : interview'[j] = interview[j]
    BY <2>1 DEF SlotsTypeOK
  <2> QED
    BY <2>3, <2>4, InterviewTakesSlot
<1> QED
  BY <1>1, <1>2 DEF Scheduled

\* A change of an interview's status never puts it where another one is.
LEMMA StateChangedApart ==
  ASSUME SlotsTypeOK, CalendarApart, NEW i \in Interview,
         NEW s \in DOMAIN InterviewFlow, NEW actor, StateChanged(i, s, actor),
         UNCHANGED <<hold, meeting>>
  PROVE  CalendarApart'
<1>1. interview[i].at \in Start
  BY RowThere DEF StateChanged
<1>2. Live(interview'[i]) => FreeSlot(interview[i].at, {i}, {})
  BY FreeMeans, StateChangedRow DEF StateChanged, Live
<1> QED
  BY SMTT(30), <1>1, <1>2, StateChangedRow, InterviewTakesSlot

\* Nothing is booked in the initial states.
LEMMA ApartInit == SlotsInit => CalendarApart
BY DEF SlotsInit, CalendarApart, InterviewsApart, OffHolds, OffMeetings, HoldsApart,
       HoldsOffMeetings, MeetingsApart, Live, NoInterview, NoHold, reservedStates

\* Every step of the calendar keeps bookings and holds apart.
LEMMA ApartStep ==
  SlotsTypeOK /\ CalendarApart /\ [SlotsNext]_slotVars => CalendarApart'
<1> SUFFICES ASSUME SlotsTypeOK, CalendarApart, [SlotsNext]_slotVars
             PROVE  CalendarApart'
  OBVIOUS
<1>1. ASSUME NEW s \in Start, Schedule(s) PROVE CalendarApart'
  BY <1>1, ScheduledApart DEF Schedule
<1>2. ASSUME NEW i \in Interview, NEW s \in Start, Reschedule(i, s)
      PROVE  CalendarApart'
  <2>1. FreeSlot(s, {i}, {})
    BY <1>2, FreeMeans DEF Reschedule
  <2>2. /\ interview'[i].at = s
        /\ \A j \in Interview \ {i} : interview'[j] = interview[j]
    BY <1>2 DEF Reschedule, SlotsTypeOK
  <2> QED
    BY <1>2, <2>1, <2>2, InterviewTakesSlot DEF Reschedule
<1>3. ASSUME NEW i \in Interview, ChangeState(i) PROVE CalendarApart'
  BY <1>3, StateChangedApart DEF ChangeState
<1>4. ASSUME NEW i \in Interview, NEW p \in Participant, Confirm(i, p)
      PROVE  CalendarApart'
  <2>1. CASE StateChanged(i, "confirmed", "provider")
    BY <1>4, <2>1, StateChangedApart, InterviewStates DEF Confirm, InterviewStatus
  <2>2. CASE UNCHANGED interview
    BY <1>4, <2>2, NothingTaken DEF Confirm
  <2> QED
    BY <1>4, <2>1, <2>2 DEF Confirm
<1>5. ASSUME NEW i \in Interview, NEW p \in Participant, Decline(i, p)
      PROVE  CalendarApart'
  BY <1>5, StateChangedApart, InterviewStates DEF Decline, InterviewStatus
<1>6. ASSUME NEW h \in Hold, BookHold(h) PROVE CalendarApart'
  <2>1. hold[h].at \in Start
    BY <1>6, ActiveHold DEF BookHold
  <2>2. \A k \in Hold : hold'[k].status = "active" =>
          k \notin {h} /\ hold'[k] = hold[k]
    BY <1>6 DEF BookHold, SlotsTypeOK, NoHold, HoldRow
  <2> QED
    BY <1>6, <2>1, <2>2, ScheduledApart DEF BookHold
<1>7. ASSUME NEW h \in Hold, NEW s \in Start, HoldSlot(h, s) PROVE CalendarApart'
  <2>1. FreeSlot(s, {}, {})
    BY <1>7, FreeMeans DEF HoldSlot
  <2>2. hold'[h].at = s /\ \A k \in Hold \ {h} : hold'[k] = hold[k]
    BY <1>7 DEF HoldSlot, SlotsTypeOK
  <2>3. \A k \in Hold \ {h} : hold[k].status = "active" => hold[k].at \in Int
    BY ActiveHold
  <2>4. UNCHANGED <<interview, meeting>>
    BY <1>7 DEF HoldSlot
  <2>5. OffHolds'
    <3> SUFFICES ASSUME NEW i \in Interview, NEW k \in Hold, Live(interview[i]),
                        hold'[k].status = "active"
                 PROVE  ~Clash(hold'[k].at, interview[i].at, 0)
      BY <2>4 DEF OffHolds
    <3>1. CASE k = h
      <4>1. interview[i].at \in Int /\ s \in Int /\ 0 \in Nat
        BY RowThere, LiveRow, SlotsAssumption
      <4> QED
        BY <3>1, <4>1, <2>1, <2>2, ClashFacts DEF FreeSlot
    <3>2. CASE k # h
      BY <3>2, <2>2 DEF CalendarApart, OffHolds
    <3> QED
      BY <3>1, <3>2
  <2>6. HoldsApart'
    <3> SUFFICES ASSUME NEW k \in Hold, NEW l \in Hold, k # l,
                        hold'[k].status = "active", hold'[l].status = "active"
                 PROVE  ~Clash(hold'[l].at, hold'[k].at, 0)
      BY DEF HoldsApart
    <3>1. s \in Int /\ 0 \in Nat
      BY SlotsAssumption
    <3>2. CASE k = h
      BY <3>2, <2>1, <2>2 DEF FreeSlot
    <3>3. CASE l = h
      <4>1. ~Clash(hold[k].at, s, 0)
        BY <3>3, <2>1, <2>2 DEF FreeSlot
      <4> QED
        BY <4>1, <3>1, <3>3, <2>2, <2>3, ClashFacts
    <3>4. CASE k # h /\ l # h
      BY <3>4, <2>2 DEF CalendarApart, HoldsApart
    <3> QED
      BY <3>2, <3>3, <3>4
  <2>7. HoldsOffMeetings'
    BY <2>1, <2>2, <2>4 DEF CalendarApart, HoldsOffMeetings, FreeSlot
  <2>8. InterviewsApart' /\ OffMeetings' /\ MeetingsApart'
    BY <2>4 DEF CalendarApart, InterviewsApart, OffMeetings, MeetingsApart
  <2> QED
    BY <2>5, <2>6, <2>7, <2>8 DEF CalendarApart
<1>8. ASSUME NEW h \in Hold, ReleaseHold(h) \/ HoldExpires(h) PROVE CalendarApart'
  <2>1. \A k \in Hold : hold'[k].status = "active" => hold'[k] = hold[k]
    BY <1>8 DEF ReleaseHold, HoldExpires, SlotsTypeOK, HoldRow, NoHold
  <2> QED
    BY <1>8, <2>1, NothingTaken DEF ReleaseHold, HoldExpires
<1>9. ASSUME NEW s \in Start, BookMeeting(s) PROVE CalendarApart'
  <2>1. UNCHANGED <<interview, hold>> /\ meeting' = meeting \cup {s}
    BY <1>9 DEF BookMeeting
  <2>2. /\ s \in Int /\ Buffer \in Nat /\ 2 * Buffer \in Nat /\ Buffer <= 2 * Buffer
        /\ meeting \subseteq Int
    BY SlotsAssumption DEF SlotsTypeOK
  <2>3. OffMeetings'
    <3> SUFFICES ASSUME NEW i \in Interview, Live(interview[i])
                 PROVE  ~Clash(s, interview[i].at, Buffer)
      BY <2>1 DEF CalendarApart, OffMeetings
    <3>1. interview[i].at \in Int
      BY RowThere, LiveRow
    <3> QED
      BY <1>9, <3>1, <2>2, ClashFacts DEF BookMeeting
  <2>4. HoldsOffMeetings'
    <3> SUFFICES ASSUME NEW h \in Hold, hold[h].status = "active"
                 PROVE  ~Clash(s, hold[h].at, Buffer)
      BY <2>1 DEF CalendarApart, HoldsOffMeetings
    <3>1. hold[h].at \in Int
      BY ActiveHold
    <3>2. ~Clash(hold[h].at, s, Buffer)
      BY <1>9 DEF BookMeeting, holdConflicts
    <3> QED
      BY <3>1, <3>2, <2>2, ClashFacts
  <2>5. MeetingsApart'
    <3>1. ASSUME NEW m \in meeting PROVE ~Clash(m, s, Buffer) /\ ~Clash(s, m, Buffer)
      BY <1>9, <2>2, ClashFacts DEF BookMeeting
    <3> QED
      BY <3>1, <2>1 DEF CalendarApart, MeetingsApart
  <2>6. InterviewsApart' /\ OffHolds' /\ HoldsApart'
    BY <2>1 DEF CalendarApart, InterviewsApart, OffHolds, HoldsApart
  <2> QED
    BY <2>3, <2>4, <2>5, <2>6 DEF CalendarApart
<1>10. ASSUME CancelMeeting PROVE CalendarApart'
  <2>1. UNCHANGED <<interview, hold>> /\ meeting' \subseteq meeting
    BY <1>10 DEF CancelMeeting
  <2> QED
    BY <2>1 DEF CalendarApart, InterviewsApart, OffHolds, OffMeetings, HoldsApart,
                HoldsOffMeetings, MeetingsApart
<1>11. CASE CandidateLeaves \/ UNCHANGED slotVars
  BY <1>11, NothingTaken DEF CandidateLeaves, slotVars
<1>12. ASSUME NEW i \in Interview, CreateConfirmations(i) \/ RevokeConfirmations(i)
       PROVE  CalendarApart'
  BY <1>12, NothingTaken DEF CreateConfirmations, RevokeConfirmations
<1> QED
  BY <1>1, <1>2, <1>3, <1>4, <1>5, <1>6, <1>7, <1>8, <1>9, <1>10, <1>11, <1>12
  DEF SlotsNext, CalendarStep

\* Nobody is booked twice, whatever is scheduled, held, met, confirmed, declined and
\* moved in whatever order (interviewScheduling.ts:30, recordedCalendarBusy.ts:13).
THEOREM NobodyIsBookedTwice == SlotsSpec => []NoDoubleBooking
<1>1. SlotsInit => SlotsTypeOK /\ CalendarApart
  BY SlotsTypeInit, ApartInit
<1>2. SlotsTypeOK /\ CalendarApart /\ [SlotsNext]_slotVars
      => (SlotsTypeOK /\ CalendarApart)'
  BY SlotsTypeStep, ApartStep
<1>3. SlotsTypeOK /\ CalendarApart => NoDoubleBooking
  BY ApartMeans
<1> QED
  BY <1>1, <1>2, <1>3, PTL DEF SlotsSpec

-----------------------------------------------------------------------------
(* Confirmation.  What a participant's answer to the newest pair accepted  *)
(* is the schedule that this pair speaks of.                               *)

AnswersBind ==
  \A i \in Interview, p \in Participant :
    pair[i].answer[p] = "confirmed" => accepted[i][p] = pair[i].print
AgreementInv == SlotsTypeOK /\ AnswersBind /\ ConfirmedMeansAgreed

\* Every step keeps that who confirmed accepted the schedule the links speak of.
LEMMA AnswersBindStep ==
  SlotsTypeOK /\ AnswersBind /\ [SlotsNext]_slotVars => AnswersBind'
<1> SUFFICES ASSUME SlotsTypeOK, AnswersBind, [SlotsNext]_slotVars PROVE AnswersBind'
  OBVIOUS
<1>1. CASE UNCHANGED <<pair, accepted>>
  BY <1>1 DEF AnswersBind
<1>2. ASSUME NEW i \in Interview, CreateConfirmations(i) \/ RevokeConfirmations(i)
      PROVE  AnswersBind'
  <2>1. \A p \in Participant : pair'[i].answer[p] # "confirmed"
    BY <1>2 DEF CreateConfirmations, RevokeConfirmations, SlotsTypeOK, NoPair
  <2>2. /\ \A j \in Interview \ {i} : pair'[j] = pair[j]
        /\ UNCHANGED accepted
    BY <1>2 DEF CreateConfirmations, RevokeConfirmations, SlotsTypeOK
  <2> QED
    BY <2>1, <2>2 DEF AnswersBind
<1>3. ASSUME NEW i \in Interview, NEW p \in Participant, Confirm(i, p)
      PROVE  AnswersBind'
  <2>1. pair[i].print = interview[i].count
    BY <1>3 DEF Confirm, MayAnswer, Current
  <2>2. /\ pair'[i].print = pair[i].print
        /\ \A j \in Interview \ {i} : pair'[j] = pair[j] /\ accepted'[j] = accepted[j]
        /\ \A q \in Participant \ {p} : /\ pair'[i].answer[q] = pair[i].answer[q]
                                        /\ accepted'[i][q] = accepted[i][q]
        /\ accepted'[i][p] = interview[i].count
    BY <1>3 DEF Confirm, SlotsTypeOK
  <2> QED
    BY <2>1, <2>2 DEF AnswersBind
<1>4. ASSUME NEW i \in Interview, NEW p \in Participant, Decline(i, p)
      PROVE  AnswersBind'
  <2>1. /\ pair'[i].print = pair[i].print
        /\ \A j \in Interview \ {i} : pair'[j] = pair[j]
        /\ \A q \in Participant :
             pair'[i].answer[q] = "confirmed" => pair[i].answer[q] = "confirmed"
        /\ UNCHANGED accepted
    BY <1>4 DEF Decline, SlotsTypeOK
  <2> QED
    BY <2>1 DEF AnswersBind
<1>5. CASE CalendarStep
  BY <1>1, <1>2, <1>3, <1>5
  DEF CalendarStep, Schedule, BookMeeting, ChangeState, Reschedule, ReleaseHold,
      HoldExpires, BookHold, HoldSlot, CancelMeeting, CandidateLeaves
<1> QED
  BY <1>1, <1>4, <1>5 DEF SlotsNext, slotVars

\* Who confirmed stays who confirmed, until a state is reached that is no agreement.
LEMMA StateChangedAgrees ==
  ASSUME SlotsTypeOK, ConfirmedMeansAgreed, NEW i \in Interview,
         NEW s \in DOMAIN InterviewFlow, NEW actor, StateChanged(i, s, actor),
         \A j \in Interview \ {i} : accepted'[j] = accepted[j],
         s # "confirmed" => accepted' = accepted,
         s = "confirmed" /\ actor = "provider" =>
           \A p \in Participant : accepted'[i][p] = interview[i].count
  PROVE  ConfirmedMeansAgreed'
<1> SUFFICES ASSUME NEW j \in Interview, interview'[j].status \in Agreed,
                    confirmedBy'[j] = "provider"
             PROVE  \A p \in Participant : accepted'[j][p] = interview'[j].count
  BY DEF ConfirmedMeansAgreed, Agreed
<1>1. /\ interview'[i].status = s /\ interview'[i].count = interview[i].count
      /\ \A k \in Interview \ {i} : interview'[k] = interview[k]
  BY StateChangedRow
<1>2. \A k \in Interview \ {i} : confirmedBy'[k] = confirmedBy[k]
  BY DEF StateChanged, SlotsTypeOK
<1>3. CASE j # i
  BY <1>1, <1>2, <1>3 DEF ConfirmedMeansAgreed, Agreed
<1>4. CASE j = i /\ s = "confirmed"
  BY <1>1, <1>4 DEF StateChanged, SlotsTypeOK
<1>5. CASE j = i /\ s # "confirmed"
  <2>1. confirmedBy' = confirmedBy /\ accepted' = accepted
    BY <1>5 DEF StateChanged
  <2>2. interview[i].status \in InterviewStatus
    BY RowThere DEF StateChanged
  <2>3. interview[i].status \in Agreed
    BY <1>1, <1>5, <2>2, AgreedFollows DEF StateChanged
  <2> QED
    BY <1>1, <1>5, <2>1, <2>3 DEF ConfirmedMeansAgreed, Agreed
<1> QED
  BY <1>3, <1>4, <1>5

\* Every step keeps that confirmed interviews are agreed on by both sides.
LEMMA AgreementStep == AgreementInv /\ [SlotsNext]_slotVars => AgreementInv'
<1> SUFFICES ASSUME SlotsTypeOK, AnswersBind, ConfirmedMeansAgreed, [SlotsNext]_slotVars
             PROVE  ConfirmedMeansAgreed'
  BY SlotsTypeStep, AnswersBindStep DEF AgreementInv
<1>1. CASE UNCHANGED <<interview, confirmedBy, accepted>>
  BY <1>1 DEF ConfirmedMeansAgreed
<1>2. ASSUME NEW s \in Start, NEW own, Scheduled(s, own),
             UNCHANGED <<confirmedBy, accepted>>
      PROVE  ConfirmedMeansAgreed'
  <2>1. CASE \E i \in Interview :
               interview' = [interview EXCEPT ![i] =
                 [status |-> "scheduled", at |-> s, calendar |-> "tentative",
                  count |-> 0]]
    BY <1>2, <2>1 DEF ConfirmedMeansAgreed, SlotsTypeOK
  <2> QED
    BY <1>1, <1>2, <2>1 DEF Scheduled
<1>3. ASSUME NEW i \in Interview, NEW s \in Start, Reschedule(i, s)
      PROVE  ConfirmedMeansAgreed'
  BY <1>3 DEF Reschedule, ConfirmedMeansAgreed, SlotsTypeOK
<1>4. ASSUME NEW i \in Interview, ChangeState(i) PROVE ConfirmedMeansAgreed'
  BY <1>4, StateChangedAgrees DEF ChangeState
<1>5. ASSUME NEW i \in Interview, NEW p \in Participant, Confirm(i, p)
      PROVE  ConfirmedMeansAgreed'
  <2>1. pair[i].print = interview[i].count /\ interview[i].status = "scheduled"
    BY <1>5 DEF Confirm, MayAnswer, Current
  <2>2. /\ \A j \in Interview \ {i} : accepted'[j] = accepted[j]
        /\ accepted'[i][p] = interview[i].count
        /\ \A q \in Participant \ {p} : accepted'[i][q] = accepted[i][q]
    BY <1>5 DEF Confirm, SlotsTypeOK
  <2>3. CASE \A q \in Participant : q = p \/ pair[i].answer[q] = "confirmed"
    <3>1. \A q \in Participant : accepted'[i][q] = interview[i].count
      BY <2>1, <2>2, <2>3 DEF AnswersBind
    <3> QED
      BY <1>5, <2>2, <2>3, <3>1, StateChangedAgrees, InterviewStates
      DEF Confirm, InterviewStatus
  <2>4. CASE UNCHANGED <<interview, confirmedBy>>
    BY <2>1, <2>2, <2>4 DEF ConfirmedMeansAgreed
  <2> QED
    BY <1>5, <2>3, <2>4 DEF Confirm
<1>6. ASSUME NEW i \in Interview, NEW p \in Participant, Decline(i, p)
      PROVE  ConfirmedMeansAgreed'
  BY <1>6, StateChangedAgrees, InterviewStates DEF Decline, InterviewStatus
<1>7. ASSUME NEW h \in Hold, BookHold(h) PROVE ConfirmedMeansAgreed'
  <2>1. hold[h].at \in Start
    BY <1>7, ActiveHold DEF BookHold
  <2> QED
    BY <1>2, <1>7, <2>1 DEF BookHold
<1>8. ASSUME NEW s \in Start, Schedule(s) PROVE ConfirmedMeansAgreed'
  BY <1>2, <1>8 DEF Schedule
<1>9. CASE CalendarStep
  BY <1>1, <1>3, <1>4, <1>5, <1>7, <1>8, <1>9
  DEF CalendarStep, BookMeeting, CreateConfirmations, RevokeConfirmations, ReleaseHold,
      HoldExpires, HoldSlot, CancelMeeting, CandidateLeaves
<1> QED
  BY <1>1, <1>6, <1>9 DEF SlotsNext, slotVars

\* An interview that its participants confirmed is one that both accepted as it is
\* scheduled now (interviewConfirmations.ts:16, :55).
THEOREM ConfirmationIsAgreement == SlotsSpec => []ConfirmedMeansAgreed
<1>1. SlotsInit => AgreementInv
  <2>1. SlotsInit => AnswersBind /\ ConfirmedMeansAgreed
    BY DEF SlotsInit, AnswersBind, ConfirmedMeansAgreed, NoPair, NoInterview
  <2> QED
    BY <2>1, SlotsTypeInit DEF AgreementInv
<1>2. AgreementInv => ConfirmedMeansAgreed
  BY DEF AgreementInv
<1> QED
  BY <1>1, <1>2, AgreementStep, PTL DEF SlotsSpec

-----------------------------------------------------------------------------
(* The recovery runs on the calendar: each of its steps is one step of     *)
(* InterviewSlots or leaves the calendar alone.                            *)

\* What a booking in flight and a group are, once they are there.
LEMMA BookingThere ==
  ASSUME RecoveryTypeOK, NEW b \in Booker, booking[b] # NoBooking
  PROVE  /\ booking[b] \in BookingRow /\ booking[b].step = "proposed"
         /\ booking[b].group \in Group /\ booking[b].at \in Start
BY DEF RecoveryTypeOK, BookingRow

\* An availability group that exists is well typed, and so is the interview it is bound to.
LEMMA GroupThere ==
  ASSUME RecoveryTypeOK, NEW g \in Group, group[g] # NoGroup
  PROVE  /\ group[g] \in GroupRow
         /\ group[g].target # Unbound => group[g].target \in Interview
BY DEF RecoveryTypeOK, GroupRow

\* A freshly invited group is well typed.
LEMMA InvitedType ==
  \A target \in Interview \cup {Unbound}, print \in Int :
    /\ Invited(target, print, TRUE) \in GroupRow
    /\ Invited(target, print, FALSE) \in GroupRow
<1> DEFINE Rows ==
      [status : {"none"}, windows : [Participant -> SUBSET Start],
       revision : [Participant -> 0..MaxSubmissions], expired : {FALSE},
       target : {Unbound}, print : Int, declined : {FALSE}, replaced : {FALSE}, at : {0}]
<1>1. NoGroup \in Rows
  BY RecoveryAssumption DEF NoGroup, NoSchedule
<1> QED
  BY <1>1 DEF Invited, GroupRow

\* What automatic selection books is a step of the calendar.
LEMMA BookMovesCalendar ==
  ASSUME RecoveryTypeOK, NEW b \in Booker, Book(b)
  PROVE  CalendarStep
<1>1. booking[b] # NoBooking
  BY DEF Book, NoBooking
<1>2. booking[b].group \in Group /\ booking[b].at \in Start
  BY <1>1, BookingThere
<1>3. group[booking[b].group] # NoGroup
  BY DEF Book, MayBook, NoGroup
<1>4. CASE group[booking[b].group].target = Unbound
  BY <1>2, <1>4 DEF Book, CalendarStep
<1>5. CASE group[booking[b].group].target # Unbound
  BY <1>2, <1>3, <1>5, GroupThere DEF Book, CalendarStep
<1> QED
  BY <1>4, <1>5

\* Every step of the recovery is a step of the calendar or leaves it as it is.
LEMMA RecoveryMovesCalendar ==
  ASSUME RecoveryTypeOK, [RecoveryNext]_interviewVars
  PROVE  [SlotsNext]_slotVars
<1>1. CASE CalendarStep
  BY <1>1 DEF SlotsNext
<1>2. ASSUME NEW b \in Booker, Book(b) PROVE SlotsNext
  BY <1>2, BookMovesCalendar DEF SlotsNext
<1>3. ASSUME NEW g \in Group, NEW i \in Interview, NEW p \in Participant,
             DeclineAndRecover(i, p, g)
      PROVE  SlotsNext
  BY <1>3 DEF DeclineAndRecover, SlotsNext
<1>4. ASSUME NEW g \in Group,
             \/ RequestAvailability(g) \/ RevokeAvailability(g) \/ InvitesExpire(g)
             \/ ProcessDeadline(g) \/ NeedsReview(g)
             \/ \E p \in Participant, w \in SUBSET Start \ {{}} : Submit(g, p, w)
             \/ \E f \in Group : Restart(g, f)
             \/ \E e \in BOOLEAN : Configure(g, e)
             \/ \E b \in Booker : Propose(b, g)
      PROVE  UNCHANGED slotVars
  BY <1>4 DEF RequestAvailability, RevokeAvailability, InvitesExpire, ProcessDeadline,
              NeedsReview, Submit, Restart, Configure, Propose
<1>5. ASSUME NEW b \in Booker, Forget(b) PROVE UNCHANGED slotVars
  BY <1>5 DEF Forget
<1>6. CASE Reconnect \/ UNCHANGED interviewVars
  BY <1>6 DEF Reconnect, interviewVars
<1> QED
  BY <1>1, <1>2, <1>3, <1>4, <1>5, <1>6 DEF RecoveryNext

\* The initial states of the recovery are well typed.
LEMMA RecoveryTypeInit == RecoveryInit => RecoveryTypeOK
BY SlotsTypeInit, RecoveryAssumption DEF RecoveryInit, RecoveryTypeOK, NoAutomation

\* Every step of the recovery keeps its types.
LEMMA RecoveryTypeStep ==
  RecoveryTypeOK /\ [RecoveryNext]_interviewVars => RecoveryTypeOK'
<1> SUFFICES ASSUME RecoveryTypeOK, [RecoveryNext]_interviewVars
             PROVE  RecoveryTypeOK'
  OBVIOUS
<1> DEFINE Automations == [enabled : BOOLEAN, revision : 0..MaxRevision,
                           calendar : 0..MaxRevision, reviewed : BOOLEAN]
           Incidents == {"none", "detected", "resolved"}
           BindingsOK == /\ group' \in [Group -> GroupRow \cup {NoGroup}]
                         /\ incident' \in [Group -> Incidents]
           SelectionOK == /\ automation' \in [Group -> Automations]
                          /\ connection' \in 0..MaxRevision
                          /\ booking' \in [Booker -> BookingRow \cup {NoBooking}]
<1>1. SlotsTypeOK'
  BY RecoveryMovesCalendar, SlotsTypeStep DEF RecoveryTypeOK
<1>2. UNCHANGED <<automation, connection, booking>> => SelectionOK
  BY DEF RecoveryTypeOK
<1>3. UNCHANGED <<group, incident>> => BindingsOK
  BY DEF RecoveryTypeOK
<1>4. IncidentsFollow => incident' \in [Group -> Incidents]
  BY DEF IncidentsFollow, RecoveryTypeOK
<1>5. CASE /\ CalendarStep /\ IncidentsFollow
           /\ UNCHANGED <<group, automation, connection, booking>>
  BY <1>1, <1>2, <1>4, <1>5 DEF RecoveryTypeOK
<1>6. ASSUME NEW g \in Group, RequestAvailability(g) PROVE RecoveryTypeOK'
  <2>0. NoSchedule \in Int /\ Unbound \in Interview \cup {Unbound}
    BY DEF NoSchedule
  <2>1. Invited(Unbound, NoSchedule, FALSE) \in GroupRow
    BY <2>0, InvitedType, Zenon
  <2>2. BindingsOK /\ SelectionOK
    BY <1>2, <1>6, <2>1 DEF RequestAvailability, RecoveryTypeOK
  <2> QED
    BY <1>1, <2>2 DEF RecoveryTypeOK
<1>7. ASSUME NEW g \in Group, RevokeAvailability(g) PROVE RecoveryTypeOK'
  <2>1. group[g] \in GroupRow
    BY <1>7, GroupThere DEF RevokeAvailability, NoGroup
  <2>2. BindingsOK /\ SelectionOK
    BY <1>2, <1>7, <2>1 DEF RevokeAvailability, RecoveryTypeOK, GroupRow
  <2> QED
    BY <1>1, <2>2 DEF RecoveryTypeOK
<1>8. ASSUME NEW g \in Group, InvitesExpire(g) PROVE RecoveryTypeOK'
  <2>1. group[g] \in GroupRow
    BY <1>8, GroupThere DEF InvitesExpire, NoGroup
  <2>2. BindingsOK /\ SelectionOK
    BY <1>2, <1>8, <2>1 DEF InvitesExpire, RecoveryTypeOK, GroupRow
  <2> QED
    BY <1>1, <2>2 DEF RecoveryTypeOK
<1>9. ASSUME NEW g \in Group, ProcessDeadline(g) PROVE RecoveryTypeOK'
  <2>1. group[g] \in GroupRow
    BY <1>9, GroupThere DEF ProcessDeadline, NoGroup
  <2>2. BindingsOK /\ SelectionOK
    BY <1>2, <1>9, <2>1 DEF ProcessDeadline, RecoveryTypeOK, GroupRow
  <2> QED
    BY <1>1, <2>2 DEF RecoveryTypeOK
<1>10. ASSUME NEW g \in Group, NeedsReview(g) PROVE RecoveryTypeOK'
  <2>1. BindingsOK /\ SelectionOK
    BY <1>10 DEF NeedsReview, RecoveryTypeOK
  <2> QED
    BY <1>1, <2>1 DEF RecoveryTypeOK
<1>11. ASSUME NEW g \in Group, NEW i \in Interview, NEW p \in Participant,
              DeclineAndRecover(i, p, g)
       PROVE  RecoveryTypeOK'
  <2>1. Exists(i)
    BY <1>11 DEF DeclineAndRecover, Decline, StateChanged, RecoveryTypeOK
  <2>2. Invited(i, interview[i].count, TRUE) \in GroupRow
    <3>1. i \in Interview \cup {Unbound} /\ interview[i].count \in Int
      BY <2>1, RowThere DEF RecoveryTypeOK
    <3> QED
      BY <3>1, InvitedType, Zenon
  <2>3. BindingsOK /\ SelectionOK
    BY <1>2, <1>11, <2>2 DEF DeclineAndRecover, RecoveryTypeOK
  <2> QED
    BY <1>1, <2>3 DEF RecoveryTypeOK
<1>12. ASSUME NEW g \in Group, NEW p \in Participant, NEW w \in SUBSET Start \ {{}},
              Submit(g, p, w)
       PROVE  RecoveryTypeOK'
  <2>1. group[g] \in GroupRow
    BY <1>12, GroupThere DEF Submit, NoGroup
  <2>2. group[g].revision[p] + 1 \in 0..MaxSubmissions
    BY <1>12, <2>1, RecoveryAssumption DEF Submit, BelowLimit, GroupRow
  <2>3. [group[g] EXCEPT !.windows[p] = w, !.revision[p] = @ + 1] \in GroupRow
    BY <2>1, <2>2 DEF GroupRow
  <2>4. group' = [group EXCEPT ![g] =
          [group[g] EXCEPT !.windows[p] = w, !.revision[p] = @ + 1]]
    BY <1>12, <2>1 DEF Submit, RecoveryTypeOK, GroupRow
  <2>5. BindingsOK /\ SelectionOK
    BY <1>2, <1>12, <2>3, <2>4 DEF Submit, RecoveryTypeOK
  <2> QED
    BY <1>1, <2>5 DEF RecoveryTypeOK
<1>13. ASSUME NEW g \in Group, NEW f \in Group, Restart(g, f) PROVE RecoveryTypeOK'
  <2>1. group[g] \in GroupRow /\ group[g].target \in Interview
    BY <1>13, GroupThere DEF Restart, NoGroup, Unbound
  <2>2. Replaced(group[g]) \in GroupRow
    BY <2>1 DEF Replaced, GroupRow
  <2>3. Invited(group[g].target, group[g].print, FALSE) \in GroupRow
    BY <2>1, InvitedType DEF GroupRow
  <2>4. BindingsOK /\ SelectionOK
    BY <1>2, <1>13, <2>2, <2>3 DEF Restart, RecoveryTypeOK
  <2> QED
    BY <1>1, <2>4 DEF RecoveryTypeOK
<1>14. ASSUME NEW g \in Group, NEW e \in BOOLEAN, Configure(g, e) PROVE RecoveryTypeOK'
  <2>1. automation[g].revision + 1 \in 0..MaxRevision
    BY <1>14, RecoveryAssumption DEF Configure, RecoveryTypeOK
  <2>2. BindingsOK /\ SelectionOK
    BY <1>14, <2>1 DEF Configure, RecoveryTypeOK
  <2> QED
    BY <1>1, <2>2 DEF RecoveryTypeOK
<1>15. ASSUME NEW b \in Booker, NEW g \in Group, Propose(b, g) PROVE RecoveryTypeOK'
  <2>1. PICK s \in Start, by \in {Manual, automation[g].revision} :
          booking' = [booking EXCEPT ![b] =
            [step |-> "proposed", group |-> g, at |-> s, by |-> by,
             revision |-> group[g].revision, connection |-> connection]]
    BY <1>15 DEF Propose
  <2>2. group[g] \in GroupRow
    BY <1>15, GroupThere DEF Propose, MayBook, NoGroup
  <2>3. by \in Int /\ connection \in Nat
    BY RecoveryAssumption DEF RecoveryTypeOK, Manual
  <2>4. [step |-> "proposed", group |-> g, at |-> s, by |-> by,
         revision |-> group[g].revision, connection |-> connection] \in BookingRow
    BY <2>2, <2>3 DEF BookingRow, GroupRow
  <2>5. BindingsOK /\ SelectionOK
    BY <1>3, <1>15, <2>1, <2>4 DEF Propose, RecoveryTypeOK
  <2> QED
    BY <1>1, <2>5 DEF RecoveryTypeOK
<1>16. ASSUME NEW b \in Booker, Book(b) PROVE RecoveryTypeOK'
  <2>1. booking[b].group \in Group /\ booking[b].at \in Start
    BY <1>16, BookingThere DEF Book, NoBooking
  <2>2. group[booking[b].group] \in GroupRow
    BY <1>16, <2>1, GroupThere DEF Book, MayBook, NoGroup
  <2>3. BindingsOK
    BY <1>4, <1>16, <2>1, <2>2 DEF Book, RecoveryTypeOK, GroupRow
  <2>4. SelectionOK
    BY <1>16 DEF Book, RecoveryTypeOK
  <2> QED
    BY <1>1, <2>3, <2>4 DEF RecoveryTypeOK
<1>17. ASSUME NEW b \in Booker, Forget(b) PROVE RecoveryTypeOK'
  BY <1>1, <1>17 DEF Forget, RecoveryTypeOK
<1>18. CASE Reconnect
  <2>1. connection + 1 \in 0..MaxRevision
    BY <1>18, RecoveryAssumption DEF Reconnect, RecoveryTypeOK
  <2> QED
    BY <1>1, <1>18, <2>1 DEF Reconnect, RecoveryTypeOK
<1>19. CASE UNCHANGED interviewVars
  BY <1>1, <1>19 DEF interviewVars, recoveryVars, RecoveryTypeOK
<1> QED
  BY <1>5, <1>6, <1>7, <1>8, <1>9, <1>10, <1>11, <1>12, <1>13, <1>14, <1>15, <1>16,
     <1>17, <1>18, <1>19 DEF RecoveryNext

\* Invitations, incidents, automation settings and bookings have their types
\* (participantAvailability.ts, interviewRecoveryAutomation.ts).
THEOREM RecoveryTypeCorrect == RecoverySpec => []RecoveryTypeOK
<1> QED
  BY RecoveryTypeInit, RecoveryTypeStep, PTL DEF RecoverySpec

\* Whatever recovery, deadlines and automatic selection do to the calendar is one of
\* the calendar's own operations, with its guards: what holds of InterviewSlots holds
\* with them (participantAvailability.ts:89, interviewScheduling.ts:30).
THEOREM RecoveryKeepsToSlots == RecoverySpec => SlotsSpec
<1>1. RecoveryInit => SlotsInit
  BY DEF RecoveryInit
<1>2. RecoveryTypeOK /\ [RecoveryNext]_interviewVars => [SlotsNext]_slotVars
  BY RecoveryMovesCalendar
<1> QED
  BY <1>1, <1>2, RecoveryTypeCorrect, PTL DEF RecoverySpec, SlotsSpec

-----------------------------------------------------------------------------
(* What is booked.  A booking in flight remembers the submissions it read; *)
(* while they are the newest, its time is in both participants' windows.   *)

ProposalSuits ==
  \A b \in Booker : booking[b] # NoBooking =>
    LET g == booking[b].group IN
    /\ group[g] # NoGroup
    /\ \A p \in Participant :
         /\ booking[b].revision[p] <= group[g].revision[p]
         /\ booking[b].revision[p] = group[g].revision[p]
              => booking[b].at \in group[g].windows[p]
BookingInv == RecoveryTypeOK /\ ProposalSuits /\ BookedSuitsBoth

\* What leaves the windows and submissions of the groups that are there as they were,
\* and books none, keeps both.
LEMMA WindowsKept ==
  ASSUME ProposalSuits, BookedSuitsBoth, RecoveryTypeOK,
         \A b \in Booker : booking'[b] # NoBooking => booking'[b] = booking[b],
         \A g \in Group : group[g] # NoGroup =>
           /\ group'[g] # NoGroup
           /\ group'[g].windows = group[g].windows
           /\ group'[g].revision = group[g].revision,
         \A g \in Group : group'[g].status = "booked" =>
           group[g].status = "booked" /\ group'[g].at = group[g].at
  PROVE  ProposalSuits' /\ BookedSuitsBoth'
<1>1. ProposalSuits'
  <2> SUFFICES ASSUME NEW b \in Booker, booking'[b] # NoBooking
               PROVE  LET g == booking[b].group IN
                        /\ group'[g] # NoGroup
                        /\ \A p \in Participant :
                             /\ booking[b].revision[p] <= group'[g].revision[p]
                             /\ booking[b].revision[p] = group'[g].revision[p]
                                  => booking[b].at \in group'[g].windows[p]
    BY DEF ProposalSuits
  <2>1. booking[b] # NoBooking /\ booking[b].group \in Group
    BY BookingThere
  <2> QED
    BY <2>1 DEF ProposalSuits
<1>2. BookedSuitsBoth'
  <2> SUFFICES ASSUME NEW g \in Group, group'[g].status = "booked"
               PROVE  \A p \in Participant : group'[g].at \in group'[g].windows[p]
    BY DEF BookedSuitsBoth
  <2>1. group[g].status = "booked" /\ group'[g].at = group[g].at
    OBVIOUS
  <2>2. group'[g].windows = group[g].windows
    BY <2>1 DEF NoGroup
  <2> QED
    BY <2>1, <2>2 DEF BookedSuitsBoth
<1> QED
  BY <1>1, <1>2

\* Every step keeps that what automatic selection proposes or books suits both sides.
LEMMA BookingStep == BookingInv /\ [RecoveryNext]_interviewVars => BookingInv'
<1> SUFFICES ASSUME RecoveryTypeOK, ProposalSuits, BookedSuitsBoth,
                    [RecoveryNext]_interviewVars
             PROVE  ProposalSuits' /\ BookedSuitsBoth'
  BY RecoveryTypeStep DEF BookingInv
<1>1. CASE UNCHANGED <<group, booking>>
  BY <1>1, WindowsKept
<1>2. ASSUME NEW g \in Group, NEW target, NEW print, NEW declined,
             group[g] = NoGroup, group'[g] = Invited(target, print, declined),
             \A h \in Group \ {g} : group'[h] = group[h], UNCHANGED booking
      PROVE  ProposalSuits' /\ BookedSuitsBoth'
  <2>1. group'[g].status = "open"
    BY <1>2 DEF Invited, NoGroup
  <2> QED
    BY <1>2, <2>1, WindowsKept
<1>3. ASSUME NEW g \in Group, RequestAvailability(g)
      PROVE  ProposalSuits' /\ BookedSuitsBoth'
  BY <1>2, <1>3 DEF RequestAvailability, RecoveryTypeOK
<1>4. ASSUME NEW g \in Group, NEW i \in Interview, NEW p \in Participant,
             DeclineAndRecover(i, p, g)
      PROVE  ProposalSuits' /\ BookedSuitsBoth'
  BY <1>2, <1>4 DEF DeclineAndRecover, RecoveryTypeOK
<1>5. ASSUME NEW g \in Group,
             RevokeAvailability(g) \/ InvitesExpire(g) \/ ProcessDeadline(g)
      PROVE  ProposalSuits' /\ BookedSuitsBoth'
  <2>1. group[g] \in GroupRow
    BY <1>5, GroupThere DEF RevokeAvailability, InvitesExpire, ProcessDeadline, NoGroup
  <2>2. /\ group'[g].windows = group[g].windows
        /\ group'[g].revision = group[g].revision
        /\ group'[g].status \in {"open", "revoked"}
        /\ \A h \in Group \ {g} : group'[h] = group[h]
        /\ UNCHANGED booking
    BY <1>5, <2>1
    DEF RevokeAvailability, InvitesExpire, ProcessDeadline, RecoveryTypeOK, GroupRow
  <2>3. group'[g] # NoGroup
    BY <2>2 DEF NoGroup
  <2> QED
    BY <2>2, <2>3, WindowsKept
<1>6. ASSUME NEW g \in Group, NEW f \in Group, Restart(g, f)
      PROVE  ProposalSuits' /\ BookedSuitsBoth'
  <2>1. group[g] \in GroupRow /\ f # g /\ group[f] = NoGroup
    BY <1>6, GroupThere DEF Restart, NoGroup, Unbound
  <2>2. /\ group'[g].windows = group[g].windows
        /\ group'[g].revision = group[g].revision
        /\ group'[g].status = "revoked"
        /\ group'[f].status = "open"
        /\ \A h \in Group \ {f, g} : group'[h] = group[h]
        /\ UNCHANGED booking
    BY <1>6, <2>1 DEF Restart, RecoveryTypeOK, GroupRow, Replaced, Invited, NoGroup
  <2>3. group'[g] # NoGroup
    BY <2>2 DEF NoGroup
  <2> QED
    BY <2>1, <2>2, <2>3, WindowsKept
<1>7. ASSUME NEW g \in Group, NEW p \in Participant, NEW w \in SUBSET Start \ {{}},
             Submit(g, p, w)
      PROVE  ProposalSuits' /\ BookedSuitsBoth'
  <2>1. group[g] \in GroupRow /\ group[g].status = "open"
    BY <1>7, GroupThere DEF Submit, NoGroup
  <2>2. /\ group'[g].status = "open"
        /\ group'[g].revision[p] = group[g].revision[p] + 1
        /\ \A q \in Participant \ {p} : /\ group'[g].revision[q] = group[g].revision[q]
                                        /\ group'[g].windows[q] = group[g].windows[q]
        /\ \A h \in Group \ {g} : group'[h] = group[h]
        /\ UNCHANGED booking
    BY <1>7, <2>1 DEF Submit, RecoveryTypeOK, GroupRow
  <2>3. ProposalSuits'
    <3> SUFFICES ASSUME NEW b \in Booker, booking[b] # NoBooking
                 PROVE  LET h == booking[b].group IN
                          /\ group'[h] # NoGroup
                          /\ \A q \in Participant :
                               /\ booking[b].revision[q] <= group'[h].revision[q]
                               /\ booking[b].revision[q] = group'[h].revision[q]
                                    => booking[b].at \in group'[h].windows[q]
      BY <2>2 DEF ProposalSuits
    <3>1. booking[b] \in BookingRow /\ booking[b].group \in Group
      BY BookingThere
    <3>2. CASE booking[b].group # g
      BY <2>2, <3>1, <3>2 DEF ProposalSuits
    <3>3. CASE booking[b].group = g
      <4>1. group'[g] # NoGroup
        BY <2>2 DEF NoGroup
      <4>2. /\ booking[b].revision[p] <= group[g].revision[p]
            /\ booking[b].revision[p] \in Int /\ group[g].revision[p] \in Int
        BY <2>1, <3>1, <3>3, RecoveryAssumption DEF ProposalSuits, BookingRow, GroupRow
      <4>3. /\ booking[b].revision[p] <= group'[g].revision[p]
            /\ booking[b].revision[p] # group'[g].revision[p]
        BY <2>2, <4>2
      <4> QED
        BY <2>2, <3>3, <4>1, <4>3 DEF ProposalSuits
    <3> QED
      BY <3>2, <3>3
  <2>4. BookedSuitsBoth'
    BY <2>2 DEF BookedSuitsBoth
  <2> QED
    BY <2>3, <2>4
<1>8. ASSUME NEW b \in Booker, NEW g \in Group, Propose(b, g)
      PROVE  ProposalSuits' /\ BookedSuitsBoth'
  <2>1. PICK s \in Start, by \in {Manual, automation[g].revision} :
          /\ \A p \in Participant : s \in group[g].windows[p]
          /\ booking' = [booking EXCEPT ![b] =
               [step |-> "proposed", group |-> g, at |-> s, by |-> by,
                revision |-> group[g].revision, connection |-> connection]]
    BY <1>8 DEF Propose
  <2>2. group[g] # NoGroup /\ group[g] \in GroupRow /\ UNCHANGED group
    BY <1>8, GroupThere DEF Propose, MayBook, NoGroup
  <2>3. /\ booking'[b].group = g /\ booking'[b].at = s
        /\ booking'[b].revision = group[g].revision
        /\ \A c \in Booker \ {b} : booking'[c] = booking[c]
    BY <2>1 DEF RecoveryTypeOK
  <2>4. \A p \in Participant : group[g].revision[p] <= group[g].revision[p]
    BY <2>2, RecoveryAssumption DEF GroupRow
  <2> QED
    BY <2>1, <2>2, <2>3, <2>4 DEF ProposalSuits, BookedSuitsBoth
<1>9. ASSUME NEW b \in Booker, Book(b) PROVE ProposalSuits' /\ BookedSuitsBoth'
  <2> DEFINE g == booking[b].group
             s == booking[b].at
  <2>1. booking[b] # NoBooking /\ g \in Group /\ s \in Start
    BY <1>9, BookingThere DEF Book, NoBooking
  <2>2. group[g] # NoGroup /\ group[g] \in GroupRow
    BY <1>9, <2>1, GroupThere DEF Book, MayBook, NoGroup
  <2>3. \A p \in Participant : s \in group[g].windows[p]
    BY <1>9, <2>1 DEF Book, SameResponses, ProposalSuits
  <2>4. /\ group'[g].windows = group[g].windows
        /\ group'[g].revision = group[g].revision
        /\ group'[g].status = "booked" /\ group'[g].at = s
        /\ \A h \in Group \ {g} : group'[h] = group[h]
    BY <1>9, <2>1, <2>2 DEF Book, RecoveryTypeOK, GroupRow
  <2>5. /\ booking'[b] = NoBooking
        /\ \A c \in Booker \ {b} : booking'[c] = booking[c]
    BY <1>9 DEF Book, RecoveryTypeOK
  <2>6. group'[g] # NoGroup
    BY <2>4 DEF NoGroup
  <2> HIDE DEF g, s
  <2>7. ProposalSuits'
    <3> SUFFICES ASSUME NEW c \in Booker \ {b}, booking[c] # NoBooking
                 PROVE  LET h == booking[c].group IN
                          /\ group'[h] # NoGroup
                          /\ \A q \in Participant :
                               /\ booking[c].revision[q] <= group'[h].revision[q]
                               /\ booking[c].revision[q] = group'[h].revision[q]
                                    => booking[c].at \in group'[h].windows[q]
      BY <2>5 DEF ProposalSuits
    <3>1. booking[c].group \in Group
      BY BookingThere
    <3> QED
      BY <2>4, <2>6, <3>1 DEF ProposalSuits
  <2>8. BookedSuitsBoth'
    BY <2>3, <2>4 DEF BookedSuitsBoth
  <2> QED
    BY <2>7, <2>8
<1>10. ASSUME NEW b \in Booker, Forget(b) PROVE ProposalSuits' /\ BookedSuitsBoth'
  <2>1. \A c \in Booker : booking'[c] # NoBooking => booking'[c] = booking[c]
    BY <1>10 DEF Forget, RecoveryTypeOK
  <2> QED
    BY <1>10, <2>1, WindowsKept DEF Forget
<1> QED
  BY <1>1, <1>3, <1>4, <1>5, <1>6, <1>7, <1>8, <1>9, <1>10
  DEF RecoveryNext, NeedsReview, Configure, Reconnect, interviewVars, recoveryVars

\* What is booked is in the windows both participants gave last, although a booking
\* reads them in another transaction than it writes in
\* (participantAvailability.ts:89).
THEOREM BookingsSuit == RecoverySpec => []BookedSuitsBoth
<1>1. RecoveryInit => BookingInv
  <2>1. RecoveryInit => ProposalSuits /\ BookedSuitsBoth
    BY DEF RecoveryInit, ProposalSuits, BookedSuitsBoth, NoGroup
  <2> QED
    BY <2>1, RecoveryTypeInit DEF BookingInv
<1>2. BookingInv => BookedSuitsBoth
  BY DEF BookingInv
<1> QED
  BY <1>1, <1>2, BookingStep, PTL DEF RecoverySpec

\* Both calendar invariants hold with recovery running beside the calendar
\* (interviewScheduling.ts:30, interviewConfirmations.ts:16).
COROLLARY RecoveryKeepsCalendar ==
  RecoverySpec => [](NoDoubleBooking /\ ConfirmedMeansAgreed)
<1> QED
  BY RecoveryKeepsToSlots, NobodyIsBookedTwice, ConfirmationIsAgreement, PTL
=============================================================================
