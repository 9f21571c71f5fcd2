------------------------- MODULE InterviewRecovery --------------------------
(***************************************************************************)
(* Finding a time both participants can make: availability requests, the   *)
(* recovery of a declined interview, its deadline and the automatic        *)
(* selection the owner may authorize.  A booking reads the responses in one*)
(* transaction, asks the external calendar, and books in another; anything *)
(* may happen between.  It moves the calendar of InterviewSlots, whose     *)
(* operations run beside it.                                               *)
(*                                                                         *)
(* An invitation is answered with the starts that suit; time zones, notice *)
(* and horizon only narrow them.  The buffer of a recovery itself is 0.    *)
(***************************************************************************)
EXTENDS InterviewSlots, FiniteSets

CONSTANTS
  Group,            \* groupIds: each has one invitation per participant
  Booker,           \* bookings in flight
  MaxSubmissions,   \* submissionCount's limit
  MaxRevision       \* bound: connection and automation revisions

ASSUME RecoveryAssumption ==
  MaxSubmissions \in Nat /\ MaxRevision \in Nat /\ "none" \notin Interview

VARIABLES
  group,        \* the availabilityInvites of each group, and its binding
  incident,     \* the recovery incident of each group
  automation,   \* newest interview.recovery_automation_configured event
  connection,   \* revision of the calendar connection
  booking       \* what each booking in flight has read

recoveryVars == <<group, incident, automation, connection, booking>>
interviewVars == <<slotVars, recoveryVars>>

Unbound == "none"
NoGroup == [status |-> "none", windows |-> [p \in Participant |-> {}],
            revision |-> [p \in Participant |-> 0], expired |-> FALSE,
            target |-> Unbound, print |-> NoSchedule, declined |-> FALSE,
            replaced |-> FALSE, at |-> 0]
NoAutomation == [enabled |-> FALSE, revision |-> 0, calendar |-> 0, reviewed |-> FALSE]
NoBooking == [step |-> "idle"]
Manual == -1   \* the owner books, not an authorized revision

RecoveryInit ==
  /\ SlotsInit
  /\ group = [g \in Group |-> NoGroup]
  /\ incident = [g \in Group |-> "none"]
  /\ automation = [g \in Group |-> NoAutomation]
  /\ connection = 0
  /\ booking = [b \in Booker |-> NoBooking]
-----------------------------------------------------------------------------
\* Incidents of an interview that no longer waits for another time are resolved by
\* whatever changed it.
IncidentsFollow ==
  incident' = [g \in Group |->
    LET i == group[g].target
    IN  IF /\ i # Unbound /\ interview'[i] # interview[i]
           /\ interview'[i].status # "reschedule_requested" /\ incident[g] = "detected"
        THEN "resolved" ELSE incident[g]]

\* matchesRecovery: the schedule the recovery is bound to is still the declined one.
Matches(g) ==
  LET row == interview[group[g].target]
  IN  /\ row.status = "reschedule_requested" /\ row.calendar = "cancelled"
      /\ row.count = group[g].print
assertRecoveryCurrent(g) == group[g].target # Unbound => Matches(g)

Answered(g) == \A p \in Participant : group[g].windows[p] # {}
Invited(target, print, declined) ==
  [NoGroup EXCEPT !.status = "open", !.target = target, !.print = print,
                  !.declined = declined]
-----------------------------------------------------------------------------
(* Invitations.                                                            *)

\* createAvailabilityInvites, for a first interview.
RequestAvailability(g) ==
  /\ group[g] = NoGroup /\ schedulable
  /\ group' = [group EXCEPT ![g] = Invited(Unbound, NoSchedule, FALSE)]
  /\ UNCHANGED <<slotVars, incident, automation, connection, booking>>

\* A participant declines: the recovery pair is keyed by interview and count.
DeclineAndRecover(i, p, g) ==
  /\ Decline(i, p)
  /\ group[g] = NoGroup
  /\ \A f \in Group : ~(group[f].declined /\ group[f].target = i
                        /\ group[f].print = interview[i].count)
  /\ group' = [group EXCEPT ![g] = Invited(i, interview[i].count, TRUE)]
  /\ UNCHANGED <<incident, automation, connection, booking>>

\* submissionCount's limit.
BelowLimit(g, p) == group[g].revision[p] < MaxSubmissions

\* publicAvailability.
Submit(g, p, windows) ==
  /\ group[g].status = "open" /\ ~group[g].expired
  /\ schedulable /\ assertRecoveryCurrent(g)
  /\ BelowLimit(g, p)
  /\ group' = [group EXCEPT ![g].windows[p] = windows, ![g].revision[p] = @ + 1]
  /\ UNCHANGED <<slotVars, incident, automation, connection, booking>>

RevokeAvailability(g) ==
  /\ group[g].status \in {"open", "booked"}
  /\ group' = [group EXCEPT ![g].status = "revoked"]
  /\ UNCHANGED <<slotVars, incident, automation, connection, booking>>

InvitesExpire(g) ==
  /\ group[g].status = "open" /\ ~group[g].expired
  /\ group' = [group EXCEPT ![g].expired = TRUE]
  /\ UNCHANGED <<slotVars, incident, automation, connection, booking>>

\* processDueRecoveryDeadlines: links closed, the owner told if it still matters.
ProcessDeadline(g) ==
  /\ group[g].status = "open" /\ group[g].expired /\ group[g].target # Unbound
  /\ group' = [group EXCEPT ![g].status = "revoked"]
  /\ incident' = IF Matches(g) /\ schedulable
                 THEN [incident EXCEPT ![g] = "detected"] ELSE incident
  /\ UNCHANGED <<slotVars, automation, connection, booking>>

\* restartInterviewRecovery: a new pair for the same binding.
Replaced(row) == [row EXCEPT !.replaced = TRUE, !.status = "revoked"]

Restart(g, f) ==
  /\ group[g].target # Unbound /\ ~group[g].replaced /\ group[f] = NoGroup
  /\ schedulable /\ Matches(g)
  /\ group' = [group EXCEPT ![g] = Replaced(@),
                            ![f] = Invited(group[g].target, group[g].print, FALSE)]
  /\ incident' = [incident EXCEPT ![g] = IF @ = "detected" THEN "resolved" ELSE @]
  /\ UNCHANGED <<slotVars, automation, connection, booking>>
-----------------------------------------------------------------------------
(* Automatic selection.                                                    *)

\* configureRecoveryAutomation.
Configure(g, enabled) ==
  /\ group[g] # NoGroup /\ automation[g].revision < MaxRevision
  /\ enabled => /\ group[g].status = "open" /\ ~group[g].expired /\ schedulable
                /\ group[g].target # Unbound /\ Matches(g)
  /\ automation' = [automation EXCEPT ![g] =
       [enabled |-> enabled, revision |-> @.revision + 1, calendar |-> connection,
        reviewed |-> FALSE]]
  /\ incident' = [incident EXCEPT ![g] =
       IF enabled /\ @ = "detected" THEN "resolved" ELSE @]
  /\ UNCHANGED <<slotVars, group, connection, booking>>

\* authorized: the settings that the task was made for are still the newest, and
\* their calendar is the connected one.
authorized(g, revision) ==
  /\ automation[g].enabled /\ automation[g].revision = revision
  /\ automation[g].calendar = connection
  /\ group[g].status = "open" /\ ~group[g].expired
  /\ group[g].target # Unbound /\ Matches(g) /\ schedulable

\* executeRecoveryAutoSelection finds no slot, once for each authorization.
NeedsReview(g) ==
  /\ authorized(g, automation[g].revision) /\ Answered(g) /\ ~automation[g].reviewed
  /\ automation' = [automation EXCEPT ![g].reviewed = TRUE]
  /\ incident' = [incident EXCEPT ![g] = "detected"]
  /\ UNCHANGED <<slotVars, group, connection, booking>>

Reconnect ==
  /\ connection < MaxRevision /\ connection' = connection + 1
  /\ UNCHANGED <<slotVars, group, incident, automation, booking>>
-----------------------------------------------------------------------------
(* Booking.                                                                *)

MayBook(g) ==
  /\ group[g].status = "open" /\ Answered(g) /\ ~group[g].expired
  /\ schedulable /\ assertRecoveryCurrent(g)
DeclinedStart(g, s) == group[g].target # Unbound /\ interview[group[g].target].at = s
assertRecordedSlotFree(s) == UnheldSlot(s, {}) /\ overlaps(s, {}) = {}

\* proposeCollectedAvailability: the responses, the connection and a slot that the
\* external calendar left free; for the owner or for a task of the worker.
Propose(b, g) ==
  /\ booking[b] = NoBooking /\ MayBook(g)
  /\ \E s \in Start, by \in {Manual, automation[g].revision} :
       /\ by # Manual => authorized(g, by) /\ ~automation[g].reviewed
       /\ \A p \in Participant : s \in group[g].windows[p]
       /\ ~DeclinedStart(g, s) /\ assertRecordedSlotFree(s)
       /\ booking' = [booking EXCEPT ![b] =
            [step |-> "proposed", group |-> g, at |-> s, by |-> by,
             revision |-> group[g].revision, connection |-> connection]]
  /\ UNCHANGED <<slotVars, group, incident, automation, connection>>

\* responsesFingerprint (mutant: of the connection only).
SameCalendar(b) == booking[b].connection = connection
SameResponses(b) ==
  booking[b].connection = connection
  /\ booking[b].revision = group[booking[b].group].revision

\* bookCollectedAvailability's last transaction.
Book(b) ==
  /\ booking[b].step = "proposed"
  /\ LET g == booking[b].group  s == booking[b].at IN
       /\ MayBook(g) /\ SameResponses(b)
       /\ booking[b].by # Manual => authorized(g, booking[b].by)
       /\ ~DeclinedStart(g, s) /\ assertRecordedSlotFree(s)
       /\ IF group[g].target = Unbound THEN Schedule(s) ELSE Reschedule(group[g].target, s)
       /\ group' = [group EXCEPT ![g].status = "booked", ![g].at = s]
  /\ IncidentsFollow
  /\ booking' = [booking EXCEPT ![b] = NoBooking]
  /\ UNCHANGED <<automation, connection>>

\* Refused, or its process died.
Forget(b) ==
  /\ booking[b] # NoBooking /\ booking' = [booking EXCEPT ![b] = NoBooking]
  /\ UNCHANGED <<slotVars, group, incident, automation, connection>>
-----------------------------------------------------------------------------
RecoveryNext ==
  \/ CalendarStep /\ IncidentsFollow /\ UNCHANGED <<group, automation, connection, booking>>
  \/ \E g \in Group :
       \/ RequestAvailability(g) \/ RevokeAvailability(g) \/ InvitesExpire(g)
       \/ ProcessDeadline(g) \/ NeedsReview(g)
       \/ \E i \in Interview, p \in Participant : DeclineAndRecover(i, p, g)
       \/ \E p \in Participant, w \in SUBSET Start \ {{}} : Submit(g, p, w)
       \/ \E f \in Group : Restart(g, f)
       \/ \E e \in BOOLEAN : Configure(g, e)
       \/ \E b \in Booker : Propose(b, g)
  \/ \E b \in Booker : Book(b) \/ Forget(b)
  \/ Reconnect

RecoverySpec == RecoveryInit /\ [][RecoveryNext]_interviewVars
-----------------------------------------------------------------------------
GroupRow ==
  [status : {"open", "revoked", "booked"}, windows : [Participant -> SUBSET Start],
   revision : [Participant -> 0..MaxSubmissions], expired : BOOLEAN,
   target : Interview \cup {Unbound}, print : Int, declined : BOOLEAN,
   replaced : BOOLEAN, at : Start \cup {0}]
BookingRow ==
  [step : {"proposed"}, group : Group, at : Start, by : Int, connection : Nat,
   revision : [Participant -> 0..MaxSubmissions]]

RecoveryTypeOK ==
  /\ SlotsTypeOK
  /\ group \in [Group -> GroupRow \cup {NoGroup}]
  /\ incident \in [Group -> {"none", "detected", "resolved"}]
  /\ automation \in [Group -> [enabled : BOOLEAN, revision : 0..MaxRevision,
                              calendar : 0..MaxRevision, reviewed : BOOLEAN]]
  /\ connection \in 0..MaxRevision
  /\ booking \in [Booker -> BookingRow \cup {NoBooking}]

\* What was booked suits what both participants last said, although they may answer
\* again while the calendar is asked (participantAvailability.ts:89).
BookedSuitsBoth ==
  \A g \in Group : group[g].status = "booked" =>
    \A p \in Participant : group[g].at \in group[g].windows[p]
=============================================================================
