---------------------------- MODULE ClientThread ----------------------------
(***************************************************************************)
(* One conversation with a client contact: the replies that come in, their *)
(* late assessment by the model, the owner's next action with its deadline,*)
(* the response mail and the discovery request.  Every operation is one    *)
(* workspace transaction and one step.  Between two of them a mail is at   *)
(* the provider, or a booking at the external calendar.                    *)
(*                                                                         *)
(* The n-th reply is number n; one delivered again under its provider id   *)
(* changes nothing.  Which times are free is InterviewSlots' subject; what *)
(* the owner does with an incident by hand is left out.                    *)
(***************************************************************************)
EXTENDS Integers, FiniteSets

CONSTANTS
  MaxReplies, MaxActions,   \* bounds: replies, next actions of each
  Discovery,                \* ids of clientDiscoveryRequests rows
  Selector                  \* bookings in flight

ASSUME ThreadAssumption == MaxReplies \in Nat \ {0} /\ MaxActions \in Nat

Reply == 1..MaxReplies
Task == Reply \X (1..MaxActions)    \* a reply and the revision of its next action
NoTask == <<0, 0>>

VARIABLES
  conversation,   \* its status
  optedOut,       \* the contact's, with the suppression of its address
  permitted,      \* hasClientCommunicationPermission, opt-out apart
  cursor,         \* the newest reply
  assessed,       \* outreach.reply_assessed of each reply
  action,         \* kind of each recorded next action, or "none"
  due, completed, \* tasks with a date, and whether it is past; completed tasks
  dated,          \* nextActionAt is that of the current action
  timer,          \* client_reply_deadline jobs
  backfilled,     \* outreach.deadline_backfilled
  overdue,        \* client_reply_overdue incident of each task
  response,       \* email dispatch prepared for each task
  checked,        \* outreach.outcome_checked of its receipt
  discovery,      \* clientDiscoveryRequests rows with their meetings
  case,           \* the discovery's incident
  selecting       \* what each booking in flight has read

contactVars == <<conversation, optedOut, permitted>>
replyVars == <<cursor, assessed>>
taskVars == <<action, due, completed, dated, timer, backfilled, overdue>>
responseVars == <<response, checked>>
discoveryVars == <<discovery, case, selecting>>
threadVars == <<contactVars, replyVars, taskVars, responseVars, discoveryVars>>

Kind == {"review_reply", "arrange_discovery", "clarify_requirement",
         "prepare_response", "close_no_interest", "stop_contact"}
Due == {"none", "ahead", "past"}
Open == {"pending", "responded"}
NoDiscovery == [status |-> "none", source |-> NoTask, revision |-> 0,
                lapsed |-> FALSE, meeting |-> "none"]
NotSelecting == [request |-> "none", revision |-> 0]
Answerable == {"arrange_discovery", "clarify_requirement", "prepare_response"}
Undated == {"stop_contact", "close_no_interest"}

\* A thread before its first reply, or one whose action is older than the timers.
ThreadInit ==
  /\ conversation = "active" /\ optedOut = FALSE /\ permitted = TRUE
  /\ assessed = [r \in Reply |-> "none"] /\ completed = {}
  /\ \/ /\ cursor = 0 /\ dated = FALSE
        /\ action = [t \in Task |-> "none"] /\ due = [t \in Task |-> "none"]
     \/ /\ cursor = 1 /\ dated = TRUE
        /\ action = [t \in Task |-> IF t = <<1, 1>> THEN "prepare_response" ELSE "none"]
        /\ due = [t \in Task |-> IF t = <<1, 1>> THEN "ahead" ELSE "none"]
  /\ timer = [t \in Task |-> "none"] /\ backfilled = FALSE
  /\ overdue = [t \in Task |-> "none"]
  /\ response = [t \in Task |-> "none"] /\ checked = {}
  /\ discovery = [d \in Discovery |-> NoDiscovery]
  /\ case = [d \in Discovery |-> "none"]
  /\ selecting = [b \in Selector |-> NotSelecting]
-----------------------------------------------------------------------------
(* clientReplyCase.                                                        *)

Revision(r) == Cardinality({n \in 1..MaxActions : action[<<r, n>>] # "none"})
NewestTask == IF cursor = 0 \/ Revision(cursor) = 0 THEN NoTask
           ELSE <<cursor, Revision(cursor)>>
Goal == IF NewestTask = NoTask THEN "none" ELSE action[NewestTask]
Blocked == conversation = "opted_out" \/ optedOut
Reachable == permitted /\ ~optedOut    \* permission is there, address not suppressed

\* clearReplyDeadline, before the cursor or the action moves: a job that runs is not
\* taken back.
ClearedTimer ==
  [t \in Task |-> IF t = NewestTask /\ timer[t] = "queued" THEN "cancelled" ELSE timer[t]]
ClearedOverdue ==
  [t \in Task |-> IF overdue[t] = "detected" THEN "resolved" ELSE overdue[t]]
ClearReplyDeadline == timer' = ClearedTimer /\ overdue' = ClearedOverdue
-----------------------------------------------------------------------------
(* Replies and their assessment.                                           *)

\* receiveReply; the text asks to stop or it does not.
ReceiveReply(stop) ==
  /\ cursor < MaxReplies /\ cursor' = cursor + 1
  /\ conversation' = IF stop \/ Blocked THEN "opted_out" ELSE "reply_received"
  /\ optedOut' = (optedOut \/ stop)
  /\ ClearReplyDeadline /\ dated' = FALSE
  /\ UNCHANGED <<permitted, assessed, action, due, completed, backfilled, responseVars,
                 discoveryVars>>

\* The same contact asks to stop in another conversation.
OptOutElsewhere ==
  /\ ~optedOut /\ optedOut' = TRUE
  /\ UNCHANGED <<conversation, permitted, replyVars, taskVars, responseVars,
                 discoveryVars>>

\* recordPermission, and the expiry of what it recorded.
PermissionChanges ==
  /\ ~optedOut /\ permitted' = ~permitted
  /\ UNCHANGED <<conversation, optedOut, replyVars, taskVars, responseVars,
                 discoveryVars>>

\* assessReply: the model's answer for reply r, however late.
AssessReply(r, stop) ==
  LET applied == r = cursor /\ conversation # "opted_out"
  IN  /\ r <= cursor /\ assessed[r] = "none"
      /\ assessed' = [assessed EXCEPT ![r] = IF applied THEN "applied" ELSE "noted"]
      /\ IF applied /\ stop
         THEN /\ conversation' = "opted_out" /\ optedOut' = TRUE
              /\ ClearReplyDeadline /\ dated' = FALSE
         ELSE UNCHANGED <<conversation, optedOut, dated, timer, overdue>>
      /\ UNCHANGED <<permitted, cursor, action, due, completed, backfilled,
                     responseVars, discoveryVars>>
-----------------------------------------------------------------------------
(* The next action and its deadline.                                       *)

Untouched == <<contactVars, replyVars, responseVars, discoveryVars>>

\* recordReplyAction, for the reply and the revision that are newest.
RecordReplyAction(kind, date) ==
  /\ cursor > 0 /\ Revision(cursor) < MaxActions
  /\ Blocked <=> kind = "stop_contact"
  /\ LET t == <<cursor, Revision(cursor) + 1>>
     IN  /\ action' = [action EXCEPT ![t] = kind]
         /\ due' = [due EXCEPT ![t] = date]
         /\ timer' = [ClearedTimer EXCEPT ![t] =
              IF date = "none" \/ kind \in Undated THEN "none" ELSE "queued"]
  /\ overdue' = ClearedOverdue /\ dated' = (date # "none")
  /\ UNCHANGED <<completed, backfilled, Untouched>>

DuePasses(t) ==
  /\ due[t] = "ahead" /\ due' = [due EXCEPT ![t] = "past"]
  /\ UNCHANGED <<action, completed, dated, timer, backfilled, overdue, Untouched>>

\* A worker takes the job; it may die, before or after it ran, and leave it to be
\* taken again.
TakeTimer(t) ==
  /\ timer[t] \in {"queued", "running"}
  /\ timer' = [timer EXCEPT ![t] = IF @ = "queued" THEN "running" ELSE "queued"]
  /\ UNCHANGED <<action, due, completed, dated, backfilled, overdue, Untouched>>

\* executeClientReplyDeadline (mutant: the task may be done).
DueAnyway(t) == ~Blocked /\ t = NewestTask /\ action[t] \notin Undated /\ Reachable
StillDue(t) ==
  ~Blocked /\ t = NewestTask /\ t \notin completed /\ action[t] \notin Undated /\ Reachable

RunDeadline(t) ==
  /\ timer[t] = "running"
  /\ overdue' = IF StillDue(t) /\ due[t] = "past" /\ overdue[t] = "none"
                THEN [overdue EXCEPT ![t] = "detected"] ELSE overdue
  /\ \E s \in {"running", "completed"} :
       timer' = [timer EXCEPT ![t] =
         IF StillDue(t) /\ due[t] = "ahead" THEN "queued" ELSE s]
  /\ UNCHANGED <<action, due, completed, dated, backfilled, Untouched>>

\* processLegacyReplyDeadlines: once, for an action saved before there were jobs.
BackfillDeadline ==
  /\ dated /\ NewestTask # NoTask /\ due[NewestTask] = "past" /\ ~backfilled
  /\ backfilled' = TRUE
  /\ timer' = IF /\ ~Blocked /\ NewestTask \notin completed /\ action[NewestTask] \notin Undated
                 /\ timer[NewestTask] = "none"
              THEN [timer EXCEPT ![NewestTask] = "queued"] ELSE timer
  /\ UNCHANGED <<action, due, completed, dated, overdue, Untouched>>

\* finishReplyAction.
Finished(t) ==
  /\ completed' = completed \cup {t}
  /\ ClearReplyDeadline /\ dated' = FALSE

Unresolved(r) ==
  \E n \in 1..MaxActions :
    /\ response[<<r, n>>] \notin {"none", "cancelled", "sent"}
    /\ \A m \in 1..MaxActions : m > n => response[<<r, m>>] = "none"

\* completeReplyAction by the owner.
CompleteReplyAction(t) ==
  /\ t = NewestTask /\ t \notin completed /\ ~Blocked
  /\ \A d \in Discovery : discovery[d].status \in Open => discovery[d].lapsed
  /\ ~Unresolved(cursor)
  /\ Finished(t)
  /\ UNCHANGED <<action, due, backfilled, Untouched>>
-----------------------------------------------------------------------------
(* The response mail.                                                      *)

\* validateReplyEmail.
ResponseValid(t) ==
  ~Blocked /\ t = NewestTask /\ t \notin completed /\ action[t] \in Answerable /\ Reachable

\* What an earlier action's response must be for another one: cancelled before any
\* attempt (mutant: not waiting).
NotWaiting == {"none", "cancelled", "uncertain", "settled", "sent"}
Unused == {"none", "cancelled"}

PrepareResponse(t) ==
  /\ ResponseValid(t) /\ response[t] = "none"
  /\ \A n \in 1..MaxActions : response[<<t[1], n>>] \in Unused
  /\ response' = [response EXCEPT ![t] = "pending"]
  /\ UNCHANGED <<contactVars, replyVars, taskVars, checked, discoveryVars>>

\* Approved, rejected or cancelled by the owner, claimed by the worker, and what
\* the provider's answer or the owner's evidence makes of it.
ResponseMoves(t) ==
  /\ \E move \in {<<"pending", "approved">>, <<"pending", "cancelled">>,
                  <<"approved", "cancelled">>, <<"approved", "claimed">>,
                  <<"claimed", "uncertain">>, <<"uncertain", "settled">>} :
       /\ response[t] = move[1]
       /\ move[2] \in {"approved", "claimed"} => ResponseValid(t)
       /\ response' = [response EXCEPT ![t] = move[2]]
  /\ UNCHANGED <<contactVars, replyVars, taskVars, checked, discoveryVars>>

\* completeAcceptedReply.
Completes(t) ==
  IF ResponseValid(t) /\ action[t] = "prepare_response" THEN Finished(t)
  ELSE UNCHANGED <<completed, timer, overdue, dated>>

ProviderAccepts(t) ==
  /\ response[t] = "claimed" /\ response' = [response EXCEPT ![t] = "sent"]
  /\ Completes(t)
  /\ UNCHANGED <<contactVars, replyVars, action, due, backfilled, checked, discoveryVars>>

\* processObservedReplyOutcomes looks at each receipt once more.
ObserveReceipt(t) ==
  /\ response[t] = "sent" /\ t \notin checked /\ checked' = checked \cup {t}
  /\ Completes(t)
  /\ UNCHANGED <<contactVars, replyVars, action, due, backfilled, response, discoveryVars>>
-----------------------------------------------------------------------------
(* Discovery.                                                              *)

DiscoverySource(t) ==
  ~Blocked /\ t = NewestTask /\ t \notin completed /\ Goal = "arrange_discovery"
  /\ Reachable

Alive(d) == discovery[d].status \in Open /\ ~discovery[d].lapsed
\* currentRequest.
CurrentRequest(d) == Alive(d) /\ DiscoverySource(discovery[d].source)

Reserved(d) == discovery[d].status = "booked" /\ discovery[d].meeting = "tentative"
Resolved(c) == IF c = "detected" THEN "resolved" ELSE c

\* What createDiscoveryRequest needs beside it.
NothingPlanned == \A e \in Discovery : ~Alive(e) /\ ~Reserved(e)

\* Those that lapsed make room.
CreateDiscovery(d) ==
  /\ discovery[d] = NoDiscovery /\ DiscoverySource(NewestTask) /\ NothingPlanned
  /\ discovery' = [e \in Discovery |->
       IF e = d THEN [NoDiscovery EXCEPT !.status = "pending", !.source = NewestTask,
                                         !.revision = 1]
       ELSE IF discovery[e].status \in Open
       THEN [discovery[e] EXCEPT !.status = "expired", !.revision = @ + 1]
       ELSE discovery[e]]
  /\ case' = [e \in Discovery |->
       IF discovery[e].lapsed /\ discovery[e].status # "booked"
       THEN Resolved(case[e]) ELSE case[e]]
  /\ UNCHANGED <<contactVars, replyVars, taskVars, responseVars, selecting>>

\* publicDiscovery: the client's windows, once.
ClientResponds(d) ==
  /\ discovery[d].status = "pending" /\ CurrentRequest(d)
  /\ discovery' = [discovery EXCEPT ![d].status = "responded", ![d].revision = @ + 1]
  /\ UNCHANGED <<contactVars, replyVars, taskVars, responseVars, case, selecting>>

\* expiresAt, or the end of the meeting, passes.
DiscoveryLapses(d) ==
  /\ \/ Alive(d) /\ discovery' = [discovery EXCEPT ![d].lapsed = TRUE]
     \/ Reserved(d) /\ discovery' = [discovery EXCEPT ![d].meeting = "past"]
  /\ UNCHANGED <<contactVars, replyVars, taskVars, responseVars, case, selecting>>

\* processDueDiscoveryDeadlines.
DiscoveryDeadline(d) ==
  /\ discovery[d].status \in Open /\ discovery[d].lapsed
  /\ discovery' = [discovery EXCEPT ![d].status = "expired", ![d].revision = @ + 1]
  /\ case' = [case EXCEPT ![d] =
       IF DiscoverySource(discovery[d].source) THEN "detected" ELSE Resolved(@)]
  /\ UNCHANGED <<contactVars, replyVars, taskVars, responseVars, selecting>>

CancelDiscovery(d) ==
  /\ discovery[d].status \notin {"none", "cancelled"}
  /\ discovery' = [discovery EXCEPT ![d].status = "cancelled", ![d].revision = @ + 1,
       ![d].meeting = IF @ = "none" THEN @ ELSE "cancelled"]
  /\ case' = [case EXCEPT ![d] = Resolved(@)]
  /\ UNCHANGED <<contactVars, replyVars, taskVars, responseVars, selecting>>

\* proposeDiscovery, for the owner or for executeDiscoverySelection.
ProposeDiscovery(b, d) ==
  /\ selecting[b] = NotSelecting
  /\ discovery[d].status = "responded" /\ CurrentRequest(d)
  /\ selecting' = [selecting EXCEPT ![b] =
       [request |-> d, revision |-> discovery[d].revision]]
  /\ UNCHANGED <<contactVars, replyVars, taskVars, responseVars, discovery, case>>

\* executeDiscoverySelection finds no slot: one incident a request.
NoSlots(b) ==
  LET d == selecting[b].request
  IN  /\ d \in Discovery /\ CurrentRequest(d)
      /\ discovery[d].revision = selecting[b].revision
      /\ case' = [case EXCEPT ![d] = IF @ = "none" THEN "detected" ELSE @]
      /\ selecting' = [selecting EXCEPT ![b] = NotSelecting]
      /\ UNCHANGED <<contactVars, replyVars, taskVars, responseVars, discovery>>

\* bookDiscovery's last transaction.
BookDiscovery(b) ==
  LET d == selecting[b].request
  IN  /\ d \in Discovery /\ CurrentRequest(d)
      /\ discovery[d].revision = selecting[b].revision
      /\ discovery' = [discovery EXCEPT ![d].status = "booked", ![d].revision = @ + 1,
                                        ![d].meeting = "tentative"]
      /\ case' = [case EXCEPT ![d] = Resolved(@)]
      /\ Finished(NewestTask)
      /\ selecting' = [selecting EXCEPT ![b] = NotSelecting]
      /\ UNCHANGED <<contactVars, replyVars, action, due, backfilled, responseVars>>

\* Refused, or its process died.
DropSelection(b) ==
  /\ selecting[b] # NotSelecting
  /\ selecting' = [selecting EXCEPT ![b] = NotSelecting]
  /\ UNCHANGED <<contactVars, replyVars, taskVars, responseVars, discovery, case>>
-----------------------------------------------------------------------------
ThreadNext ==
  \/ \E stop \in BOOLEAN : \/ ReceiveReply(stop)
                           \/ \E r \in Reply : AssessReply(r, stop)
  \/ OptOutElsewhere \/ PermissionChanges \/ BackfillDeadline
  \/ \E k \in Kind, date \in Due : RecordReplyAction(k, date)
  \/ \E t \in Task :
       \/ DuePasses(t) \/ TakeTimer(t) \/ RunDeadline(t)
       \/ CompleteReplyAction(t) \/ PrepareResponse(t) \/ ResponseMoves(t)
       \/ ProviderAccepts(t) \/ ObserveReceipt(t)
  \/ \E d \in Discovery :
       \/ CreateDiscovery(d) \/ ClientResponds(d) \/ DiscoveryLapses(d)
       \/ DiscoveryDeadline(d) \/ CancelDiscovery(d)
       \/ \E b \in Selector : ProposeDiscovery(b, d)
  \/ \E b \in Selector : NoSlots(b) \/ BookDiscovery(b) \/ DropSelection(b)

ThreadSpec == ThreadInit /\ [][ThreadNext]_threadVars
-----------------------------------------------------------------------------
DiscoveryRow ==
  [status : Open \cup {"booked", "expired", "cancelled"}, source : Task,
   revision : Nat, lapsed : BOOLEAN,
   meeting : {"none", "tentative", "past", "cancelled"}]

ThreadTypeOK ==
  /\ conversation \in {"active", "reply_received", "opted_out"}
  /\ optedOut \in BOOLEAN /\ permitted \in BOOLEAN
  /\ cursor \in 0..MaxReplies /\ assessed \in [Reply -> {"none", "noted", "applied"}]
  /\ action \in [Task -> Kind \cup {"none"}] /\ due \in [Task -> Due]
  /\ completed \subseteq Task /\ dated \in BOOLEAN /\ backfilled \in BOOLEAN
  /\ timer \in [Task -> {"none", "queued", "running", "cancelled", "completed"}]
  /\ overdue \in [Task -> {"none", "detected", "resolved"}]
  /\ response \in [Task -> {"none", "pending", "approved", "claimed", "sent",
                            "uncertain", "settled", "cancelled"}]
  /\ checked \subseteq Task
  /\ discovery \in [Discovery -> DiscoveryRow \cup {NoDiscovery}]
  /\ case \in [Discovery -> {"none", "detected", "resolved"}]

\* Nothing that is settled calls for the owner's attention: an overdue reply task is
\* the newest and not done, and a discovery with an open incident is neither booked
\* nor cancelled, whatever crossed while the job ran or was run again
\* (replyTriage.ts:46, clientDiscovery.ts:139).
CasesAreCurrent ==
  /\ \A t \in Task : overdue[t] = "detected" => t = NewestTask /\ t \notin completed
  /\ \A d \in Discovery :
       case[d] = "detected" => discovery[d].status \in Open \cup {"expired"}

\* One reply is answered at most once: a second response, for a revised action, is
\* not even prepared once an attempt at the first may have got through
\* (replyMail.ts:55).
OneResponsePerReply ==
  \A t, u \in Task :
    t # u /\ t[1] = u[1] => {response[t], response[u]} \cap {"none", "cancelled"} # {}
=============================================================================
