------------------------ MODULE Conversations_proofs -------------------------
(* Theorems about ClientThread and CandidateReviews for any number of      *)
(* replies, actions, discoveries, questionnaires, answers and versions of  *)
(* the evidence.                                                           *)
EXTENDS ClientThread, CandidateReviews, FiniteSetTheorems, TLAPS

-----------------------------------------------------------------------------
(* The conversation with a client: its newest task.                        *)

TimerStatus == {"none", "queued", "running", "cancelled", "completed"}
OverdueStatus == {"none", "detected", "resolved"}
ResponseStatus == {"none", "pending", "approved", "claimed", "sent",
                   "uncertain", "settled", "cancelled"}

\* The type invariant of a conversation, one variable at a time.
LEMMA ThreadTypes ==
  ThreadTypeOK <=>
    /\ conversation \in {"active", "reply_received", "opted_out"}
    /\ optedOut \in BOOLEAN /\ permitted \in BOOLEAN
    /\ cursor \in 0..MaxReplies /\ assessed \in [Reply -> {"none", "noted", "applied"}]
    /\ action \in [Task -> Kind \cup {"none"}] /\ due \in [Task -> Due]
    /\ completed \subseteq Task /\ dated \in BOOLEAN /\ backfilled \in BOOLEAN
    /\ timer \in [Task -> TimerStatus] /\ overdue \in [Task -> OverdueStatus]
    /\ response \in [Task -> ResponseStatus] /\ checked \subseteq Task
    /\ discovery \in [Discovery -> DiscoveryRow \cup {NoDiscovery}]
    /\ case \in [Discovery -> OverdueStatus]
BY DEF ThreadTypeOK, TimerStatus, OverdueStatus, ResponseStatus

\* The number of outcomes recorded for a reply is within its bound.
LEMMA RevisionBound ==
  ASSUME NEW r PROVE Revision(r) \in 0..MaxActions
<1> DEFINE S == {n \in 1..MaxActions : action[<<r, n>>] # "none"}
<1>1. IsFiniteSet(1..MaxActions) /\ Cardinality(1..MaxActions) = MaxActions
  BY FS_Interval, ThreadAssumption
<1>2. IsFiniteSet(S) /\ Cardinality(S) <= MaxActions
  BY <1>1, FS_Subset
<1>3. Cardinality(S) \in Nat
  BY <1>2, FS_CardinalityType
<1> QED
  BY <1>2, <1>3, ThreadAssumption DEF Revision

\* The task of the newest reply is one, unless there is none.
LEMMA NewestIsTask ==
  ASSUME ThreadTypeOK, NewestTask # NoTask
  PROVE  NewestTask \in Task /\ NewestTask[1] = cursor
<1>1. cursor \in 1..MaxReplies
  BY ThreadAssumption DEF ThreadTypeOK, NewestTask
<1>2. Revision(cursor) \in 1..MaxActions
  BY RevisionBound, ThreadAssumption DEF NewestTask
<1>3. NewestTask = <<cursor, Revision(cursor)>>
  BY DEF NewestTask
<1> HIDE DEF NewestTask
<1> QED
  BY <1>1, <1>2, <1>3 DEF Task, Reply

\* It is what the cursor and the actions make it.
LEMMA NewestStays ==
  ASSUME UNCHANGED <<cursor, action>>
  PROVE  NewestTask' = NewestTask
BY DEF NewestTask, Revision

\* Clearing the newest task's timer and case gives well-typed ones, with no case open.
LEMMA ClearedType ==
  ASSUME ThreadTypeOK
  PROVE  /\ ClearedTimer \in [Task -> TimerStatus]
         /\ ClearedOverdue \in [Task -> OverdueStatus]
         /\ \A t \in Task : ClearedOverdue[t] # "detected"
BY ThreadTypes DEF ClearedTimer, ClearedOverdue, TimerStatus, OverdueStatus

\* Finishing a task keeps the types of tasks, timers and cases.
LEMMA FinishedType ==
  ASSUME ThreadTypeOK, NEW t \in Task, Finished(t)
  PROVE  /\ completed' \subseteq Task /\ dated' \in BOOLEAN
         /\ timer' \in [Task -> TimerStatus] /\ overdue' \in [Task -> OverdueStatus]
BY ClearedType, ThreadTypes DEF Finished, ClearReplyDeadline

\* Completing a task, newest or not, keeps the types of tasks, timers and cases.
LEMMA CompletesType ==
  ASSUME ThreadTypeOK, NEW t \in Task, Completes(t)
  PROVE  /\ completed' \subseteq Task /\ dated' \in BOOLEAN
         /\ timer' \in [Task -> TimerStatus] /\ overdue' \in [Task -> OverdueStatus]
BY FinishedType, ThreadTypes DEF Completes

\* A request that is there has a row; what becomes of one keeps its type.
LEMMA DiscoveryThere ==
  ASSUME ThreadTypeOK, NEW d \in Discovery, discovery[d].status # "none"
  PROVE  discovery[d] \in DiscoveryRow
BY ThreadTypes DEF NoDiscovery

\* Writing one discovery call changes that call only.
LEMMA DiscoverySet ==
  ASSUME ThreadTypeOK, NEW d \in Discovery, NEW row \in DiscoveryRow,
         discovery' = [discovery EXCEPT ![d] = row]
  PROVE  /\ discovery' \in [Discovery -> DiscoveryRow \cup {NoDiscovery}]
         /\ discovery'[d] = row
         /\ \A e \in Discovery \ {d} : discovery'[e] = discovery[e]
BY ThreadTypes

\* Moving a discovery call to another status changes that call only.
LEMMA DiscoveryMoved ==
  ASSUME ThreadTypeOK, NEW d \in Discovery, discovery[d].status # "none",
         NEW s \in Open \cup {"booked", "expired", "cancelled"},
         NEW m \in {"none", "tentative", "past", "cancelled"},
         discovery' = [discovery EXCEPT ![d].status = s, ![d].revision = @ + 1,
                                        ![d].meeting = m]
  PROVE  /\ discovery' \in [Discovery -> DiscoveryRow \cup {NoDiscovery}]
         /\ discovery'[d].status = s
         /\ \A e \in Discovery \ {d} : discovery'[e] = discovery[e]
<1>1. discovery[d] \in DiscoveryRow
  BY DiscoveryThere
<1> QED
  BY <1>1, ThreadTypes DEF DiscoveryRow

-----------------------------------------------------------------------------
(* Types of the conversation.                                              *)

\* The initial states of a conversation are well typed.
LEMMA ThreadTypeInit == ThreadInit => ThreadTypeOK
<1> SUFFICES ASSUME ThreadInit PROVE ThreadTypeOK
  OBVIOUS
<1>1. /\ conversation = "active" /\ optedOut = FALSE /\ permitted = TRUE
      /\ assessed = [r \in Reply |-> "none"] /\ completed = {} /\ checked = {}
      /\ timer = [t \in Task |-> "none"] /\ backfilled = FALSE
      /\ overdue = [t \in Task |-> "none"] /\ response = [t \in Task |-> "none"]
      /\ discovery = [d \in Discovery |-> NoDiscovery]
      /\ case = [d \in Discovery |-> "none"]
  BY DEF ThreadInit
<1>2. /\ cursor \in 0..MaxReplies /\ dated \in BOOLEAN
      /\ action \in [Task -> Kind \cup {"none"}] /\ due \in [Task -> Due]
  <2>1. \/ /\ cursor = 0 /\ dated = FALSE
           /\ action = [t \in Task |-> "none"] /\ due = [t \in Task |-> "none"]
        \/ /\ cursor = 1 /\ dated = TRUE
           /\ action = [t \in Task |-> IF t = <<1, 1>> THEN "prepare_response" ELSE "none"]
           /\ due = [t \in Task |-> IF t = <<1, 1>> THEN "ahead" ELSE "none"]
    BY DEF ThreadInit
  <2>2. cursor \in 0..MaxReplies
    BY <2>1, ThreadAssumption
  <2>3. action \in [Task -> Kind \cup {"none"}]
    BY <2>1 DEF Kind
  <2>4. due \in [Task -> Due]
    BY <2>1 DEF Due
  <2> QED
    BY <2>1, <2>2, <2>3, <2>4
<1> QED
  BY <1>1, <1>2 DEF ThreadTypeOK

\* Receiving and assessing replies keeps the types.
LEMMA ReplyTypes ==
  ASSUME ThreadTypeOK,
         \/ \E stop \in BOOLEAN : \/ ReceiveReply(stop)
                                  \/ \E r \in Reply : AssessReply(r, stop)
         \/ OptOutElsewhere \/ PermissionChanges
  PROVE  ThreadTypeOK'
<1>1. ASSUME NEW stop \in BOOLEAN, ReceiveReply(stop) PROVE ThreadTypeOK'
  <2>1. cursor' \in 0..MaxReplies
    BY <1>1, ThreadAssumption DEF ReceiveReply, ThreadTypeOK
  <2>2. optedOut' \in BOOLEAN
    BY <1>1, Zenon DEF ReceiveReply
  <2>3. conversation' \in {"active", "reply_received", "opted_out"}
    BY <1>1, Zenon DEF ReceiveReply
  <2>4. /\ timer' = ClearedTimer /\ overdue' = ClearedOverdue /\ dated' = FALSE
        /\ UNCHANGED <<permitted, assessed, action, due, completed, backfilled,
                      responseVars, discoveryVars>>
    BY <1>1 DEF ReceiveReply, ClearReplyDeadline
  <2> QED
    BY <2>1, <2>2, <2>3, <2>4, ClearedType
    DEF ThreadTypeOK, TimerStatus, OverdueStatus, responseVars, discoveryVars
<1>2. ASSUME NEW stop \in BOOLEAN, NEW r \in Reply, AssessReply(r, stop)
      PROVE  ThreadTypeOK'
  <2>1. /\ assessed' \in [Reply -> {"none", "noted", "applied"}]
        /\ UNCHANGED <<permitted, cursor, action, due, completed, backfilled,
                      responseVars, discoveryVars>>
    BY <1>2 DEF AssessReply, ThreadTypeOK
  <2>2. CASE /\ conversation' = "opted_out" /\ optedOut' = TRUE /\ dated' = FALSE
             /\ timer' = ClearedTimer /\ overdue' = ClearedOverdue
    BY <2>1, <2>2, ClearedType
    DEF ThreadTypeOK, TimerStatus, OverdueStatus, responseVars, discoveryVars
  <2>3. CASE UNCHANGED <<conversation, optedOut, dated, timer, overdue>>
    BY <2>1, <2>3 DEF ThreadTypeOK, responseVars, discoveryVars
  <2> QED
    BY <1>2, <2>2, <2>3 DEF AssessReply, ClearReplyDeadline
<1>3. CASE OptOutElsewhere
  BY <1>3 DEF OptOutElsewhere, replyVars, taskVars, responseVars, discoveryVars,
     ThreadTypeOK
<1>4. CASE PermissionChanges
  <2>1. permitted' \in BOOLEAN
    BY <1>4, Zenon DEF PermissionChanges
  <2>2. UNCHANGED <<conversation, optedOut, replyVars, taskVars, responseVars,
                    discoveryVars>>
    BY <1>4, Zenon DEF PermissionChanges
  <2> QED
    BY <2>1, <2>2 DEF replyVars, taskVars, responseVars, discoveryVars, ThreadTypeOK
<1> QED
  BY <1>1, <1>2, <1>3, <1>4

\* The outcome an owner records is a task of its own.
LEMMA RecordedTask ==
  ASSUME ThreadTypeOK, NEW kind \in Kind, NEW date \in Due, RecordReplyAction(kind, date)
  PROVE  <<cursor, Revision(cursor) + 1>> \in Task
<1>1. cursor \in 1..MaxReplies
  BY ThreadAssumption DEF RecordReplyAction, ThreadTypeOK
<1>2. Revision(cursor) + 1 \in 1..MaxActions
  BY RevisionBound, ThreadAssumption DEF RecordReplyAction
<1> QED
  BY <1>1, <1>2 DEF Task, Reply

\* Recording outcomes and running their deadlines keeps the types.
LEMMA TaskTypes ==
  ASSUME ThreadTypeOK,
         \/ BackfillDeadline
         \/ \E k \in Kind, date \in Due : RecordReplyAction(k, date)
         \/ \E t \in Task : DuePasses(t) \/ TakeTimer(t) \/ RunDeadline(t)
                            \/ CompleteReplyAction(t)
  PROVE  ThreadTypeOK'
<1> USE DEF Untouched, contactVars, replyVars, responseVars, discoveryVars
<1>1. CASE BackfillDeadline
  <2>1. timer' \in [Task -> TimerStatus] /\ backfilled' = TRUE
    BY <1>1, ThreadTypes DEF BackfillDeadline, TimerStatus
  <2>2. UNCHANGED <<action, due, completed, dated, overdue, Untouched>>
    BY <1>1 DEF BackfillDeadline
  <2> QED
    BY <2>1, <2>2 DEF ThreadTypeOK, TimerStatus
<1>2. ASSUME NEW k \in Kind, NEW date \in Due, RecordReplyAction(k, date)
      PROVE  ThreadTypeOK'
  <2> DEFINE t == <<cursor, Revision(cursor) + 1>>
  <2>1. t \in Task
    BY <1>2, RecordedTask
  <2>2. /\ action' = [action EXCEPT ![t] = k] /\ due' = [due EXCEPT ![t] = date]
        /\ timer' = [ClearedTimer EXCEPT ![t] =
             IF date = "none" \/ k \in Undated THEN "none" ELSE "queued"]
        /\ overdue' = ClearedOverdue
        /\ UNCHANGED <<completed, backfilled, Untouched>>
    BY <1>2 DEF RecordReplyAction
  <2>3. dated' \in BOOLEAN
    BY <1>2, Zenon DEF RecordReplyAction
  <2> HIDE DEF t
  <2>4. /\ action' \in [Task -> Kind \cup {"none"}] /\ due' \in [Task -> Due]
        /\ timer' \in [Task -> TimerStatus] /\ overdue' \in [Task -> OverdueStatus]
    BY <2>1, <2>2, ClearedType, ThreadTypes DEF TimerStatus
  <2> QED
    BY <2>2, <2>3, <2>4 DEF ThreadTypeOK, TimerStatus, OverdueStatus
<1>3. ASSUME NEW t \in Task, DuePasses(t) PROVE ThreadTypeOK'
  BY <1>3 DEF DuePasses, Due, ThreadTypeOK
<1>4. ASSUME NEW t \in Task, TakeTimer(t) PROVE ThreadTypeOK'
  BY <1>4 DEF TakeTimer, ThreadTypeOK
<1>5. ASSUME NEW t \in Task, RunDeadline(t) PROVE ThreadTypeOK'
  <2>1. timer' \in [Task -> TimerStatus]
    BY <1>5, ThreadTypes DEF RunDeadline, TimerStatus
  <2>2. overdue' \in [Task -> OverdueStatus]
    BY <1>5, ThreadTypes DEF RunDeadline, OverdueStatus
  <2>3. UNCHANGED <<action, due, completed, dated, backfilled, Untouched>>
    BY <1>5 DEF RunDeadline
  <2> QED
    BY <2>1, <2>2, <2>3 DEF ThreadTypeOK, TimerStatus, OverdueStatus
<1>6. ASSUME NEW t \in Task, CompleteReplyAction(t) PROVE ThreadTypeOK'
  <2>1. Finished(t) /\ UNCHANGED <<action, due, backfilled, Untouched>>
    BY <1>6 DEF CompleteReplyAction
  <2> QED
    BY <2>1, FinishedType DEF ThreadTypeOK, TimerStatus, OverdueStatus
<1> QED
  BY <1>1, <1>2, <1>3, <1>4, <1>5, <1>6

\* Preparing and sending responses keeps the types.
LEMMA ResponseTypes ==
  ASSUME ThreadTypeOK, NEW t \in Task,
         \/ PrepareResponse(t) \/ ResponseMoves(t)
         \/ ProviderAccepts(t) \/ ObserveReceipt(t)
  PROVE  ThreadTypeOK'
<1> USE DEF contactVars, replyVars, taskVars, discoveryVars
<1>1. CASE PrepareResponse(t)
  BY <1>1 DEF PrepareResponse, ThreadTypeOK
<1>2. CASE ResponseMoves(t)
  BY <1>2 DEF ResponseMoves, ThreadTypeOK
<1>3. CASE ProviderAccepts(t)
  <2>1. response' \in [Task -> ResponseStatus]
    BY <1>3, ThreadTypes DEF ProviderAccepts, ResponseStatus
  <2>2. Completes(t) /\ UNCHANGED <<contactVars, replyVars, action, due, backfilled,
                                    checked, discoveryVars>>
    BY <1>3 DEF ProviderAccepts
  <2> QED
    BY <2>1, <2>2, CompletesType
    DEF ThreadTypeOK, TimerStatus, OverdueStatus, ResponseStatus
<1>4. CASE ObserveReceipt(t)
  <2>1. checked' \subseteq Task
    BY <1>4 DEF ObserveReceipt, ThreadTypeOK
  <2>2. Completes(t) /\ UNCHANGED <<contactVars, replyVars, action, due, backfilled,
                                    response, discoveryVars>>
    BY <1>4 DEF ObserveReceipt
  <2> QED
    BY <2>1, <2>2, CompletesType DEF ThreadTypeOK, TimerStatus, OverdueStatus
<1> QED
  BY <1>1, <1>2, <1>3, <1>4

\* A resolved case is no longer open.
LEMMA ResolvedCase ==
  ASSUME NEW c \in OverdueStatus
  PROVE  Resolved(c) \in OverdueStatus /\ Resolved(c) # "detected"
BY DEF Resolved, OverdueStatus

\* Where the case of a request is open, the request is.
CasesOpen ==
  \A d \in Discovery : case[d] = "detected" => discovery[d].status \in Open \cup {"expired"}

\* What the operations of a discovery leave alone and what they keep.
LEMMA DiscoveryFrame ==
  ASSUME ThreadTypeOK, UNCHANGED <<contactVars, replyVars, taskVars, responseVars>>,
         discovery' \in [Discovery -> DiscoveryRow \cup {NoDiscovery}],
         case' \in [Discovery -> OverdueStatus]
  PROVE  ThreadTypeOK'
BY DEF contactVars, replyVars, taskVars, responseVars, ThreadTypeOK, OverdueStatus

\* What the owner and the client do to discovery calls, and what it leaves alone.
LEMMA DiscoveryEffect ==
  ASSUME ThreadTypeOK, CasesOpen, NEW d \in Discovery,
         \/ CreateDiscovery(d) \/ ClientResponds(d) \/ DiscoveryLapses(d)
         \/ DiscoveryDeadline(d) \/ CancelDiscovery(d)
  PROVE  /\ UNCHANGED <<contactVars, replyVars, taskVars, responseVars>>
         /\ discovery' \in [Discovery -> DiscoveryRow \cup {NoDiscovery}]
         /\ case' \in [Discovery -> OverdueStatus]
         /\ CasesOpen'
<1>1. CASE CreateDiscovery(d)
  <2>1. NewestTask \in Task
    BY <1>1, NewestIsTask DEF CreateDiscovery, DiscoverySource, Goal
  <2> DEFINE new == [NoDiscovery EXCEPT !.status = "pending", !.source = NewestTask,
                                        !.revision = 1]
             old(e) == [discovery[e] EXCEPT !.status = "expired", !.revision = @ + 1]
  <2>2. new \in DiscoveryRow /\ new.status = "pending"
    <3> HIDE DEF NewestTask
    <3> QED
      BY <2>1 DEF NoDiscovery, DiscoveryRow, Open
  <2>3. ASSUME NEW e \in Discovery, discovery[e].status \in Open
        PROVE  old(e) \in DiscoveryRow /\ old(e).status = "expired"
    <3> DEFINE was == discovery[e]
    <3>1. was \in DiscoveryRow
      BY <2>3, DiscoveryThere DEF Open
    <3> HIDE DEF was
    <3> DEFINE row == [was EXCEPT !.status = "expired", !.revision = was.revision + 1]
    <3>2. was.revision + 1 \in Nat
      BY <3>1 DEF DiscoveryRow
    <3>3. row \in DiscoveryRow /\ row.status = "expired"
      BY <3>1, <3>2 DEF DiscoveryRow
    <3> QED
      BY <3>3 DEF was
  <2>4. /\ discovery' = [e \in Discovery |->
             IF e = d THEN new ELSE IF discovery[e].status \in Open THEN old(e)
             ELSE discovery[e]]
        /\ case' = [e \in Discovery |->
             IF discovery[e].lapsed /\ discovery[e].status # "booked"
             THEN Resolved(case[e]) ELSE case[e]]
        /\ UNCHANGED <<contactVars, replyVars, taskVars, responseVars>>
    BY <1>1 DEF CreateDiscovery
  <2> HIDE DEF new, old
  <2>5. discovery' \in [Discovery -> DiscoveryRow \cup {NoDiscovery}]
    BY <2>2, <2>3, <2>4, ThreadTypes
  <2>6. case' \in [Discovery -> OverdueStatus]
    BY <2>4, ThreadTypes, ResolvedCase
  <2>7. CasesOpen'
    <3> SUFFICES ASSUME NEW e \in Discovery, case'[e] = "detected"
                 PROVE  discovery'[e].status \in Open \cup {"expired"}
      BY DEF CasesOpen
    <3>1. case[e] = "detected"
      BY <2>4, ThreadTypes, ResolvedCase
    <3> QED
      BY <2>2, <2>3, <2>4, <3>1 DEF CasesOpen, Open
  <2> QED
    BY <2>4, <2>5, <2>6, <2>7
<1>2. CASE ClientResponds(d)
  <2>1. discovery[d] \in DiscoveryRow
    BY <1>2, DiscoveryThere DEF ClientResponds
  <2> QED
    BY <1>2, <2>1, ThreadTypes DEF ClientResponds, DiscoveryRow, Open, CasesOpen
<1>3. CASE DiscoveryLapses(d)
  <2>1. discovery[d] \in DiscoveryRow
    BY <1>3, DiscoveryThere DEF DiscoveryLapses, Alive, Reserved, Open
  <2>2. /\ discovery' \in [Discovery -> DiscoveryRow \cup {NoDiscovery}]
        /\ discovery'[d].status = discovery[d].status
        /\ \A e \in Discovery \ {d} : discovery'[e] = discovery[e]
    <3>1. CASE discovery' = [discovery EXCEPT ![d].lapsed = TRUE]
      BY <2>1, <3>1, ThreadTypes DEF DiscoveryRow
    <3>2. CASE discovery' = [discovery EXCEPT ![d].meeting = "past"]
      BY <2>1, <3>2, ThreadTypes DEF DiscoveryRow
    <3> QED
      BY <1>3, <3>1, <3>2 DEF DiscoveryLapses
  <2>3. UNCHANGED <<contactVars, replyVars, taskVars, responseVars, case>>
    BY <1>3 DEF DiscoveryLapses
  <2> QED
    BY <2>2, <2>3, ThreadTypes DEF CasesOpen
<1>4. CASE DiscoveryDeadline(d)
  <2>1. discovery[d] \in DiscoveryRow
    BY <1>4, DiscoveryThere DEF DiscoveryDeadline, Open
  <2>2. case' \in [Discovery -> OverdueStatus]
        /\ \A e \in Discovery \ {d} : case'[e] = case[e]
    BY <1>4, ThreadTypes, ResolvedCase DEF DiscoveryDeadline, OverdueStatus, Resolved
  <2>3. /\ discovery' \in [Discovery -> DiscoveryRow \cup {NoDiscovery}]
        /\ discovery'[d].status = "expired"
        /\ \A e \in Discovery \ {d} : discovery'[e] = discovery[e]
    BY <1>4, <2>1, ThreadTypes DEF DiscoveryDeadline, DiscoveryRow
  <2> QED
    BY <1>4, <2>2, <2>3 DEF DiscoveryDeadline, CasesOpen
<1>5. CASE CancelDiscovery(d)
  <2>1. discovery[d] \in DiscoveryRow
    BY <1>5, DiscoveryThere DEF CancelDiscovery
  <2>2. case' = [case EXCEPT ![d] = Resolved(case[d])]
    BY <1>5 DEF CancelDiscovery
  <2>3. /\ case' \in [Discovery -> OverdueStatus] /\ case'[d] # "detected"
        /\ \A e \in Discovery \ {d} : case'[e] = case[e]
    BY <2>2, ThreadTypes, ResolvedCase
  <2>4. /\ discovery' \in [Discovery -> DiscoveryRow \cup {NoDiscovery}]
        /\ \A e \in Discovery \ {d} : discovery'[e] = discovery[e]
    BY <1>5, <2>1, ThreadTypes DEF CancelDiscovery, DiscoveryRow
  <2> QED
    BY <1>5, <2>3, <2>4 DEF CancelDiscovery, CasesOpen
<1> QED
  BY <1>1, <1>2, <1>3, <1>4, <1>5

\* What automatic selection does before it books, and what it leaves alone.
LEMMA SelectionEffect ==
  ASSUME ThreadTypeOK, CasesOpen, NEW b \in Selector,
         \/ \E d \in Discovery : ProposeDiscovery(b, d)
         \/ NoSlots(b) \/ DropSelection(b)
  PROVE  /\ UNCHANGED <<contactVars, replyVars, taskVars, responseVars>>
         /\ discovery' \in [Discovery -> DiscoveryRow \cup {NoDiscovery}]
         /\ case' \in [Discovery -> OverdueStatus]
         /\ CasesOpen'
<1>1. CASE (\E d \in Discovery : ProposeDiscovery(b, d)) \/ DropSelection(b)
  <2>1. UNCHANGED <<contactVars, replyVars, taskVars, responseVars, discovery, case>>
    BY <1>1 DEF ProposeDiscovery, DropSelection
  <2> QED
    BY <2>1, ThreadTypes DEF CasesOpen
<1>2. CASE NoSlots(b)
  <2> DEFINE d == selecting[b].request
  <2>1. /\ d \in Discovery /\ discovery[d].status \in Open
        /\ case' = [case EXCEPT ![d] = IF @ = "none" THEN "detected" ELSE @]
        /\ UNCHANGED <<contactVars, replyVars, taskVars, responseVars, discovery>>
    BY <1>2 DEF NoSlots, CurrentRequest, Alive
  <2> HIDE DEF d
  <2> QED
    BY <2>1, ThreadTypes DEF CasesOpen, OverdueStatus
<1> QED
  BY <1>1, <1>2

\* Booking a call finishes the newest task and moves that call only.
LEMMA BookEffect ==
  ASSUME ThreadTypeOK, CasesOpen, NEW b \in Selector, BookDiscovery(b)
  PROVE  /\ UNCHANGED <<contactVars, replyVars, action, due, backfilled, responseVars>>
         /\ NewestTask \in Task /\ Finished(NewestTask)
         /\ discovery' \in [Discovery -> DiscoveryRow \cup {NoDiscovery}]
         /\ case' \in [Discovery -> OverdueStatus]
         /\ CasesOpen'
<1> DEFINE d == selecting[b].request
<1>1. /\ d \in Discovery /\ discovery[d].status \in Open
      /\ DiscoverySource(discovery[d].source)
  BY DEF BookDiscovery, CurrentRequest, Alive
<1>2. /\ discovery' = [discovery EXCEPT ![d].status = "booked", ![d].revision = @ + 1,
                                        ![d].meeting = "tentative"]
      /\ case' = [case EXCEPT ![d] = Resolved(case[d])]
      /\ Finished(NewestTask)
      /\ UNCHANGED <<contactVars, replyVars, action, due, backfilled, responseVars>>
  BY DEF BookDiscovery
<1> HIDE DEF d
<1>3. NewestTask \in Task
  BY <1>1, NewestIsTask DEF DiscoverySource, Goal
<1>4. /\ discovery' \in [Discovery -> DiscoveryRow \cup {NoDiscovery}]
      /\ \A e \in Discovery \ {d} : discovery'[e] = discovery[e]
  BY <1>1, <1>2, DiscoveryMoved DEF Open
<1>5. /\ case' \in [Discovery -> OverdueStatus] /\ case'[d] # "detected"
      /\ \A e \in Discovery \ {d} : case'[e] = case[e]
  BY <1>1, <1>2, ThreadTypes, ResolvedCase
<1>6. CasesOpen'
  BY <1>4, <1>5 DEF CasesOpen
<1> QED
  BY <1>2, <1>3, <1>4, <1>5, <1>6

\* Every step of a conversation keeps its types.
LEMMA ThreadTypeStep ==
  ThreadTypeOK /\ CasesOpen /\ [ThreadNext]_threadVars => ThreadTypeOK'
<1> SUFFICES ASSUME ThreadTypeOK, CasesOpen, [ThreadNext]_threadVars PROVE ThreadTypeOK'
  OBVIOUS
<1>1. ASSUME NEW b \in Selector, BookDiscovery(b) PROVE ThreadTypeOK'
  BY <1>1, BookEffect, FinishedType
  DEF contactVars, replyVars, responseVars, ThreadTypeOK, TimerStatus, OverdueStatus
<1>2. CASE UNCHANGED threadVars
  BY <1>2 DEF threadVars, contactVars, replyVars, taskVars, responseVars, discoveryVars,
     ThreadTypeOK
<1> QED
  BY <1>1, <1>2, ReplyTypes, TaskTypes, ResponseTypes, DiscoveryEffect, SelectionEffect,
     DiscoveryFrame DEF ThreadNext

-----------------------------------------------------------------------------
(* Open cases are about what is open.                                      *)

\* Only the newest task, while it is not done, is overdue.
OverdueIsNewest ==
  \A t \in Task : overdue[t] = "detected" => t = NewestTask /\ t \notin completed

CaseInv == ThreadTypeOK /\ OverdueIsNewest /\ CasesOpen

\* Once the cases are cleared none is open.
LEMMA NothingOverdue ==
  ASSUME ThreadTypeOK, overdue' = ClearedOverdue
  PROVE  OverdueIsNewest'
<1>1. \A t \in Task : overdue'[t] # "detected"
  BY ClearedType
<1> QED
  BY <1>1 DEF OverdueIsNewest

\* The invariant about cases is one of the replies, tasks and cases alone.
LEMMA OverdueStays ==
  ASSUME OverdueIsNewest, UNCHANGED <<cursor, action, overdue, completed>>
  PROVE  OverdueIsNewest'
BY NewestStays DEF OverdueIsNewest

\* Every step keeps that an open case is about the newest outcome.
LEMMA OverdueStep == CaseInv /\ [ThreadNext]_threadVars => OverdueIsNewest'
<1> SUFFICES ASSUME CaseInv, [ThreadNext]_threadVars PROVE OverdueIsNewest'
  OBVIOUS
<1> USE DEF CaseInv
<1>1. ASSUME NEW stop \in BOOLEAN, ReceiveReply(stop) PROVE OverdueIsNewest'
  BY <1>1, NothingOverdue DEF ReceiveReply, ClearReplyDeadline
<1>2. ASSUME NEW stop \in BOOLEAN, NEW r \in Reply, AssessReply(r, stop)
      PROVE  OverdueIsNewest'
  <2>1. \/ overdue' = ClearedOverdue
        \/ UNCHANGED <<cursor, action, overdue, completed>>
    BY <1>2 DEF AssessReply, ClearReplyDeadline
  <2> QED
    BY <2>1, NothingOverdue, OverdueStays
<1>3. CASE OptOutElsewhere \/ PermissionChanges
  <2>1. UNCHANGED <<cursor, action, overdue, completed>>
    BY <1>3, Zenon DEF OptOutElsewhere, PermissionChanges, replyVars, taskVars
  <2> QED
    BY <2>1, OverdueStays
<1>4. ASSUME NEW k \in Kind, NEW date \in Due, RecordReplyAction(k, date)
      PROVE  OverdueIsNewest'
  BY <1>4, NothingOverdue DEF RecordReplyAction
<1>5. ASSUME NEW t \in Task, RunDeadline(t) PROVE OverdueIsNewest'
  <2>1. UNCHANGED <<cursor, action, completed>>
    BY <1>5 DEF RunDeadline, Untouched, replyVars
  <2>2. ASSUME NEW u \in Task, overdue'[u] = "detected"
        PROVE  u = NewestTask /\ u \notin completed
    <3>1. CASE StillDue(t) /\ overdue' = [overdue EXCEPT ![t] = "detected"]
      BY <2>2, <3>1, ThreadTypes DEF StillDue, OverdueIsNewest
    <3>2. CASE overdue' = overdue
      BY <2>2, <3>2 DEF OverdueIsNewest
    <3> QED
      BY <1>5, <3>1, <3>2 DEF RunDeadline
  <2> QED
    BY <2>1, <2>2, NewestStays DEF OverdueIsNewest
<1>6. ASSUME NEW t \in Task, CompleteReplyAction(t) PROVE OverdueIsNewest'
  BY <1>6, NothingOverdue DEF CompleteReplyAction, Finished, ClearReplyDeadline
<1>7. ASSUME NEW t \in Task, DuePasses(t) \/ TakeTimer(t) PROVE OverdueIsNewest'
  <2>1. UNCHANGED <<cursor, action, overdue, completed>>
    BY <1>7 DEF DuePasses, TakeTimer, Untouched, replyVars
  <2> QED
    BY <2>1, OverdueStays
<1>8. ASSUME NEW t \in Task, ProviderAccepts(t) \/ ObserveReceipt(t) PROVE OverdueIsNewest'
  <2>1. Completes(t) /\ UNCHANGED <<cursor, action>>
    BY <1>8 DEF ProviderAccepts, ObserveReceipt, replyVars
  <2>2. \/ overdue' = ClearedOverdue
        \/ UNCHANGED <<completed, overdue>>
    BY <2>1 DEF Completes, Finished, ClearReplyDeadline
  <2> QED
    BY <2>1, <2>2, NothingOverdue, OverdueStays
<1>9. ASSUME NEW t \in Task, PrepareResponse(t) \/ ResponseMoves(t) PROVE OverdueIsNewest'
  <2>1. UNCHANGED <<cursor, action, overdue, completed>>
    BY <1>9 DEF PrepareResponse, ResponseMoves, replyVars, taskVars
  <2> QED
    BY <2>1, OverdueStays
<1>10. ASSUME UNCHANGED <<contactVars, replyVars, taskVars, responseVars>>
       PROVE  OverdueIsNewest'
  BY <1>10, OverdueStays DEF replyVars, taskVars
<1>11. ASSUME NEW b \in Selector, BookDiscovery(b) PROVE OverdueIsNewest'
  BY <1>11, BookEffect, NothingOverdue DEF Finished, ClearReplyDeadline
<1>12. CASE UNCHANGED threadVars
  BY <1>10, <1>12 DEF threadVars
<1>13. CASE BackfillDeadline
  <2>1. UNCHANGED <<cursor, action, overdue, completed>>
    BY <1>13 DEF BackfillDeadline, Untouched, replyVars
  <2> QED
    BY <2>1, OverdueStays
<1> QED
  BY <1>1, <1>2, <1>3, <1>4, <1>5, <1>6, <1>7, <1>8, <1>9, <1>10, <1>11, <1>12, <1>13,
     DiscoveryEffect, SelectionEffect DEF ThreadNext

\* Every step keeps that only a discovery call still open, or lapsed, has an open case.
LEMMA CasesOpenStep == CaseInv /\ [ThreadNext]_threadVars => CasesOpen'
<1> SUFFICES ASSUME CaseInv, [ThreadNext]_threadVars PROVE CasesOpen'
  OBVIOUS
<1> USE DEF CaseInv
<1>1. ASSUME UNCHANGED discoveryVars PROVE CasesOpen'
  BY <1>1 DEF discoveryVars, CasesOpen
<1>2. ASSUME NEW stop \in BOOLEAN, NEW r \in Reply, AssessReply(r, stop)
      PROVE  UNCHANGED discoveryVars
  BY <1>2 DEF AssessReply
<1>3. ASSUME NEW stop \in BOOLEAN, ReceiveReply(stop) PROVE UNCHANGED discoveryVars
  BY <1>3 DEF ReceiveReply
<1>4. CASE OptOutElsewhere \/ PermissionChanges
  BY <1>1, <1>4, Zenon DEF OptOutElsewhere, PermissionChanges
<1>5. ASSUME NEW k \in Kind, NEW date \in Due, RecordReplyAction(k, date)
      PROVE  UNCHANGED discoveryVars
  BY <1>5 DEF RecordReplyAction, Untouched
<1>6. ASSUME BackfillDeadline PROVE UNCHANGED discoveryVars
  BY <1>6 DEF BackfillDeadline, Untouched
<1>7. ASSUME NEW t \in Task,
             DuePasses(t) \/ TakeTimer(t) \/ RunDeadline(t) \/ CompleteReplyAction(t)
      PROVE  UNCHANGED discoveryVars
  BY <1>7 DEF DuePasses, TakeTimer, RunDeadline, CompleteReplyAction, Untouched
<1>8. ASSUME NEW t \in Task,
             \/ PrepareResponse(t) \/ ResponseMoves(t) \/ ProviderAccepts(t)
             \/ ObserveReceipt(t)
      PROVE  UNCHANGED discoveryVars
  BY <1>8 DEF PrepareResponse, ResponseMoves, ProviderAccepts, ObserveReceipt
<1>9. CASE UNCHANGED threadVars
  BY <1>1, <1>9 DEF threadVars
<1> QED
  BY <1>1, <1>2, <1>3, <1>4, <1>5, <1>6, <1>7, <1>8, <1>9, BookEffect, DiscoveryEffect,
     SelectionEffect DEF ThreadNext

\* The invariant about cases holds initially.
LEMMA CaseInit == ThreadInit => CaseInv
<1> SUFFICES ASSUME ThreadInit PROVE CaseInv
  OBVIOUS
<1>1. /\ overdue = [t \in Task |-> "none"] /\ case = [d \in Discovery |-> "none"]
  BY DEF ThreadInit
<1> QED
  BY <1>1, ThreadTypeInit DEF CaseInv, OverdueIsNewest, CasesOpen

\* Every row, job and mail of a conversation has its type, and an open case is about
\* something open (replyTriage.ts, clientDiscovery.ts).
LEMMA CaseInvariant == ThreadSpec => []CaseInv
<1>1. CaseInv /\ [ThreadNext]_threadVars => CaseInv'
  BY ThreadTypeStep, OverdueStep, CasesOpenStep DEF CaseInv
<1> QED
  BY <1>1, CaseInit, PTL DEF ThreadSpec

\* Every row, job and mail of a conversation has its type (replyTriage.ts).
THEOREM ThreadTypeCorrect == ThreadSpec => []ThreadTypeOK
<1>1. CaseInv => ThreadTypeOK
  BY DEF CaseInv
<1> QED
  BY <1>1, CaseInvariant, PTL

\* Nothing that is settled calls for the owner's attention, whatever crossed while a
\* job ran or was run again (replyTriage.ts:46, clientDiscovery.ts:139).
THEOREM NothingSettledCalls == ThreadSpec => []CasesAreCurrent
<1>1. CaseInv => CasesAreCurrent
  BY DEF CaseInv, OverdueIsNewest, CasesOpen, CasesAreCurrent
<1> QED
  BY <1>1, CaseInvariant, PTL

-----------------------------------------------------------------------------
(* One response to a reply.                                                *)

\* Responses are at most one per reply while none starts to be used.
LEMMA ResponsesStay ==
  ASSUME OneResponsePerReply,
         \A t \in Task : response'[t] \in Unused \/ response[t] \notin Unused
  PROVE  OneResponsePerReply'
BY DEF OneResponsePerReply, Unused

\* No step gives a reply a second response.
LEMMA OneResponseStep ==
  ThreadTypeOK /\ OneResponsePerReply /\ [ThreadNext]_threadVars => OneResponsePerReply'
<1> SUFFICES ASSUME ThreadTypeOK, OneResponsePerReply, [ThreadNext]_threadVars
             PROVE  OneResponsePerReply'
  OBVIOUS
<1>1. ASSUME response' = response PROVE OneResponsePerReply'
  BY <1>1 DEF OneResponsePerReply
<1>2. ASSUME NEW t \in Task, PrepareResponse(t) PROVE OneResponsePerReply'
  <2>1. /\ response' = [response EXCEPT ![t] = "pending"]
        /\ \A n \in 1..MaxActions : response[<<t[1], n>>] \in Unused
    BY <1>2 DEF PrepareResponse
  <2>2. ASSUME NEW u \in Task, u[1] = t[1] PROVE response[u] \in Unused
    BY <2>1, <2>2 DEF Task
  <2> QED
    BY <2>1, <2>2, ThreadTypes DEF OneResponsePerReply, Unused
<1>3. ASSUME NEW t \in Task, ResponseMoves(t) \/ ProviderAccepts(t)
      PROVE  OneResponsePerReply'
  <2>1. /\ response[t] \notin Unused
        /\ \A u \in Task \ {t} : response'[u] = response[u]
    BY <1>3, ThreadTypes DEF ResponseMoves, ProviderAccepts, Unused
  <2> QED
    BY <2>1, ResponsesStay
<1>4. ASSUME NEW stop \in BOOLEAN, ReceiveReply(stop) PROVE response' = response
  BY <1>4 DEF ReceiveReply, responseVars
<1>5. ASSUME NEW stop \in BOOLEAN, NEW r \in Reply, AssessReply(r, stop)
      PROVE  response' = response
  BY <1>5 DEF AssessReply, responseVars
<1>6. ASSUME OptOutElsewhere \/ PermissionChanges PROVE response' = response
  BY <1>6, Zenon DEF OptOutElsewhere, PermissionChanges, responseVars
<1>7. ASSUME NEW k \in Kind, NEW date \in Due, RecordReplyAction(k, date)
      PROVE  response' = response
  BY <1>7 DEF RecordReplyAction, Untouched, responseVars
<1>8. ASSUME BackfillDeadline PROVE response' = response
  BY <1>8 DEF BackfillDeadline, Untouched, responseVars
<1>9. ASSUME NEW t \in Task,
             \/ DuePasses(t) \/ TakeTimer(t) \/ RunDeadline(t) \/ CompleteReplyAction(t)
             \/ ObserveReceipt(t)
      PROVE  response' = response
  BY <1>9 DEF DuePasses, TakeTimer, RunDeadline, CompleteReplyAction, ObserveReceipt,
     Untouched, responseVars
<1>10. ASSUME NEW d \in Discovery,
              \/ CreateDiscovery(d) \/ ClientResponds(d) \/ DiscoveryLapses(d)
              \/ DiscoveryDeadline(d) \/ CancelDiscovery(d)
       PROVE  response' = response
  BY <1>10 DEF CreateDiscovery, ClientResponds, DiscoveryLapses, DiscoveryDeadline,
     CancelDiscovery, responseVars
<1>11. ASSUME NEW b \in Selector,
              \/ \E d \in Discovery : ProposeDiscovery(b, d)
              \/ NoSlots(b) \/ BookDiscovery(b) \/ DropSelection(b)
       PROVE  response' = response
  BY <1>11 DEF ProposeDiscovery, NoSlots, BookDiscovery, DropSelection, responseVars
<1>12. CASE UNCHANGED threadVars
  BY <1>1, <1>12 DEF threadVars, responseVars
<1> QED
  BY <1>1, <1>2, <1>3, <1>4, <1>5, <1>6, <1>7, <1>8, <1>9, <1>10, <1>11, <1>12
  DEF ThreadNext

\* One reply is answered at most once: a second response, for a revised action, is not
\* even prepared once an attempt at the first may have got through (replyMail.ts:55).
THEOREM AnsweredOnce == ThreadSpec => []OneResponsePerReply
<1>1. ThreadInit => OneResponsePerReply
  <2> SUFFICES ASSUME ThreadInit PROVE OneResponsePerReply
    OBVIOUS
  <2>1. response = [t \in Task |-> "none"]
    BY DEF ThreadInit
  <2> QED
    BY <2>1 DEF OneResponsePerReply
<1> QED
  BY <1>1, OneResponseStep, ThreadTypeCorrect, PTL DEF ThreadSpec

-----------------------------------------------------------------------------
(* The rows of CandidateReviews.                                           *)

ReviewRow ==
  [status : {"none", "asked"}, source : 0..MaxSource, depth : 0..MaxDepth,
   live : BOOLEAN, expired : BOOLEAN, answer : 0..MaxAnswers, aged : BOOLEAN,
   outcomes : SUBSET {"adopted", "completed", "clarified"}, reviewed : 0..MaxAnswers,
   closed : {"no", "current", "stale"}, escalated : 0..MaxAnswers,
   missing : Incident, overdue : Incident,
   mail : {"none", "waiting", "sent", "cancelled"}]
JobStatus == Waiting \cup {"none", "running", "completed", "cancelled"}

\* The type invariant of the reviews, one variable at a time.
LEMMA ReviewTypes ==
  ReviewTypeOK <=>
    /\ source \in 1..MaxSource /\ open \in BOOLEAN
    /\ review \in [Review -> ReviewRow]
    /\ activity \in [of : Review \cup {"nothing"}, answer : 0..MaxAnswers]
    /\ task \in [Deadline -> JobStatus]
    /\ held \in [Deadline -> {"nothing", "claimed", "done", "deferred"}]
BY DEF ReviewTypeOK, ReviewRow, JobStatus

\* The row a new review starts with.
LEMMA AskedIsRow ==
  ASSUME ReviewTypeOK, NEW n \in 0..MaxDepth
  PROVE  /\ Asked(n) \in ReviewRow
         /\ Asked(n).status = "asked" /\ Asked(n).source = source /\ Asked(n).live
         /\ Asked(n).answer = 0 /\ Asked(n).outcomes = {} /\ Asked(n).mail = "none"
BY ReviewAssumption DEF Asked, ReviewTypeOK, ReviewRow, Incident

\* What each way of changing a row leaves as it was.
Kept(new, row) ==
  /\ new.status = row.status /\ new.source = row.source /\ new.answer = row.answer
  /\ new.outcomes = row.outcomes /\ new.reviewed = row.reviewed
  /\ new.escalated = row.escalated /\ new.closed = row.closed

\* Stopping a review's mail keeps its decision and its link.
LEMMA StoppedRow ==
  ASSUME NEW row \in ReviewRow
  PROVE  /\ Stopped(row) \in ReviewRow /\ Kept(Stopped(row), row)
         /\ Stopped(row).live = row.live /\ Stopped(row).mail # "waiting"
BY DEF Stopped, ReviewRow, Kept

\* Revoking a review's link keeps its decision.
LEMMA RevokedRow ==
  ASSUME NEW row \in ReviewRow
  PROVE  /\ Revoked(row) \in ReviewRow /\ Kept(Revoked(row), row)
         /\ ~Revoked(row).live /\ Revoked(row).mail # "waiting"
BY DEF Revoked, Stopped, ReviewRow, Kept

\* Resolving a review's cases keeps everything else of it.
LEMMA ResolvedRow ==
  ASSUME NEW row \in ReviewRow
  PROVE  /\ CasesResolved(row) \in ReviewRow /\ Kept(CasesResolved(row), row)
         /\ CasesResolved(row).live = row.live /\ CasesResolved(row).mail = row.mail
BY DEF CasesResolved, Cleared, ReviewRow, Incident, Kept

\* Recording an outcome adds it and keeps everything else of the review.
LEMMA OutcomeRow ==
  ASSUME NEW row \in ReviewRow, NEW kind \in {"adopted", "completed", "clarified"},
         NEW n \in 0..MaxAnswers
  PROVE  /\ Outcome(row, kind, n) \in ReviewRow
         /\ Outcome(row, kind, n).status = row.status
         /\ Outcome(row, kind, n).source = row.source
         /\ Outcome(row, kind, n).answer = row.answer
         /\ Outcome(row, kind, n).escalated = row.escalated
         /\ Outcome(row, kind, n).closed = row.closed
         /\ Outcome(row, kind, n).outcomes = row.outcomes \cup {kind}
         /\ Outcome(row, kind, n).reviewed = n
         /\ Outcome(row, kind, n).mail # "waiting"
<1> DEFINE was == Stopped(row)
           mid == [was EXCEPT !.outcomes = @ \cup {kind}, !.reviewed = n]
<1>1. was \in ReviewRow /\ Kept(was, row) /\ was.mail # "waiting"
  BY StoppedRow
<1>2. Outcome(row, kind, n) = CasesResolved(mid)
  BY DEF Outcome
<1> HIDE DEF was
<1>3. /\ mid \in ReviewRow
      /\ mid.status = row.status /\ mid.source = row.source /\ mid.answer = row.answer
      /\ mid.escalated = row.escalated /\ mid.closed = row.closed
      /\ mid.outcomes = row.outcomes \cup {kind} /\ mid.reviewed = n
      /\ mid.mail # "waiting"
  BY <1>1 DEF ReviewRow, Kept
<1> HIDE DEF mid
<1> QED
  BY <1>2, <1>3, ResolvedRow DEF Kept

-----------------------------------------------------------------------------
(* The effect of each command on the rows.                                 *)

OnlyRow(r) == \A q \in Review \ {r} : review'[q] = review[q]

\* Writing one review changes that review only.
LEMMA RowSet ==
  ASSUME ReviewTypeOK, NEW r \in Review, NEW row \in ReviewRow,
         review' = [review EXCEPT ![r] = row]
  PROVE  /\ review' \in [Review -> ReviewRow] /\ OnlyRow(r) /\ review'[r] = row
BY ReviewTypes DEF OnlyRow

\* Commands that decide and answer nothing.
Quiet(r) ==
  \/ PrepareMail(r) \/ SendMail(r) \/ RejectMail(r) \/ Revoke(r)
  \/ LinkExpires(r) \/ AnswerAges(r) \/ ResolveByHand(r)

\* The actions that decide nothing keep the decision of the one review they touch.
LEMMA QuietEffect ==
  ASSUME ReviewTypeOK, NEW r \in Review, Quiet(r)
  PROVE  /\ review' \in [Review -> ReviewRow] /\ OnlyRow(r)
         /\ Kept(review'[r], review[r])
         /\ review'[r].live => review[r].live
         /\ review'[r].mail = "waiting" =>
              review[r].mail = "waiting" \/ review[r].answer = 0
         /\ UNCHANGED <<source, open, activity, task, held>>
<1>1. review \in [Review -> ReviewRow] /\ review[r] \in ReviewRow
  BY ReviewTypes
<1>2. CASE PrepareMail(r)
  BY <1>1, <1>2 DEF PrepareMail, ReviewRow, Kept, OnlyRow
<1>3. CASE SendMail(r)
  BY <1>1, <1>3 DEF SendMail, ReviewRow, Kept, OnlyRow
<1>4. CASE RejectMail(r)
  <2> DEFINE was == [review[r] EXCEPT !.mail = "cancelled"]
  <2>1. was \in ReviewRow /\ Kept(was, review[r])
    BY <1>1 DEF ReviewRow, Kept
  <2>2. review' = [review EXCEPT ![r] = Revoked(was)]
    BY <1>4 DEF RejectMail
  <2> HIDE DEF was
  <2>3. Revoked(was) \in ReviewRow /\ Kept(Revoked(was), was)
        /\ ~Revoked(was).live /\ Revoked(was).mail # "waiting"
    BY <2>1, RevokedRow
  <2> QED
    BY <1>4, <2>1, <2>2, <2>3, RowSet DEF RejectMail, Kept
<1>5. CASE Revoke(r)
  <2>1. review' = [review EXCEPT ![r] = Revoked(review[r])]
    BY <1>5 DEF Revoke
  <2> QED
    BY <1>1, <1>5, <2>1, RevokedRow, RowSet DEF Revoke
<1>6. CASE LinkExpires(r)
  BY <1>1, <1>6 DEF LinkExpires, ReviewRow, Kept, OnlyRow
<1>7. CASE AnswerAges(r)
  BY <1>1, <1>7 DEF AnswerAges, ReviewRow, Kept, OnlyRow
<1>8. CASE ResolveByHand(r)
  <2>1. CASE review' = [review EXCEPT ![r].missing = Cleared(@)]
    BY <1>1, <1>8, <2>1 DEF ResolveByHand, ReviewRow, Kept, OnlyRow, Cleared, Incident
  <2>2. CASE review' = [review EXCEPT ![r].overdue = Cleared(@)]
    BY <1>1, <1>8, <2>2 DEF ResolveByHand, ReviewRow, Kept, OnlyRow, Cleared, Incident
  <2> QED
    BY <1>8, <2>1, <2>2 DEF ResolveByHand
<1> QED
  BY <1>2, <1>3, <1>4, <1>5, <1>6, <1>7, <1>8 DEF Quiet

\* An answer numbers itself and leaves the review asked for.
LEMMA RespondEffect ==
  ASSUME ReviewTypeOK, NEW r \in Review, Respond(r)
  PROVE  /\ review' \in [Review -> ReviewRow] /\ OnlyRow(r)
         /\ review'[r].status = "asked" /\ review'[r].source = review[r].source
         /\ review'[r].answer = review[r].answer + 1
         /\ review'[r].answer \in 1..MaxAnswers
         /\ review'[r].outcomes = review[r].outcomes
         /\ review'[r].closed = review[r].closed
         /\ review'[r].mail # "waiting"
<1> DEFINE was == Stopped(review[r])
           n == review[r].answer + 1
           mid == [was EXCEPT !.answer = n, !.aged = FALSE]
<1>1. review[r] \in ReviewRow
  BY ReviewTypes
<1>2. was \in ReviewRow /\ Kept(was, review[r]) /\ was.mail # "waiting"
  BY <1>1, StoppedRow
<1>3. review[r].status = "asked" /\ review[r].answer < MaxAnswers
  BY DEF Respond, LinkOpens, IsAsked
<1>4. n \in 1..MaxAnswers /\ n \in 0..MaxAnswers
  <2>1. review[r].answer \in 0..MaxAnswers
    BY <1>1 DEF ReviewRow
  <2> QED
    BY <1>3, <2>1, ReviewAssumption
<1>5. review' = [review EXCEPT ![r] = CasesResolved(mid)]
  BY DEF Respond, AnswerRecorded
<1> HIDE DEF was, n
<1>6. /\ mid \in ReviewRow
      /\ mid.status = was.status /\ mid.source = was.source /\ mid.closed = was.closed
      /\ mid.answer = n /\ mid.outcomes = was.outcomes
      /\ mid.mail # "waiting"
  BY <1>2, <1>4 DEF ReviewRow
<1> HIDE DEF mid
<1>7. CasesResolved(mid) \in ReviewRow /\ Kept(CasesResolved(mid), mid)
      /\ CasesResolved(mid).mail = mid.mail
  BY <1>6, ResolvedRow
<1>8. review'[r] = CasesResolved(mid) /\ review' \in [Review -> ReviewRow] /\ OnlyRow(r)
  BY <1>5, <1>7, RowSet
<1> QED
  BY <1>2, <1>3, <1>4, <1>6, <1>7, <1>8 DEF Kept, n

\* An escalation touches the review whose deadline passed, and decides nothing.
LEMMA EscalateEffect ==
  ASSUME ReviewTypeOK, NEW d \in Deadline, EscalateDeadline(d)
  PROVE  /\ review' \in [Review -> ReviewRow] /\ OnlyRow(d.of)
         /\ review'[d.of].status = review[d.of].status
         /\ review'[d.of].source = review[d.of].source
         /\ review'[d.of].answer = review[d.of].answer
         /\ review'[d.of].outcomes = review[d.of].outcomes
         /\ review'[d.of].reviewed = review[d.of].reviewed
         /\ review'[d.of].live => review[d.of].live
         /\ review'[d.of].mail # "waiting"
         /\ d.kind = "review" => /\ review'[d.of].escalated = review[d.of].answer
                                 /\ review'[d.of].closed = review[d.of].closed
                                 /\ d.answer = review[d.of].answer
         /\ d.kind = "expiry" =>
              /\ review'[d.of].escalated = review[d.of].escalated
              /\ review'[d.of].closed = IF InScope(d.of) THEN "current" ELSE "stale"
              /\ review[d.of].closed = "no"
<1> DEFINE r == d.of
           was == Stopped(review[r])
           mid == Escalated(d, was)
<1>1. r \in Review /\ review[r] \in ReviewRow /\ d.kind \in {"expiry", "review"}
      /\ d.answer \in 0..MaxAnswers
  BY ReviewTypes DEF Deadline
<1>2. was \in ReviewRow /\ Kept(was, review[r]) /\ was.mail # "waiting"
      /\ was.live = review[r].live
  BY <1>1, StoppedRow
<1>3. review' = [review EXCEPT ![r] = Recorded(d, mid)]
  BY DEF EscalateDeadline
<1>4. /\ d.kind = "review" => d.answer = review[r].answer
      /\ d.kind = "expiry" => review[r].closed = "no"
  BY DEF EscalateDeadline, Superseded, Processed
<1> HIDE DEF was
<1>5. /\ mid \in ReviewRow /\ Kept(mid, was)
      /\ mid.live = was.live /\ mid.mail = was.mail
  <2>1. CASE ~Calls(d)
    BY <2>1, <1>2, ResolvedRow DEF Escalated
  <2>2. CASE Calls(d) /\ d.kind = "expiry"
    BY <2>2, <1>2 DEF Escalated, ReviewRow, Kept, Incident
  <2>3. CASE Calls(d) /\ d.kind = "review"
    BY <2>3, <1>2 DEF Escalated, ReviewRow, Kept, Incident
  <2> QED
    BY <1>1, <2>1, <2>2, <2>3
<1> HIDE DEF mid, r
<1>6. CASE d.kind = "expiry"
  <2> DEFINE new == [mid EXCEPT !.live = FALSE,
                                !.closed = IF InScope(r) THEN "current" ELSE "stale"]
  <2>1. /\ new \in ReviewRow
        /\ new.status = mid.status /\ new.source = mid.source /\ new.answer = mid.answer
        /\ new.outcomes = mid.outcomes /\ new.reviewed = mid.reviewed
        /\ new.escalated = mid.escalated /\ ~new.live /\ new.mail = mid.mail
        /\ new.closed = IF InScope(r) THEN "current" ELSE "stale"
    BY <1>5 DEF ReviewRow
  <2>2. review' = [review EXCEPT ![r] = new]
    BY <1>3, <1>6 DEF Recorded, r
  <2> HIDE DEF new
  <2>3. review'[r] = new /\ review' \in [Review -> ReviewRow] /\ OnlyRow(r)
    BY <1>1, <2>1, <2>2, RowSet
  <2> QED
    BY <1>2, <1>4, <1>5, <1>6, <2>1, <2>3 DEF Kept, r
<1>7. CASE d.kind = "review"
  <2> DEFINE new == [mid EXCEPT !.escalated = d.answer]
  <2>1. /\ new \in ReviewRow
        /\ new.status = mid.status /\ new.source = mid.source /\ new.answer = mid.answer
        /\ new.outcomes = mid.outcomes /\ new.reviewed = mid.reviewed
        /\ new.escalated = d.answer /\ new.live = mid.live /\ new.mail = mid.mail
        /\ new.closed = mid.closed
    BY <1>1, <1>5 DEF ReviewRow
  <2>2. review' = [review EXCEPT ![r] = new]
    BY <1>3, <1>7 DEF Recorded
  <2> HIDE DEF new
  <2>3. review'[r] = new /\ review' \in [Review -> ReviewRow] /\ OnlyRow(r)
    BY <1>1, <2>1, <2>2, RowSet
  <2> QED
    BY <1>2, <1>4, <1>5, <1>7, <2>1, <2>3 DEF Kept, r
<1> QED
  BY <1>1, <1>6, <1>7

\* What the owner decides about answer n of review r, in row `row'.
DecidedRow(row, r, kind, n) ==
  /\ row.status = review[r].status /\ row.source = review[r].source
  /\ row.answer = review[r].answer /\ row.outcomes = {kind} /\ row.reviewed = n
  /\ row.escalated = review[r].escalated /\ row.closed = review[r].closed
  /\ row.mail # "waiting"

Outcomes == {"adopted", "completed", "clarified"}

\* The row a decision leaves.
LEMMA DecidedOutcome ==
  ASSUME ReviewTypeOK, NEW r \in Review, NEW n \in 1..MaxAnswers,
         NEW kind \in Outcomes, review[r].outcomes = {}
  PROVE  /\ Outcome(review[r], kind, n) \in ReviewRow
         /\ DecidedRow(Outcome(review[r], kind, n), r, kind, n)
<1> DEFINE row == review[r]
           new == Outcome(row, kind, n)
<1>1. row \in ReviewRow /\ row.outcomes \cup {kind} = {kind}
  BY ReviewTypes
<1>2. n \in 0..MaxAnswers /\ kind \in {"adopted", "completed", "clarified"}
  BY ReviewAssumption DEF Outcomes
<1> HIDE DEF row
<1>3. /\ new \in ReviewRow
      /\ new.status = row.status /\ new.source = row.source /\ new.answer = row.answer
      /\ new.escalated = row.escalated /\ new.closed = row.closed
      /\ new.outcomes = row.outcomes \cup {kind} /\ new.reviewed = n
      /\ new.mail # "waiting"
  BY SMTT(30), <1>1, <1>2, OutcomeRow
<1> HIDE DEF new
<1>4. new \in ReviewRow /\ DecidedRow(new, r, kind, n)
  BY <1>1, <1>3 DEF DecidedRow, row
<1> QED
  BY <1>4 DEF new, row

\* The row a decision leaves that also revokes the link.
LEMMA DecidedRevoked ==
  ASSUME ReviewTypeOK, NEW r \in Review, NEW n \in 1..MaxAnswers,
         NEW kind \in Outcomes, review[r].outcomes = {}
  PROVE  LET row == Revoked(Outcome(review[r], kind, n))
         IN  row \in ReviewRow /\ DecidedRow(row, r, kind, n) /\ ~row.live
<1> DEFINE was == Outcome(review[r], kind, n)
<1>1. was \in ReviewRow /\ DecidedRow(was, r, kind, n)
  BY DecidedOutcome
<1> HIDE DEF was
<1>2. Revoked(was) \in ReviewRow /\ Kept(Revoked(was), was)
      /\ ~Revoked(was).live /\ Revoked(was).mail # "waiting"
  BY <1>1, RevokedRow
<1> QED
  BY <1>1, <1>2 DEF DecidedRow, Kept, was

\* Creating a review fills an empty row.
LEMMA CreateEffect ==
  ASSUME ReviewTypeOK, NEW r \in Review, Create(r)
  PROVE  /\ review' \in [Review -> ReviewRow] /\ OnlyRow(r)
         /\ review[r].status = "none"
         /\ review'[r] = Asked(0)
<1>1. review[r] \in ReviewRow
  BY ReviewTypes
<1>2. 0 \in 0..MaxDepth
  BY ReviewAssumption
<1>3. Asked(0) \in ReviewRow
  BY <1>2, AskedIsRow
<1>4. review' = [review EXCEPT ![r] = Asked(0)]
  BY DEF Create
<1> QED
  BY <1>1, <1>3, <1>4, RowSet DEF Create, IsAsked, ReviewRow

\* Adopting an answer decides its review.
LEMMA AdoptEffect ==
  ASSUME ReviewTypeOK, NEW r \in Review, NEW n \in 1..MaxAnswers, Adopt(r, n)
  PROVE  /\ review' \in [Review -> ReviewRow] /\ OnlyRow(r)
         /\ DecidedRow(review'[r], r, "adopted", n)
<1>1. review[r].outcomes = {}
  BY DEF Adopt, Reviewable
<1>2. review' = [review EXCEPT ![r] = Outcome(review[r], "adopted", n)]
  BY DEF Adopt
<1> QED
  BY <1>1, <1>2, DecidedOutcome, RowSet DEF Outcomes

\* Completing a review decides it and ends its link.
LEMMA CompleteEffect ==
  ASSUME ReviewTypeOK, NEW r \in Review, NEW n \in 1..MaxAnswers, Complete(r, n)
  PROVE  /\ review' \in [Review -> ReviewRow] /\ OnlyRow(r)
         /\ DecidedRow(review'[r], r, "completed", n) /\ ~review'[r].live
<1>1. review[r].outcomes = {}
  BY DEF Complete, CurrentResponse, Reviewable
<1>2. review' = [review EXCEPT ![r] = Revoked(Outcome(review[r], "completed", n))]
  BY DEF Complete
<1> QED
  BY <1>1, <1>2, DecidedRevoked, RowSet DEF Outcomes

\* A clarification decides its review and asks anew in a child of its own.
LEMMA ClarifyEffect ==
  ASSUME ReviewTypeOK, NEW r \in Review, NEW n \in 1..MaxAnswers, NEW child \in Review,
         Clarify(r, n, child)
  PROVE  /\ review' \in [Review -> ReviewRow] /\ child # r
         /\ \A q \in Review \ {r, child} : review'[q] = review[q]
         /\ DecidedRow(review'[r], r, "clarified", n) /\ ~review'[r].live
         /\ review[child].status = "none"
         /\ \E depth \in 0..MaxDepth : review'[child] = Asked(depth)
<1> DEFINE new == Revoked(Outcome(review[r], "clarified", n))
           depth == review[r].depth + 1
<1>1. review[r].outcomes = {}
  BY DEF Clarify, CurrentResponse, Reviewable
<1>2. child # r /\ review[child].status = "none"
  BY ReviewTypes DEF Clarify, CurrentResponse, Reviewable, IsAsked, ReviewRow
<1>3. depth \in 0..MaxDepth
  <2>1. review[r].depth \in 0..MaxDepth
    BY ReviewTypes DEF ReviewRow
  <2> QED
    BY <2>1, ReviewAssumption DEF Clarify
<1>4. new \in ReviewRow /\ DecidedRow(new, r, "clarified", n) /\ ~new.live
  BY <1>1, DecidedRevoked DEF Outcomes
<1>5. Asked(depth) \in ReviewRow
  BY <1>3, AskedIsRow
<1>6. review' = [review EXCEPT ![r] = new, ![child] = Asked(depth)]
  BY DEF Clarify
<1> HIDE DEF new, depth
<1>7. review' \in [Review -> ReviewRow] /\ review'[r] = new /\ review'[child] = Asked(depth)
      /\ \A q \in Review \ {r, child} : review'[q] = review[q]
  BY <1>2, <1>4, <1>5, <1>6, ReviewTypes
<1> QED
  BY <1>2, <1>3, <1>4, <1>7

-----------------------------------------------------------------------------
(* The jobs.                                                               *)

\* Dropping the tasks of a review leaves the others' alone and removes none from the queue.
LEMMA DroppedTasks ==
  ASSUME ReviewTypeOK, NEW r \in Review
  PROVE  /\ TasksDropped(r) \in [Deadline -> JobStatus]
         /\ \A d \in Deadline :
              /\ d.of # r => TasksDropped(r)[d] = task[d]
              /\ TasksDropped(r)[d] = "none" <=> task[d] = "none"
BY ReviewTypes DEF TasksDropped, JobStatus, Waiting

\* Enqueueing a deadline inserts its task unless it is there.
LEMMA EnqueuedTasks ==
  ASSUME NEW tasks \in [Deadline -> JobStatus], NEW d \in Deadline
  PROVE  /\ Enqueued(tasks, d) \in [Deadline -> JobStatus]
         /\ Enqueued(tasks, d)[d] = IF tasks[d] = "none" THEN "queued" ELSE tasks[d]
         /\ \A e \in Deadline \ {d} : Enqueued(tasks, d)[e] = tasks[e]
BY DEF Enqueued, JobStatus, Waiting

\* What identifies the two deadlines of a review.
LEMMA DeadlineIs ==
  ASSUME NEW r \in Review, NEW n \in 0..MaxAnswers
  PROVE  /\ Owed(r, n) \in Deadline /\ Expiry(r) \in Deadline
         /\ Owed(r, n).of = r /\ Owed(r, n).kind = "review" /\ Owed(r, n).answer = n
         /\ Expiry(r).of = r /\ Expiry(r).kind = "expiry"
         /\ \A d \in Deadline :
              d.of = r /\ d.kind = "review" /\ d.answer = n => d = Owed(r, n)
BY ReviewAssumption DEF Owed, Expiry, Deadline

-----------------------------------------------------------------------------
(* Types.                                                                  *)

\* The initial states of the reviews are well typed.
LEMMA ReviewTypeInit == ReviewInit => ReviewTypeOK
<1> SUFFICES ASSUME ReviewInit PROVE ReviewTypeOK
  OBVIOUS
<1>1. NoReview \in ReviewRow
  <2>1. source \in 0..MaxSource /\ 0 \in 0..MaxDepth /\ 0 \in 0..MaxAnswers
    BY ReviewAssumption DEF ReviewInit
  <2>2. Asked(0) \in ReviewRow
    BY <2>1 DEF Asked, ReviewRow, Incident
  <2>3. 0 \in 0..MaxSource
    BY ReviewAssumption
  <2> QED
    BY <2>2, <2>3 DEF NoReview, ReviewRow
<1>2. 1 \in 1..MaxSource /\ 0 \in 0..MaxAnswers
  BY ReviewAssumption
<1> QED
  BY <1>1, <1>2, ReviewTypes DEF ReviewInit, Nothing, JobStatus

\* What a worker does with the job of a deadline, the escalation apart.
JobStep(d) ==
  \/ Claim(d) \/ SkipDeadline(d) \/ DeferDeadline(d) \/ Settle(d)
  \/ LeaseExpires(d) \/ Retry(d) \/ Die(d)

\* What a worker does to a deadline's task keeps the types.
LEMMA JobTypes ==
  ASSUME ReviewTypeOK, NEW d \in Deadline, JobStep(d)
  PROVE  ReviewTypeOK'
<1>1. UNCHANGED <<source, open, review, activity>>
  BY DEF JobStep, Claim, SkipDeadline, DeferDeadline, Settle, LeaseExpires, Retry, Die
<1>2. task' \in [Deadline -> JobStatus]
  BY ReviewTypes DEF JobStep, Claim, SkipDeadline, DeferDeadline, Settle, LeaseExpires,
     Retry, Die, JobStatus, Waiting
<1>3. held' \in [Deadline -> {"nothing", "claimed", "done", "deferred"}]
  BY ReviewTypes DEF JobStep, Claim, SkipDeadline, DeferDeadline, Settle, LeaseExpires,
     Retry, Die, Learn
<1> QED
  BY <1>1, <1>2, <1>3 DEF ReviewTypeOK, JobStatus

\* Every step of the reviews keeps their types.
LEMMA ReviewTypeStep == ReviewTypeOK /\ [ReviewNext]_reviewVars => ReviewTypeOK'
<1> SUFFICES ASSUME ReviewTypeOK, [ReviewNext]_reviewVars PROVE ReviewTypeOK'
  OBVIOUS
<1> USE ReviewAssumption
<1>1. ASSUME NEW r \in Review, Quiet(r) PROVE ReviewTypeOK'
  BY <1>1, QuietEffect, ReviewTypes DEF ReviewTypeOK, ReviewRow
<1>2. ASSUME NEW r \in Review, Create(r) PROVE ReviewTypeOK'
  <2>1. task' \in [Deadline -> JobStatus]
    BY <1>2, ReviewTypes, EnqueuedTasks, DeadlineIs DEF Create, Deadline, Expiry
  <2> QED
    BY <1>2, <2>1, CreateEffect DEF Create, ReviewTypeOK, ReviewRow, JobStatus
<1>3. ASSUME NEW r \in Review, Respond(r) PROVE ReviewTypeOK'
  <2>1. /\ review' \in [Review -> ReviewRow]
        /\ review'[r].answer \in 0..MaxAnswers
    BY <1>3, RespondEffect
  <2>2. task' \in [Deadline -> JobStatus]
    BY <1>3, <2>1, ReviewTypes, EnqueuedTasks, DeadlineIs DEF Respond
  <2>3. activity' \in [of : Review \cup {"nothing"}, answer : 0..MaxAnswers]
    BY <1>3, <2>1 DEF Respond
  <2> QED
    BY <1>3, <2>1, <2>2, <2>3 DEF Respond, ReviewTypeOK, ReviewRow, JobStatus
<1>4. ASSUME NEW r \in Review, NEW n \in 1..MaxAnswers, Adopt(r, n) PROVE ReviewTypeOK'
  <2>1. task' \in [Deadline -> JobStatus]
    BY <1>4, DroppedTasks DEF Adopt
  <2>2. source' \in 1..MaxSource /\ n \in 0..MaxAnswers
    BY <1>4 DEF Adopt, ReviewTypeOK
  <2> QED
    BY <1>4, <2>1, <2>2, AdoptEffect DEF Adopt, ReviewTypeOK, ReviewRow, JobStatus
<1>5. ASSUME NEW r \in Review, NEW n \in 1..MaxAnswers, Complete(r, n) PROVE ReviewTypeOK'
  <2>1. task' \in [Deadline -> JobStatus]
    BY <1>5, DroppedTasks DEF Complete
  <2>2. n \in 0..MaxAnswers
    OBVIOUS
  <2> QED
    BY <1>5, <2>1, <2>2, CompleteEffect DEF Complete, ReviewTypeOK, ReviewRow, JobStatus
<1>6. ASSUME NEW r \in Review, NEW n \in 1..MaxAnswers, NEW c \in Review, Clarify(r, n, c)
      PROVE  ReviewTypeOK'
  <2>1. task' \in [Deadline -> JobStatus]
    <3>1. Expiry(c) \in Deadline
      BY DEF Expiry, Deadline
    <3> QED
      BY <1>6, <3>1, DroppedTasks, EnqueuedTasks DEF Clarify
  <2>2. activity' \in [of : Review \cup {"nothing"}, answer : 0..MaxAnswers]
    BY <1>6 DEF Clarify
  <2> QED
    BY <1>6, <2>1, <2>2, ClarifyEffect DEF Clarify, ReviewTypeOK, ReviewRow, JobStatus
<1>7. ASSUME NEW d \in Deadline, EscalateDeadline(d) PROVE ReviewTypeOK'
  <2>1. task' \in [Deadline -> JobStatus]
    BY <1>7, ReviewTypes, DroppedTasks DEF EscalateDeadline, DroppedIfStale, Deadline
  <2>2. held' \in [Deadline -> {"nothing", "claimed", "done", "deferred"}]
    BY <1>7 DEF EscalateDeadline, Learn, ReviewTypeOK
  <2>3. review' \in [Review -> ReviewRow]
    BY <1>7, EscalateEffect
  <2>4. UNCHANGED <<source, open, activity>>
    BY <1>7 DEF EscalateDeadline
  <2> QED
    BY <2>1, <2>2, <2>3, <2>4 DEF ReviewTypeOK, ReviewRow, JobStatus
<1>8. CASE SourceChanges
  BY <1>8 DEF SourceChanges, ReviewTypeOK
<1>10. CASE RoleChanges
  <2>1. UNCHANGED <<source, review, activity, task, held>>
    BY <1>10, Zenon DEF RoleChanges
  <2>2. open' \in BOOLEAN
    BY <1>10, Zenon DEF RoleChanges
  <2> QED
    BY <2>1, <2>2 DEF ReviewTypeOK
<1>9. CASE UNCHANGED reviewVars
  BY <1>9 DEF reviewVars, ReviewTypeOK
<1> QED
  BY <1>1, <1>2, <1>3, <1>4, <1>5, <1>6, <1>7, <1>8, <1>9, <1>10, JobTypes
  DEF ReviewNext, Quiet, JobStep

\* Every row, event and job of the questionnaires has its type (candidateReview.ts).
THEOREM ReviewTypeCorrect == ReviewSpec => []ReviewTypeOK
<1> QED
  BY ReviewTypeInit, ReviewTypeStep, PTL DEF ReviewSpec

-----------------------------------------------------------------------------
(* A review is decided once, and an answer is timed.                       *)

\* A review has one outcome, for the answer it has; the link of a decided one leads
\* nowhere, since it was revoked or the evidence is newer.
RowSound(r) ==
  /\ review[r].source <= source
  /\ review[r].outcomes # {} =>
       /\ \E kind \in Outcomes : review[r].outcomes = {kind}
       /\ review[r].reviewed = review[r].answer
       /\ ~review[r].live \/ review[r].source < source
  /\ review[r].answer > 0 => review[r].mail # "waiting"
  /\ review[r].status = "none" => review[r].answer = 0

\* The job d has nothing left to do.
Settled(d) ==
  \/ d.answer # review[d.of].answer \/ review[d.of].outcomes # {}
  \/ review[d.of].escalated = d.answer \/ review[d.of].closed = "stale"

\* The job of an answer comes with the answer; whoever is done with it leaves it
\* settled, and until then it is in the queue.
JobSound(d) ==
  d.kind = "review" =>
    /\ d.answer = 0 \/ d.answer > review[d.of].answer => task[d] = "none"
    /\ held[d] # "nothing" => task[d] # "none"
    /\ held[d] = "done" => Settled(d)
    /\ d.answer > 0 => Settled(d) \/ Pending(d)

ReviewInv ==
  /\ ReviewTypeOK
  /\ \A r \in Review : RowSound(r)
  /\ \A d \in Deadline : JobSound(d)

\* A review that no step touches stays sound, however often the source changes.
LEMMA RowStays ==
  ASSUME ReviewTypeOK, NEW r \in Review, RowSound(r), review'[r] = review[r],
         source' = source \/ source' = source + 1
  PROVE  RowSound(r)'
<1>1. review[r].source \in Int /\ source \in Int
  BY ReviewTypes, ReviewAssumption DEF ReviewRow
<1> QED
  BY <1>1 DEF RowSound

\* A deadline whose review and task no step touches stays sound.
LEMMA JobStays ==
  ASSUME ReviewTypeOK, NEW d \in Deadline, JobSound(d), review'[d.of] = review[d.of],
         task'[d] = task[d], held'[d] = held[d]
  PROVE  JobSound(d)'
BY DEF JobSound, Settled, Pending

\* The invariant of the reviews holds initially.
LEMMA SoundInit == ReviewInit => ReviewInv
<1> SUFFICES ASSUME ReviewInit PROVE ReviewInv
  OBVIOUS
<1>1. \A r \in Review : /\ review[r].source = 0 /\ review[r].outcomes = {}
                        /\ review[r].answer = 0 /\ review[r].status = "none"
  BY DEF ReviewInit, NoReview, Asked
<1>2. \A r \in Review : RowSound(r)
  BY <1>1 DEF RowSound, ReviewInit
<1>3. ASSUME NEW d \in Deadline PROVE JobSound(d)
  <2>1. d.of \in Review
    BY DEF Deadline
  <2> QED
    BY <1>1, <2>1 DEF JobSound, Settled, ReviewInit
<1> QED
  BY <1>2, <1>3, ReviewTypeInit DEF ReviewInv

\* Actions that decide nothing keep the reviews sound.
LEMMA SoundQuiet ==
  ASSUME ReviewInv, NEW r \in Review, Quiet(r)
  PROVE  (\A q \in Review : RowSound(q)') /\ (\A d \in Deadline : JobSound(d)')
<1> USE DEF ReviewInv
<1>1. ASSUME NEW q \in Review PROVE RowSound(q)'
  BY <1>1, QuietEffect, RowStays DEF OnlyRow, Kept, RowSound
<1>2. ASSUME NEW d \in Deadline PROVE JobSound(d)'
  <2>1. d.of \in Review /\ task' = task /\ held' = held
    BY QuietEffect DEF Deadline
  <2>2. CASE d.of # r
    BY <2>1, <2>2, QuietEffect, JobStays DEF OnlyRow
  <2>3. CASE d.of = r
    BY <2>1, <2>3, QuietEffect DEF JobSound, Settled, Pending, Kept
  <2> QED
    BY <2>2, <2>3
<1> QED
  BY <1>1, <1>2

\* Creating a review keeps the reviews sound.
LEMMA SoundCreate ==
  ASSUME ReviewInv, NEW r \in Review, Create(r)
  PROVE  (\A q \in Review : RowSound(q)') /\ (\A d \in Deadline : JobSound(d)')
<1> USE DEF ReviewInv
<1>1. /\ review'[r].status = "asked" /\ review'[r].source = source /\ source' = source
      /\ review'[r].answer = 0 /\ review'[r].outcomes = {} /\ review[r].answer = 0
  <2>1. 0 \in 0..MaxDepth
    BY ReviewAssumption
  <2>2. source' = source
    BY DEF Create
  <2>3. review[r].answer = 0
    BY CreateEffect DEF RowSound
  <2> QED
    BY <2>1, <2>2, <2>3, CreateEffect, AskedIsRow
<1>2. ASSUME NEW q \in Review PROVE RowSound(q)'
  <2>1. CASE q # r
    BY <1>1, <2>1, CreateEffect, RowStays DEF OnlyRow
  <2>2. CASE q = r
    BY <1>1, <2>2, ReviewTypes DEF RowSound
  <2> QED
    BY <2>1, <2>2
<1>3. ASSUME NEW d \in Deadline PROVE JobSound(d)'
  <2>1. CASE d.kind = "review"
    <3>1. d.of \in Review /\ d.answer \in Int
      BY ReviewAssumption DEF Deadline
    <3>2. task'[d] = task[d] /\ held' = held
      BY SMTT(30), <2>1, EnqueuedTasks, DeadlineIs, ReviewTypes, ReviewAssumption DEF Create
    <3>3. CASE d.of # r
      BY <3>1, <3>2, <3>3, CreateEffect, JobStays DEF OnlyRow
    <3>4. CASE d.of = r
      BY <1>1, <3>1, <3>2, <3>4 DEF JobSound, Settled
    <3> QED
      BY <3>3, <3>4
  <2> QED
    BY <2>1 DEF JobSound
<1> QED
  BY <1>2, <1>3

\* The client's answer keeps the reviews sound: it comes with its deadline's task.
LEMMA SoundRespond ==
  ASSUME ReviewInv, NEW r \in Review, Respond(r)
  PROVE  (\A q \in Review : RowSound(q)') /\ (\A d \in Deadline : JobSound(d)')
<1> USE DEF ReviewInv
<1>1. source' = source /\ held' = held /\ LinkOpens(r)
      /\ task' = Enqueued(task, Owed(r, review'[r].answer))
  BY DEF Respond
<1>2. review[r].outcomes = {}
  BY <1>1, ReviewTypes, ReviewAssumption DEF LinkOpens, InScope, RowSound, ReviewRow
<1>3. ASSUME NEW q \in Review PROVE RowSound(q)'
  <2>1. CASE q # r
    BY <1>1, <2>1, RespondEffect, RowStays DEF OnlyRow
  <2>2. CASE q = r
    BY <1>1, <1>2, <2>2, RespondEffect DEF RowSound
  <2> QED
    BY <2>1, <2>2
<1>4. ASSUME NEW d \in Deadline, d.kind = "review" PROVE JobSound(d)'
  <2> DEFINE n == review'[r].answer
  <2>1. /\ d.of \in Review /\ d.answer \in Int
        /\ review[r].answer \in Int /\ n = review[r].answer + 1 /\ n \in 0..MaxAnswers
    BY RespondEffect, ReviewTypes, ReviewAssumption DEF Deadline, ReviewRow
  <2>2. CASE d.of # r
    <3>2. Owed(r, n) \in Deadline /\ Owed(r, n) # d
      BY <2>1, <2>2, DeadlineIs
    <3>1. task'[d] = task[d]
      BY <1>1, <3>2, EnqueuedTasks, ReviewTypes
    <3> QED
      BY <1>1, <2>1, <2>2, <3>1, RespondEffect, JobStays DEF OnlyRow
  <2>3. CASE d.of = r /\ d.answer = n
    <3>1. d = Owed(r, n) /\ n > 0
      BY <1>4, <2>1, <2>3, DeadlineIs, RespondEffect
    <3>2. task[d] = "none" /\ held[d] = "nothing"
      BY <1>4, <2>1, <2>3 DEF JobSound
    <3>3. task'[d] = "queued"
      BY <1>1, <3>1, <3>2, EnqueuedTasks, ReviewTypes
    <3> QED
      BY <1>1, <2>1, <2>3, <3>1, <3>2, <3>3, ReviewTypes
      DEF JobSound, Pending, Waiting
  <2>4. CASE d.of = r /\ d.answer # n
    <3>1. task'[d] = task[d]
      BY SMTT(30), <1>1, <2>1, <2>4, EnqueuedTasks, DeadlineIs, ReviewTypes
    <3> QED
      BY <1>1, <1>4, <2>1, <2>4, <3>1 DEF JobSound, Settled
  <2> QED
    BY <2>2, <2>3, <2>4
<1> QED
  BY <1>3, <1>4 DEF JobSound

\* The row r is decided, and no link to it opens any more; its waiting jobs go.
LEMMA SoundDecided ==
  ASSUME ReviewInv, NEW r \in Review, NEW n \in 1..MaxAnswers, NEW kind \in Outcomes,
         review[r].answer = n, DecidedRow(review'[r], r, kind, n),
         \/ ~review'[r].live /\ source' = source
         \/ source' = source + 1
  PROVE  /\ RowSound(r)'
         /\ \A d \in Deadline :
              d.of = r /\ held'[d] = held[d] /\ (task'[d] = "none" <=> task[d] = "none")
              => JobSound(d)'
<1> USE DEF ReviewInv
<1>1. review[r].source \in Int /\ source \in Int
  BY ReviewTypes, ReviewAssumption DEF ReviewRow
<1>2. RowSound(r)'
  BY <1>1 DEF RowSound, DecidedRow
<1>3. review'[r].outcomes # {} /\ review'[r].answer = review[r].answer
  BY DEF DecidedRow
<1> QED
  BY <1>2, <1>3 DEF JobSound, Settled

\* Adopting and completing keep the reviews sound.
LEMMA SoundAdoptComplete ==
  ASSUME ReviewInv, NEW r \in Review, NEW n \in 1..MaxAnswers,
         Adopt(r, n) \/ Complete(r, n)
  PROVE  (\A q \in Review : RowSound(q)') /\ (\A d \in Deadline : JobSound(d)')
<1> USE DEF ReviewInv
<1>1. /\ OnlyRow(r) /\ task' = TasksDropped(r) /\ held' = held /\ review[r].answer = n
      /\ source' = source \/ source' = source + 1
  BY AdoptEffect, CompleteEffect DEF Adopt, Complete, CurrentResponse, Reviewable
<1>2. \E kind \in Outcomes : DecidedRow(review'[r], r, kind, n)
  BY AdoptEffect, CompleteEffect DEF Outcomes
<1>3. \/ ~review'[r].live /\ source' = source
      \/ source' = source + 1
  BY CompleteEffect DEF Adopt, Complete
<1>4. RowSound(r)' /\ \A d \in Deadline : d.of = r => JobSound(d)'
  BY <1>1, <1>2, <1>3, SoundDecided, DroppedTasks
<1>5. ASSUME NEW q \in Review PROVE RowSound(q)'
  BY <1>1, <1>4, RowStays DEF OnlyRow
<1>6. ASSUME NEW d \in Deadline PROVE JobSound(d)'
  <2>1. d.of \in Review
    BY DEF Deadline
  <2> QED
    BY <1>1, <1>4, <2>1, JobStays, DroppedTasks DEF OnlyRow
<1> QED
  BY <1>5, <1>6

\* A clarification keeps the reviews sound, its child's among them.
LEMMA SoundClarify ==
  ASSUME ReviewInv, NEW r \in Review, NEW n \in 1..MaxAnswers, NEW child \in Review,
         Clarify(r, n, child)
  PROVE  (\A q \in Review : RowSound(q)') /\ (\A d \in Deadline : JobSound(d)')
<1> USE DEF ReviewInv
<1>1. /\ task' = Enqueued(TasksDropped(r), Expiry(child)) /\ held' = held
      /\ review[r].answer = n /\ source' = source
  BY DEF Clarify, CurrentResponse, Reviewable
<1>2. /\ review'[child].status = "asked" /\ review'[child].source = source
      /\ review'[child].answer = 0 /\ review'[child].outcomes = {}
      /\ review[child].answer = 0
  BY ClarifyEffect, AskedIsRow DEF RowSound
<1>3. ASSUME NEW d \in Deadline, d.kind = "review"
      PROVE  /\ task'[d] = "none" <=> task[d] = "none"
             /\ d.of # r => task'[d] = task[d]
  <2>1. d # Expiry(child) /\ Expiry(child) \in Deadline
    BY <1>3, ReviewAssumption DEF Expiry, Deadline
  <2>2. task'[d] = TasksDropped(r)[d]
    BY <1>1, <2>1, EnqueuedTasks, DroppedTasks
  <2> QED
    BY <2>2, DroppedTasks
<1>4. RowSound(r)' /\ \A d \in Deadline : d.of = r /\ d.kind = "review" => JobSound(d)'
  BY <1>1, <1>3, ClarifyEffect, SoundDecided DEF Outcomes
<1>5. ASSUME NEW q \in Review PROVE RowSound(q)'
  <2>1. CASE q = child
    BY <1>1, <1>2, <2>1, ReviewTypes DEF RowSound
  <2>2. CASE q # child
    BY <1>1, <1>4, <2>2, ClarifyEffect, RowStays
  <2> QED
    BY <2>1, <2>2
<1>6. ASSUME NEW d \in Deadline, d.kind = "review", d.of # r PROVE JobSound(d)'
  <2>1. d.of \in Review /\ d.answer \in Int
    BY ReviewAssumption DEF Deadline
  <2>2. CASE d.of = child
    BY <1>1, <1>2, <1>3, <1>6, <2>1, <2>2 DEF JobSound, Settled
  <2>3. CASE d.of # child
    BY <1>1, <1>3, <1>6, <2>1, <2>3, ClarifyEffect, JobStays
  <2> QED
    BY <2>2, <2>3
<1> QED
  BY <1>4, <1>5, <1>6 DEF JobSound

\* An escalation keeps the reviews sound.
LEMMA SoundEscalate ==
  ASSUME ReviewInv, NEW e \in Deadline, EscalateDeadline(e)
  PROVE  (\A q \in Review : RowSound(q)') /\ (\A d \in Deadline : JobSound(d)')
<1> USE DEF ReviewInv
<1> DEFINE r == e.of
<1>1. /\ r \in Review /\ e.kind \in {"expiry", "review"}
      /\ source' = source /\ held[e] = "claimed"
      /\ held' = [held EXCEPT ![e] = "done"] /\ task' = DroppedIfStale(r)
  BY DEF EscalateDeadline, Learn, Deadline
<1>2. ASSUME NEW q \in Review PROVE RowSound(q)'
  <2>1. CASE q # r
    BY <1>1, <2>1, EscalateEffect, RowStays DEF OnlyRow
  <2>2. CASE q = r
    BY <1>1, <2>2, EscalateEffect DEF RowSound
  <2> QED
    BY <2>1, <2>2
<1>3. ASSUME NEW d \in Deadline, d.kind = "review" PROVE JobSound(d)'
  <2>1. d.of \in Review /\ d.answer \in Int
    BY ReviewAssumption DEF Deadline
  <2>2. /\ task'[d] = "none" <=> task[d] = "none"
        /\ d.of # r \/ InScope(r) => task'[d] = task[d]
    BY <1>1, DroppedTasks DEF DroppedIfStale
  <2>3. CASE d.of # r
    <3>1. held'[d] = held[d]
      BY <1>1, <2>3, ReviewTypes
    <3> QED
      BY <1>1, <2>1, <2>2, <2>3, <3>1, EscalateEffect, JobStays DEF OnlyRow
  <2>4. CASE d.of = r
    <3>1. Settled(d) => Settled(d)'
      BY <1>1, <2>4, EscalateEffect DEF Settled
    <3>2. CASE d = e
      <4>1. Settled(d)'
        BY <1>3, <3>2, EscalateEffect DEF Settled
      <4>2. task[d] # "none"
        BY <1>1, <1>3, <3>2 DEF JobSound
      <4> QED
        BY <1>3, <2>2, <2>4, <4>1, <4>2, EscalateEffect DEF JobSound
    <3>3. CASE d # e
      <4>1. held'[d] = held[d]
        BY <1>1, <3>3, ReviewTypes
      <4>2. task'[d] # task[d] => Settled(d)'
        <5> SUFFICES ASSUME ~InScope(r) PROVE Settled(d)'
          BY <2>2
        <5>1. CASE e.kind = "expiry"
          BY <2>4, <5>1, EscalateEffect DEF Settled
        <5>2. CASE e.kind = "review"
          BY <2>4, <5>2, EscalateEffect DEF Settled
        <5> QED
          BY <1>1, <5>1, <5>2
      <4> QED
        BY <1>3, <2>2, <2>4, <3>1, <4>1, <4>2, EscalateEffect DEF JobSound, Pending
    <3> QED
      BY <3>2, <3>3
  <2> QED
    BY <2>3, <2>4
<1> QED
  BY <1>2, <1>3 DEF JobSound

\* What a worker does to a task keeps the reviews sound.
LEMMA SoundJob ==
  ASSUME ReviewInv, NEW e \in Deadline, JobStep(e)
  PROVE  (\A q \in Review : RowSound(q)') /\ (\A d \in Deadline : JobSound(d)')
<1> USE DEF ReviewInv
<1>1. UNCHANGED <<source, open, review, activity>>
  BY DEF JobStep, Claim, SkipDeadline, DeferDeadline, Settle, LeaseExpires, Retry, Die
<1>2. ASSUME NEW q \in Review PROVE RowSound(q)'
  BY <1>1, RowStays
<1>3. ASSUME NEW d \in Deadline, d # e PROVE JobSound(d)'
  <2>1. task'[d] = task[d] /\ held'[d] = held[d]
    BY <1>3, ReviewTypes DEF JobStep, Claim, SkipDeadline, DeferDeadline, Settle, Learn,
       LeaseExpires, Retry, Die
  <2> QED
    BY <1>1, <2>1, JobStays
<1>4. JobSound(e)'
  <2> SUFFICES ASSUME e.kind = "review" PROVE JobSound(e)'
    BY DEF JobSound
  <2>1. Settled(e)' <=> Settled(e)
    BY <1>1 DEF Settled
  <2>2. task[e] \in JobStatus /\ held[e] \in {"nothing", "claimed", "done", "deferred"}
    BY ReviewTypes
  <2>3. CASE Claim(e)
    BY <1>1, <2>1, <2>2, <2>3, ReviewTypes DEF Claim, JobSound, Pending, Waiting
  <2>4. CASE SkipDeadline(e)
    <3>1. Settled(e)
      BY <2>4 DEF SkipDeadline, Superseded, Processed, Settled
    <3> QED
      BY <1>1, <2>1, <2>4, <3>1, ReviewTypes DEF SkipDeadline, Learn, JobSound, Pending
  <2>5. CASE DeferDeadline(e)
    BY <1>1, <2>1, <2>5, ReviewTypes DEF DeferDeadline, Learn, JobSound, Pending
  <2>6. CASE Settle(e)
    BY <1>1, <2>1, <2>2, <2>6, ReviewTypes DEF Settle, Learn, JobSound, Pending, Waiting
  <2>7. CASE LeaseExpires(e)
    BY <1>1, <2>1, <2>7, ReviewTypes DEF LeaseExpires, JobSound, Pending, Waiting
  <2>8. CASE Retry(e)
    BY <1>1, <2>1, <2>8, ReviewTypes DEF Retry, JobSound, Pending, Waiting
  <2>9. CASE Die(e)
    BY <1>1, <2>1, <2>9, ReviewTypes DEF Die, Learn, JobSound, Pending
  <2> QED
    BY <2>3, <2>4, <2>5, <2>6, <2>7, <2>8, <2>9 DEF JobStep
<1> QED
  BY <1>2, <1>3, <1>4

\* Changes of sources and roles keep the reviews sound.
LEMMA SoundWorld ==
  ASSUME ReviewInv, SourceChanges \/ RoleChanges \/ UNCHANGED reviewVars
  PROVE  (\A q \in Review : RowSound(q)') /\ (\A d \in Deadline : JobSound(d)')
<1> USE DEF ReviewInv
<1>1. UNCHANGED <<review, task, held>>
  BY DEF SourceChanges, RoleChanges, reviewVars
<1>2. source' = source \/ source' = source + 1
  BY DEF SourceChanges, RoleChanges, reviewVars
<1> QED
  BY <1>1, <1>2, RowStays, JobStays

\* Every step keeps the invariant of the reviews.
LEMMA ReviewInvStep == ReviewInv /\ [ReviewNext]_reviewVars => ReviewInv'
<1> SUFFICES ASSUME ReviewInv, [ReviewNext]_reviewVars PROVE ReviewInv'
  OBVIOUS
<1>1. ReviewTypeOK'
  BY ReviewTypeStep DEF ReviewInv
<1>2. (\A q \in Review : RowSound(q)') /\ (\A d \in Deadline : JobSound(d)')
  BY SoundQuiet, SoundCreate, SoundRespond, SoundAdoptComplete, SoundClarify,
     SoundEscalate, SoundJob, SoundWorld
  DEF ReviewNext, Quiet, JobStep
<1> QED
  BY <1>1, <1>2 DEF ReviewInv

\* Sound reviews are final, and their answers are timed.
LEMMA SoundMeans == ReviewInv => ReviewIsFinal /\ AnswerIsTimed
<1> SUFFICES ASSUME ReviewInv PROVE ReviewIsFinal /\ AnswerIsTimed
  OBVIOUS
<1>1. ReviewIsFinal
  <2> SUFFICES ASSUME NEW r \in Review PROVE Cardinality(review[r].outcomes) <= 1
    BY DEF ReviewInv, RowSound, ReviewIsFinal
  <2>1. CASE review[r].outcomes = {}
    BY <2>1, FS_EmptySet
  <2>2. CASE review[r].outcomes # {}
    <3>1. PICK kind \in Outcomes : review[r].outcomes = {kind}
      BY <2>2 DEF ReviewInv, RowSound
    <3>2. Cardinality({kind}) = 1
      BY FS_Singleton
    <3> QED
      BY <3>1, <3>2
  <2> QED
    BY <2>1, <2>2
<1>2. AnswerIsTimed
  <2> SUFFICES ASSUME NEW r \in Review, review[r].answer > 0, review[r].outcomes = {}
               PROVE  \/ Pending(Owed(r, review[r].answer))
                      \/ review[r].escalated = review[r].answer
                      \/ review[r].closed = "stale"
    BY DEF AnswerIsTimed
  <2>1. review[r].answer \in 0..MaxAnswers
    BY ReviewTypes DEF ReviewInv, ReviewRow
  <2> QED
    BY <2>1, DeadlineIs DEF ReviewInv, JobSound, Settled
<1> QED
  BY <1>1, <1>2

\* Whatever the owner decides about a review is decided once and about its last
\* answer, and nothing that asks for an answer waits to be sent once there is one
\* (candidateReview.ts:59, candidateReviewOperations.ts:16).
THEOREM DecidedOnce == ReviewSpec => []ReviewIsFinal
<1>1. ReviewInit => ReviewInv
  BY SoundInit
<1> QED
  BY <1>1, ReviewInvStep, SoundMeans, PTL DEF ReviewSpec

\* An answer the owner has not reviewed comes up in the end: its job is left or was
\* processed (candidateReviewLifecycle.ts:27).
THEOREM AnswersComeUp == ReviewSpec => []AnswerIsTimed
<1>1. ReviewInit => ReviewInv
  BY SoundInit
<1> QED
  BY <1>1, ReviewInvStep, SoundMeans, PTL DEF ReviewSpec
=============================================================================
