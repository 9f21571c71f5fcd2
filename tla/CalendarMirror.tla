--------------------------- MODULE CalendarMirror ---------------------------
(***************************************************************************)
(* One saved meeting, an interview or a client discovery, and its copy in  *)
(* the owner's Google Calendar.  The connection is authorized, moved to    *)
(* another calendar and disconnected while syncs are under way; a sync is  *)
(* a chain of provider requests between short transactions, guarded by a   *)
(* lease of 90 seconds that may run out in the middle of it; people edit   *)
(* the event in Google meanwhile.                                          *)
(*                                                                         *)
(* What a sync writes is the preview it was asked for: the connection's    *)
(* revision and calendar and the meeting's content.  The worker is enabled,*)
(* one Google account is used, and error codes are left out.               *)
(***************************************************************************)
EXTENDS Integers

CONSTANTS
  Flow,            \* browser authorizations under way
  Sync,            \* sync requests under way, manual and automatic
  CalendarId,      \* calendars the owner may choose
  MaxVersion,      \* bound: changes of the meeting
  MaxRevision,     \* bound: revisions of the connection
  MaxPolicy,       \* bound: revisions of the automation policy
  MaxWrites        \* bound: writes the provider accepts

VARIABLES
  resource,        \* "interview" or "client_discovery"
  meeting,         \* its version and whether it is cancelled
  connection,      \* googleCalendarConnections row
  flow,            \* the authorization each flow is in
  policy,          \* calendarAutoSync, or discovery.calendar_policy
  stopped,         \* emergencyStop
  task,            \* google_calendar_sync jobs by idempotency key
  sync,            \* what each request is at
  remote,          \* the provider's event in each calendar
  binding,         \* the etag recorded for each calendar, 0 if there is none
  writes           \* writes the provider has accepted: the next etag

ownerVars == <<resource, meeting, stopped>>
connectVars == <<connection, flow>>
taskVars == <<policy, task>>
eventVars == <<remote, writes>>
mirrorVars == <<ownerVars, connectVars, taskVars, eventVars, sync, binding>>

Nobody == "nobody"
ASSUME MirrorAssumption == Nobody \notin Sync
NoFlow == [step |-> "none", revision |-> 0, overtaken |-> FALSE]
NoEvent == [content |-> [version |-> -2, cancelled |-> FALSE], etag |-> 0]
NoSync == [step |-> "none"]
Foreign == [version |-> -1, cancelled |-> FALSE]    \* what somebody typed in Google

Connected(c) ==
  [status |-> "active", revision |-> 1, calendar |-> c, tokens |-> TRUE,
   lease |-> Nobody, fresh |-> FALSE]
Disconnected(c) == [Connected(c) EXCEPT !.status = "disconnected", !.tokens = FALSE]

MirrorInit ==
  /\ resource \in {"interview", "client_discovery"}
  /\ meeting = [version |-> 0, cancelled |-> FALSE]
  /\ \E c \in CalendarId : connection \in {Disconnected(c), Connected(c)}
  /\ flow = [f \in Flow |-> NoFlow]
  /\ policy = [enabled |-> FALSE, revision |-> 0, connection |-> 0]
  /\ stopped = FALSE
  /\ task = [k \in {} |-> "none"]
  /\ sync = [s \in Sync |-> NoSync]
  /\ remote = [c \in CalendarId |-> NoEvent]
  /\ binding = [c \in CalendarId |-> 0]
  /\ writes = 0
-----------------------------------------------------------------------------
(* The connection.                                                         *)

Renew(fields) ==
  /\ connection.revision < MaxRevision
  /\ connection' = [fields EXCEPT !.revision = @ + 1, !.lease = Nobody]

\* Every outstanding state is consumed; an exchange that has taken its own goes on.
Overtake(f) ==
  IF flow[f].step = "claimed" THEN [flow[f] EXCEPT !.overtaken = TRUE] ELSE NoFlow

BeginConnect(f) ==
  /\ flow[f] = NoFlow /\ Renew(connection)
  /\ flow' = [g \in Flow |->
                IF g = f THEN [NoFlow EXCEPT !.step = "open",
                                             !.revision = connection.revision + 1]
                ELSE Overtake(g)]
  /\ UNCHANGED <<ownerVars, taskVars, eventVars, sync, binding>>

ClaimState(f) ==
  /\ flow[f].step = "open" /\ flow[f].revision = connection.revision
  /\ flow' = [flow EXCEPT ![f].step = "claimed"]
  /\ UNCHANGED <<ownerVars, connection, taskVars, eventVars, sync, binding>>

AnyConnection(f) == TRUE    \* mutant: the second look at the revision is missing
NotSuperseded(f) == connection.revision = flow[f].revision

CompleteConnect(f) ==
  /\ flow[f].step = "claimed" /\ flow' = [flow EXCEPT ![f] = NoFlow]
  /\ NotSuperseded(f)
  /\ Renew([connection EXCEPT !.status = "active", !.tokens = TRUE])
  /\ UNCHANGED <<ownerVars, taskVars, eventVars, sync, binding>>

\* The exchange fails, is superseded, or the browser never comes back.
AbandonConnect(f) ==
  /\ flow[f] # NoFlow /\ flow' = [flow EXCEPT ![f] = NoFlow]
  /\ UNCHANGED <<ownerVars, connection, taskVars, eventVars, sync, binding>>

ConfigureCalendar(c) ==
  /\ Renew([connection EXCEPT !.calendar = c])
  /\ UNCHANGED <<ownerVars, flow, taskVars, eventVars, sync, binding>>

DisconnectCalendar ==
  /\ Renew([connection EXCEPT !.status = "disconnected", !.tokens = FALSE])
  /\ flow' = [f \in Flow |-> Overtake(f)]
  /\ UNCHANGED <<ownerVars, taskVars, eventVars, sync, binding>>

LeaseRunsOut ==
  /\ connection.lease # Nobody /\ connection.fresh
  /\ connection' = [connection EXCEPT !.fresh = FALSE]
  /\ UNCHANGED <<ownerVars, flow, taskVars, eventVars, sync, binding>>
-----------------------------------------------------------------------------
(* The meeting, the automation policy and the tasks it admits.             *)

Preview(m) ==
  [revision |-> connection.revision, calendar |-> connection.calendar, meeting |-> m]
Granted(p) ==
  p.enabled /\ connection.status = "active" /\ connection.revision = p.connection
Key(p, m) == [policy |-> p.revision, preview |-> Preview(m)]

SetTask(k, status) == [j \in DOMAIN task \cup {k} |-> IF j = k THEN status ELSE task[j]]

\* enqueueCalendarSync, enqueueDiscoveryCalendarSync: once for a key.
Enqueue(p, m) ==
  task' = IF Granted(p) /\ Key(p, m) \notin DOMAIN task
          THEN SetTask(Key(p, m), "queued") ELSE task

\* A saved change of the meeting; a cancelled one stays so.
ChangeMeeting ==
  \E gone \in BOOLEAN :
    /\ ~meeting.cancelled /\ meeting.version < MaxVersion
    /\ meeting' = [version |-> meeting.version + 1, cancelled |-> gone]
    /\ Enqueue(policy, meeting')
    /\ UNCHANGED <<resource, stopped, connectVars, policy, eventVars, sync, binding>>

\* Only a discovery is synced on enabling; an interview waits for its next change.
ConfigureAutomation(on) ==
  /\ policy.revision < MaxPolicy
  /\ on => connection.status = "active" /\ (resource = "client_discovery" => ~stopped)
  /\ policy' = [enabled |-> on, revision |-> policy.revision + 1,
                connection |-> connection.revision]
  /\ IF resource = "client_discovery" THEN Enqueue(policy', meeting) ELSE task' = task
  /\ UNCHANGED <<ownerVars, connectVars, eventVars, sync, binding>>

SwitchStop ==
  /\ stopped' = ~stopped
  /\ UNCHANGED <<resource, meeting, connectVars, taskVars, eventVars, sync, binding>>
-----------------------------------------------------------------------------
(* A sync.                                                                 *)

Fresh(s) == connection.status = "active" /\ sync[s].preview = Preview(meeting)
Guard(s) ==
  /\ connection.status = "active" /\ connection.revision = sync[s].revision
  /\ connection.lease = s /\ connection.fresh
Authorized(s) ==
  sync[s].mode = "automatic" =>
    /\ Granted(policy) /\ policy.revision = sync[s].policy /\ ~stopped
    /\ resource = "client_discovery" => Fresh(s)
StillCurrent(s) == Authorized(s) /\ Guard(s) /\ Fresh(s)

NewSync(mode, p, preview, approved) ==
  [step |-> "asked", mode |-> mode, policy |-> p, preview |-> preview,
   revision |-> 0, data |-> NoEvent, approved |-> approved]
Doing(s, step) == sync[s].step = step
Proceed(s, step) == sync' = [sync EXCEPT ![s].step = step]
TaskOf(s) == [policy |-> sync[s].policy, preview |-> sync[s].preview]

\* finally: the lease is given back by its holder.
Release(s) == IF connection.lease = s THEN [connection EXCEPT !.lease = Nobody]
              ELSE connection
EndWith(s, status) ==
  /\ sync' = [sync EXCEPT ![s] = NoSync]
  /\ task' = IF sync[s].mode = "automatic" THEN SetTask(TaskOf(s), status) ELSE task
  /\ UNCHANGED <<ownerVars, policy, flow>>

\* The owner syncs what a preview showed, or a reviewed conflict with an event.
AskSync(s) ==
  /\ sync[s] = NoSync /\ connection.status = "active"
  /\ \E etag \in {0, remote[connection.calendar].etag} :
       sync' = [sync EXCEPT ![s] = NewSync("manual", 0, Preview(meeting), etag)]
  /\ UNCHANGED <<ownerVars, connectVars, taskVars, eventVars, binding>>

RunTask(s) ==
  \E k \in DOMAIN task :
    /\ sync[s] = NoSync /\ task[k] = "queued"
    /\ task' = SetTask(k, "running")
    /\ sync' = [sync EXCEPT ![s] = NewSync("automatic", k.policy, k.preview, 0)]
    /\ UNCHANGED <<ownerVars, connectVars, policy, eventVars, binding>>

\* withCalendar, after the admission of a task.
TakeLease(s) ==
  /\ Doing(s, "asked") /\ Authorized(s)
  /\ sync[s].mode = "automatic" => Fresh(s)
  /\ connection.status = "active" /\ connection.tokens
  /\ connection.lease = Nobody \/ ~connection.fresh
  /\ connection' = [connection EXCEPT !.lease = s, !.fresh = TRUE]
  /\ sync' = [sync EXCEPT ![s].step = "leased", ![s].revision = connection.revision]
  /\ UNCHANGED <<ownerVars, flow, taskVars, eventVars, binding>>

HeldLease(s) == TRUE    \* mutant: the revision is not looked at
HoldsLease(s) == connection.lease = s /\ connection.revision = sync[s].revision

\* Expiring tokens are exchanged and stored.
RefreshTokens(s) ==
  /\ Doing(s, "leased") /\ HoldsLease(s)
  /\ connection' = [connection EXCEPT !.tokens = TRUE]
  /\ UNCHANGED <<ownerVars, flow, taskVars, eventVars, sync, binding>>

\* The checks up to the provider's answer to the first GET.
FetchEvent(s) ==
  /\ Doing(s, "leased") /\ StillCurrent(s)
  /\ sync' = [sync EXCEPT ![s].step = "fetched", ![s].data = remote[connection.calendar]]
  /\ UNCHANGED <<ownerVars, connectVars, taskVars, eventVars, binding>>

Calendar(s) == sync[s].preview.calendar
Wanted(s) == sync[s].preview.meeting
Seen(s) == sync[s].data
SeenCancelled(s) == Seen(s) # NoEvent /\ Seen(s).content.cancelled

\* A cancelled meeting has no event, or its event is cancelled already.
NothingToCancel(s) ==
  /\ Doing(s, "fetched") /\ StillCurrent(s)
  /\ Wanted(s).cancelled /\ (Seen(s) = NoEvent \/ SeenCancelled(s))
  /\ EndWith(s, "done") /\ connection' = Release(s)
  /\ UNCHANGED <<eventVars, binding>>

CheckBeforeCreate(s) ==
  /\ Doing(s, "fetched") /\ StillCurrent(s)
  /\ Seen(s) = NoEvent /\ ~Wanted(s).cancelled
  /\ Proceed(s, "posting")
  /\ UNCHANGED <<ownerVars, connectVars, taskVars, eventVars, binding>>

Accept(c, content) ==
  /\ writes < MaxWrites /\ writes' = writes + 1
  /\ remote' = [remote EXCEPT ![c] = [content |-> content, etag |-> writes + 1]]

\* The POST creates the event, unless its id is taken; then the event is read.
PostEvent(s) ==
  /\ Doing(s, "posting")
  /\ IF remote[Calendar(s)] = NoEvent THEN Accept(Calendar(s), Wanted(s))
     ELSE UNCHANGED eventVars
  /\ sync' = [sync EXCEPT ![s].data = remote'[Calendar(s)],
       ![s].step = IF resource = "client_discovery" /\ remote[Calendar(s)] = NoEvent
                   THEN "created" ELSE "fetched"]
  /\ UNCHANGED <<ownerVars, connectVars, taskVars, binding>>

\* A discovery's event is bound as soon as it exists.
RecordCreation(s) ==
  /\ Doing(s, "created") /\ HoldsLease(s) /\ connection.status = "active"
  /\ binding' = [binding EXCEPT ![Calendar(s)] = Seen(s).etag]
  /\ Proceed(s, "fetched")
  /\ UNCHANGED <<ownerVars, connectVars, taskVars, eventVars>>

ApprovedOrUnseen(s) == TRUE    \* mutant: the recorded etag is not looked at

\* Nobody else has changed the event since it was bound, or the owner has
\* reviewed just this state of it.
Untouched(s) ==
  \/ sync[s].approved # 0
  \/ IF binding[Calendar(s)] # 0 THEN binding[Calendar(s)] = Seen(s).etag
     ELSE resource = "interview" \/ Seen(s).content = Wanted(s)
SameReview(s) == sync[s].approved \in {0, Seen(s).etag}

CheckBeforeUpdate(s) ==
  /\ Doing(s, "fetched") /\ StillCurrent(s)
  /\ Seen(s) # NoEvent /\ ~(Wanted(s).cancelled /\ SeenCancelled(s))
  /\ SameReview(s) /\ Untouched(s)
  /\ Proceed(s, "patching")
  /\ UNCHANGED <<ownerVars, connectVars, taskVars, eventVars, binding>>

MatchesAny(s) == TRUE    \* mutant: no If-Match
\* If-Match: the provider refuses a PATCH of any other state of the event.
Matches(s) == remote[Calendar(s)].etag = Seen(s).etag

PatchEvent(s) ==
  /\ Doing(s, "patching") /\ Matches(s)
  /\ Accept(Calendar(s), Wanted(s))
  /\ sync' = [sync EXCEPT ![s].data = remote'[Calendar(s)], ![s].step = "saved"]
  /\ UNCHANGED <<ownerVars, connectVars, taskVars, binding>>

\* The last transaction; a meeting that changed meanwhile fails the request.
RecordSync(s) ==
  /\ Doing(s, "saved") /\ Authorized(s) /\ Guard(s)
  /\ binding' = [binding EXCEPT ![Calendar(s)] = Seen(s).etag]
  /\ \E status \in IF Fresh(s) THEN {"done"} ELSE {"queued", "failed"} : EndWith(s, status)
  /\ connection' = Release(s)
  /\ UNCHANGED eventVars
-----------------------------------------------------------------------------
(* Failures.                                                               *)

\* A task that is out of date is cancelled; under the stop an interview's task is
\* cancelled on admission and a discovery's is put off.
Stale(s) == ~(Granted(policy) /\ policy.revision = sync[s].policy /\ Fresh(s))
DroppedUnderStop(s) == Stale(s) \/ stopped    \* mutant: a discovery's is cancelled as well
Dropped(s) ==
  IF resource = "client_discovery" THEN Stale(s)
  ELSE Doing(s, "asked") /\ (Stale(s) \/ stopped)
PutOff(s) == resource = "client_discovery" /\ stopped
Verdicts(s) ==
  IF sync[s].mode = "manual" THEN {"none"}
  ELSE IF Dropped(s) THEN {"cancelled"}
  ELSE IF PutOff(s) THEN {"queued"} ELSE {"queued", "failed"}

\* A check fails or a request does; what the provider did is not undone.
FailSync(s) ==
  /\ sync[s] # NoSync
  /\ \E status \in Verdicts(s) : EndWith(s, status)
  /\ connection' = Release(s)
  /\ UNCHANGED <<eventVars, binding>>

\* Google refuses the tokens: they are dropped, and the owner must reconnect.
LoseAuthorization(s) ==
  /\ sync[s] # NoSync /\ HoldsLease(s)
  /\ Renew([connection EXCEPT !.status = "needs_reconnect", !.tokens = FALSE])
  /\ \E status \in IF resource = "interview" THEN {"queued", "failed"}
                   ELSE {"cancelled"} : EndWith(s, status)
  /\ UNCHANGED <<eventVars, binding>>

\* The provider accepts a write whose answer never arrives.
LoseAnswer(s) ==
  /\ \/ Doing(s, "posting") /\ remote[Calendar(s)] = NoEvent
     \/ Doing(s, "patching") /\ Matches(s)
  /\ Accept(Calendar(s), Wanted(s))
  /\ \E status \in Verdicts(s) : EndWith(s, status)
  /\ connection' = Release(s) /\ UNCHANGED binding

\* The process dies: the lease runs out by itself, and a task comes back later.
CrashSync(s) ==
  /\ sync[s] # NoSync
  /\ \E status \in {"queued", "failed"} : EndWith(s, status)
  /\ UNCHANGED <<connection, eventVars, binding>>

\* Somebody changes or deletes the event in Google.
EditOutside ==
  \E c \in CalendarId, gone \in BOOLEAN :
    /\ remote[c] # NoEvent /\ Accept(c, [Foreign EXCEPT !.cancelled = gone])
    /\ UNCHANGED <<ownerVars, connectVars, taskVars, sync, binding>>
-----------------------------------------------------------------------------
MirrorNext ==
  \/ \E f \in Flow :
       BeginConnect(f) \/ ClaimState(f) \/ CompleteConnect(f) \/ AbandonConnect(f)
  \/ \E s \in Sync :
       \/ AskSync(s) \/ RunTask(s) \/ TakeLease(s) \/ RefreshTokens(s) \/ FetchEvent(s)
       \/ NothingToCancel(s) \/ CheckBeforeCreate(s) \/ PostEvent(s)
       \/ RecordCreation(s) \/ CheckBeforeUpdate(s) \/ PatchEvent(s) \/ RecordSync(s)
       \/ FailSync(s) \/ LoseAuthorization(s) \/ LoseAnswer(s) \/ CrashSync(s)
  \/ \E c \in CalendarId : ConfigureCalendar(c)
  \/ \E on \in BOOLEAN : ConfigureAutomation(on)
  \/ DisconnectCalendar \/ LeaseRunsOut \/ ChangeMeeting \/ SwitchStop \/ EditOutside

MirrorSpec == MirrorInit /\ [][MirrorNext]_mirrorVars
-----------------------------------------------------------------------------
(* Properties.                                                             *)

\* What somebody changed in Google is overwritten only when the owner reviewed that
\* very state of the event.  The exception is an interview's event that no record
\* binds yet, whose creation was never confirmed (googleCalendar.ts:207-212).
EditsSurvive ==
  [][\A c \in CalendarId :
       remote[c].content.version = -1 /\ remote'[c].content.version # -1 =>
           \/ \E s \in Sync : sync[s].step = "patching" /\ sync[s].approved = remote[c].etag
           \/ resource = "interview" /\ binding[c] = 0]_mirrorVars

\* While a discovery's automation is in force there is a task for what is saved now,
\* it is never taken for an outdated one, and once it is done the event in Google is
\* the saved one, whatever expired leases, crashes and lost answers there are
\* (discoveryCalendarAutomation.ts:45-56).  A late POST may still bring back the
\* event of a meeting that was cancelled meanwhile, so cancelled ones are left out.
MirrorCatchesUp ==
  resource = "client_discovery" /\ Granted(policy) =>
    LET k == Key(policy, meeting) IN
      /\ k \in DOMAIN task /\ task[k] # "cancelled"
      /\ task[k] = "done" /\ ~meeting.cancelled =>
           remote[connection.calendar].content \in
             {meeting, Foreign, [Foreign EXCEPT !.cancelled = TRUE]}

\* After a disconnect no tokens come back but those of an authorization begun since:
\* neither an exchange nor a refresh that was under way stores any
\* (googleCalendar.ts:91, 114).
DisconnectIsFinal ==
  [][connection'.tokens /\ ~connection.tokens =>
       \E f \in Flow : /\ flow[f].step = "claimed" /\ flow'[f] = NoFlow
                       /\ ~flow[f].overtaken]_mirrorVars
=============================================================================
