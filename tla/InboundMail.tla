---------------------------- MODULE InboundMail -----------------------------
(***************************************************************************)
(* The mail that comes in.  The provider's webhook reports each one until  *)
(* it is acknowledged, and the owner may record one as well.  A call reads *)
(* which conversation the mail belongs to, holding no lock, and files it   *)
(* there in a transaction under the workspace lock.                        *)
(*                                                                         *)
(* A conversation has one partner and at most one message of ours; what is *)
(* made of a filed reply is in ClientThread.  Malformed events, limits of  *)
(* the reads and the sequences that a reply stops are left out.            *)
(***************************************************************************)
EXTENDS Naturals, FiniteSets

CONSTANTS
  Mail, Correspondent, Conversation,
  Sender,        \* of each mail
  Partner,       \* of each conversation
  Stops,         \* mails that ask to be left alone
  Webhook, Desktop,  \* calls in flight for each mail: the provider's, the owner's
  MaxDeaths      \* bound

ASSUME MailAssumption ==
  /\ Sender \in [Mail -> Correspondent] /\ Partner \in [Conversation -> Correspondent]
  /\ Stops \subseteq Mail /\ Webhook \cap Desktop = {} /\ MaxDeaths \in Nat

VARIABLES
  sent,        \* our message in each conversation, and whether its id is recorded
  mail,        \* headers of each mail that arrived: In-Reply-To and References
  mentions,    \* <<conversation, person>>: a message there has the person's address
  known,       \* correspondents whose address a contact or candidate has
  thread,      \* conversations.status
  cursor,      \* replies counted in each conversation
  inbox,       \* inbound messages, and whether a classification was queued
  left,        \* correspondents who opted out
  exception,   \* mails with an incident
  line,        \* what each call is about to file
  answered,    \* mails acknowledged to the provider
  deaths

bookVars == <<thread, cursor, inbox, left>>
worldVars == <<sent, mail, mentions, known>>
mailVars == <<worldVars, bookVars, exception, line, answered, deaths>>

Line == Webhook \cup Desktop
NotArrived == [arrived |-> FALSE, to |-> {}, refs |-> {}]
OnHook == [in |-> "nowhere"]

MailInit ==
  /\ sent = [c \in Conversation |-> "none"] /\ mail = [m \in Mail |-> NotArrived]
  /\ mentions \in SUBSET (Conversation \X Correspondent) /\ known \in SUBSET Correspondent
  /\ thread = [c \in Conversation |-> "open"] /\ cursor = [c \in Conversation |-> 0]
  /\ inbox = {} /\ left = {} /\ exception = {} /\ answered = {} /\ deaths = 0
  /\ line = [m \in Mail |-> [l \in Line |-> OnHook]]
-----------------------------------------------------------------------------
(* Routing.                                                                *)

Filed(m) == {r \in inbox : r.mail = m /\ r.identified}

\* The mail itself is in a conversation already (mutant: not looked up).
NotLookedUp(m) == {}
OfItself(m) == {r.in : r \in Filed(m)}
Recorded(cs) == {c \in cs : sent[c] = "recorded"}
Mentioned(m, statuses) ==
  {c \in Conversation : thread[c] \in statuses /\ <<c, Sender[m]>> \in mentions}

\* The webhook's four priorities; more than one conversation is ambiguous, and the
\* last one needs a message to attach to.
HasMessage(c) == sent[c] # "none" \/ cursor[c] > 0
Partnered(m) == {c \in Conversation : Sender[m] \in known /\ Partner[c] = Sender[m]}
BySender(m) ==
  IF Partnered(m) # {} THEN Partnered(m) ELSE Mentioned(m, {"open", "reply_received"})
Found(m) ==
  IF OfItself(m) # {} THEN OfItself(m)
  ELSE IF Recorded(mail[m].to) # {} THEN Recorded(mail[m].to)
  ELSE IF Recorded(mail[m].refs) # {} THEN Recorded(mail[m].refs)
  ELSE IF Cardinality(BySender(m)) = 1 THEN {c \in BySender(m) : HasMessage(c)}
  ELSE BySender(m)

\* recordByThread: the first header that is known, then what mentions the sender.
FoundByThread(m) ==
  IF Recorded(mail[m].to \cup mail[m].refs) # {}
  THEN {{c} : c \in IF Recorded(mail[m].to) # {} THEN Recorded(mail[m].to)
                    ELSE Recorded(mail[m].refs)}
  ELSE LET cs == Mentioned(m, {"open", "reply_received"}) IN
       {IF Cardinality(cs) = 1 THEN {c \in cs : HasMessage(c)} ELSE cs}

\* The call will file the mail, or leave it to the owner at once.
Routed(m, l, found) ==
  IF Cardinality(found) = 1
  THEN /\ line' = [line EXCEPT ![m][l] = [in |-> CHOOSE c \in found : TRUE]]
       /\ UNCHANGED <<exception, answered>>
  ELSE /\ exception' = exception \cup {m}
       /\ answered' = IF l \in Webhook THEN answered \cup {m} ELSE answered
       /\ UNCHANGED line

Route(m, l) ==
  /\ mail[m].arrived /\ line[m][l] = OnHook
  /\ IF l \in Webhook THEN Routed(m, l, Found(m))
     ELSE \E found \in FoundByThread(m) : Routed(m, l, found)
  /\ UNCHANGED <<worldVars, bookVars, deaths>>
-----------------------------------------------------------------------------
(* Filing.                                                                 *)

Blocked(m, c) == m \in Stops \/ thread[c] = "opted_out" \/ Partner[c] \in left

\* receiveReply, of a mail that is not there yet.
File(m, c, identified, verbatim) ==
  /\ inbox' = inbox \cup
       {[mail |-> m, in |-> c, identified |-> identified, verbatim |-> verbatim,
         revision |-> cursor[c] + 1, queued |-> ~Blocked(m, c)]}
  /\ cursor' = [cursor EXCEPT ![c] = @ + 1]
  /\ thread' = [thread EXCEPT ![c] =
                  IF Blocked(m, c) THEN "opted_out" ELSE "reply_received"]
  /\ left' = IF m \in Stops THEN left \cup {Partner[c]} ELSE left

\* The same provider id again is answered as it was, or is a conflict (mutant: the
\* conversation is all that is looked at).
AlreadyHere(m, c) == \E r \in Filed(m) : r.in = c
Already(m, c) == Filed(m) # {}
Conflict(m, c, verbatim) == \E r \in Filed(m) : r.in # c \/ r.verbatim # verbatim

\* The provider reports what was sent; the owner may put it in other words.
ReceiveReply(m, l) ==
  LET c == line[m][l].in IN
  \E verbatim \in IF l \in Webhook THEN {TRUE} ELSE BOOLEAN :
    /\ line[m][l] # OnHook
    /\ IF Already(m, c) THEN UNCHANGED bookVars ELSE File(m, c, TRUE, verbatim)
    /\ answered' = IF l \in Webhook /\ ~(Already(m, c) /\ Conflict(m, c, verbatim))
                   THEN answered \cup {m} ELSE answered
    /\ line' = [line EXCEPT ![m][l] = OnHook]
    /\ UNCHANGED <<worldVars, exception, deaths>>

\* inbound.record: the owner chooses the conversation, and may leave out the id.
RecordByHand(m, c) ==
  /\ mail[m].arrived /\ \A r \in inbox : r.mail # m
  /\ \E identified, verbatim \in BOOLEAN : File(m, c, identified, verbatim)
  /\ UNCHANGED <<worldVars, exception, line, answered, deaths>>

\* The process dies over a call.
Die(m, l) ==
  /\ line[m][l] # OnHook /\ deaths < MaxDeaths
  /\ line' = [line EXCEPT ![m][l] = OnHook] /\ deaths' = deaths + 1
  /\ UNCHANGED <<worldVars, bookVars, exception, answered>>
-----------------------------------------------------------------------------
(* The world.                                                              *)

\* The provider accepts our message; its id is recorded afterwards.
Send(c) ==
  /\ sent[c] # "recorded"
  /\ sent' = [sent EXCEPT ![c] = IF @ = "none" THEN "accepted" ELSE "recorded"]
  /\ UNCHANGED <<mail, mentions, known, bookVars, exception, line, answered, deaths>>

\* A mail answers one of our messages, refers to some, or neither.
Arrive(m) ==
  /\ ~mail[m].arrived
  /\ \E refs \in SUBSET {c \in Conversation : sent[c] # "none"} :
       \E to \in {{}} \cup {{c} : c \in refs} :
         mail' = [mail EXCEPT ![m] = [arrived |-> TRUE, to |-> to, refs |-> refs]]
  /\ UNCHANGED <<sent, mentions, known, bookVars, exception, line, answered, deaths>>
-----------------------------------------------------------------------------
MailNext ==
  \/ \E c \in Conversation : Send(c) \/ \E m \in Mail : RecordByHand(m, c)
  \/ \E m \in Mail : Arrive(m) \/ \E l \in Line : \/ Route(m, l) \/ ReceiveReply(m, l)
                                                  \/ Die(m, l)

\* The provider reports a mail until it is acknowledged, and a call ends.
Redelivery ==
  \A m \in Mail, l \in Line :
    /\ l \in Webhook => WF_mailVars(m \notin answered /\ Route(m, l))
    /\ WF_mailVars(ReceiveReply(m, l))

MailSpec == MailInit /\ [][MailNext]_mailVars /\ Redelivery
-----------------------------------------------------------------------------
\* Whichever way a mail comes in and however often, its provider id has one message
\* and its conversation's cursor counts every message once (replyTriage.ts:88).
MailCountsOnce ==
  /\ \A m \in Mail : Cardinality(Filed(m)) <= 1
  /\ \A c \in Conversation :
       {r.revision : r \in {s \in inbox : s.in = c}} = 1..cursor[c]

\* The provider does not report a mail forever: it is filed or left to the owner,
\* even when the owner filed it elsewhere while it was being routed.  What the owner
\* recorded in other words is the exception (hostingerWebhook.ts:123).
EveryMailIsAnswered ==
  \A m \in Mail :
    mail[m].arrived ~> (m \in answered \/ \E r \in Filed(m) : ~r.verbatim)
=============================================================================
