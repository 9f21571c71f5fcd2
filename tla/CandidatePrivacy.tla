-------------------------- MODULE CandidatePrivacy --------------------------
(***************************************************************************)
(* One candidate with contact details: the profile, the consents, the      *)
(* shortlist row of one job with its share approvals, the documents and a  *)
(* deletion request.  The handlers of recruitment.ts, candidateWorkflows.ts*)
(* and consequential.ts hold no lock: each runs statement by statement on a*)
(* clerk and may die between two of them.  The owner's decision, the scan's*)
(* verdict and the parser's result are transactions that lock the          *)
(* candidate, and are one step.                                            *)
(*                                                                         *)
(* The client and the job stay open; names, wording and the follow-ups     *)
(* (FollowUpDelivery) are left out.                                        *)
(***************************************************************************)
EXTENDS Integers, Desk, Workflow

CONSTANTS
  Document,     \* ids of candidateDocuments rows
  AskedState,   \* bound: profile states the owner asks for
  MaxShares     \* bound: share approvals pending at a time

ASSUME PrivacyAssumption ==
  AskedState \subseteq DOMAIN CandidateFlow \ {"deleted", "deletion_pending"}
  /\ MaxShares \in Nat

VARIABLES
  profileState, marks,     \* candidates row; marks are its ...At timestamps
  identified,              \* its contact hashes are there
  consents, suppressed,    \* granted consents; the contact is on the list
  shortlist,               \* status of the (candidate, job) row, or "none"
  shareApprovals,          \* pending candidate_share approvals
  deletionRequest,         \* status of the deletion request, or "none"
  document,                \* candidateDocuments rows and their stored objects
  recorded,                \* audit events of completed withdrawals and erasures
  desk                     \* what each clerk is at, and what it read

profileVars == <<profileState, marks, identified, consents, suppressed>>
shareVars == <<shortlist, shareApprovals>>
erasureVars == <<deletionRequest, document, recorded>>
privacyVars == <<profileVars, shareVars, erasureVars, desk>>

Mark == {"withdrawn", "do_not_contact", "deleted"}
Consent == {"processing", "client_sharing"}
ShareStatus == DOMAIN ShortlistFlow \cup {"none"}
RequestStatus == {"none", "received", "investigation", "resolved"}
NoDocument == [scan |-> "none", data |-> FALSE, stored |-> FALSE]
DocumentRow == [scan : {"none", "pending", "clean", "flagged", "redacted"},
                data : BOOLEAN, stored : BOOLEAN]

\* The statements of the erasure, in their order: what follows each one (mutant: the
\* contact is redacted before it is suppressed).
RedactedFirst ==
  [mark |-> "approvals", approvals |-> "shortlist", shortlist |-> "consents",
   consents |-> "list", list |-> "objects", objects |-> "rows", rows |-> "redact",
   redact |-> "suppress", suppress |-> "resolve", resolve |-> "audit", audit |-> NoOne]
ErasureSteps ==
  [mark |-> "approvals", approvals |-> "shortlist", shortlist |-> "consents",
   consents |-> "suppress", suppress |-> "list", list |-> "objects",
   objects |-> "rows", rows |-> "redact", redact |-> "resolve", resolve |-> "audit",
   audit |-> NoOne]

\* The same for every handler.
Plan ==
  [transition |-> [state |-> NoOne],
   grant      |-> [consent |-> "state", state |-> NoOne],
   withdraw   |-> [mark |-> "consents", consents |-> "suppress",
                   suppress |-> "shortlist", shortlist |-> "audit", audit |-> NoOne],
   avoid      |-> [mark |-> "suppress", suppress |-> NoOne],
   share      |-> [prepare |-> "ask", ask |-> "pending", pending |-> NoOne],
   submit     |-> [pending |-> "ask", ask |-> NoOne],
   update     |-> [status |-> NoOne],
   upload     |-> [put |-> "insert", insert |-> NoOne],
   scan       |-> [verdict |-> NoOne],
   erase      |-> ErasureSteps]

Task == DOMAIN Plan
Idle == [task |-> "transition", step |-> NoOne, aim |-> "none",
         hashed |-> FALSE, docs |-> {}]

PrivacyInit ==
  /\ profileState \in {"imported", "consent_pending"} /\ marks = {}
  /\ identified = TRUE /\ consents = {} /\ suppressed = FALSE
  /\ shortlist = "none" /\ shareApprovals = 0
  /\ deletionRequest = "none"
  /\ document = [d \in Document |-> NoDocument]
  /\ recorded = {}
  /\ desk = [c \in Clerk |-> Idle]
-----------------------------------------------------------------------------
(* A clerk's bookkeeping.                                                  *)

\* A request arrives, reads, and is about to make statement s of task t.
Begin(c, t, s, aim, docs) ==
  /\ desk[c].step = NoOne
  /\ desk' = [desk EXCEPT ![c] = [task |-> t, step |-> s, aim |-> aim,
                                  hashed |-> identified, docs |-> docs]]

At(c, s) == desk[c].step = s
Advance(c, s) ==
  /\ At(c, s)
  /\ LET next == Plan[desk[c].task][s]
     IN  desk' = [desk EXCEPT ![c] = IF next = NoOne THEN Idle
                                     ELSE [@ EXCEPT !.step = next]]
Leave(c) == desk' = [desk EXCEPT ![c] = Idle]

\* The process dies, or a statement fails: what was written stays written.
Abandon(c) ==
  /\ desk[c].step # NoOne /\ Leave(c)
  /\ UNCHANGED <<profileVars, shareVars, erasureVars>>
-----------------------------------------------------------------------------
(* Profile and consent.                                                    *)

NeedsNoConsent == {"imported", "consent_pending", "profile_incomplete", "withdrawn",
                   "do_not_contact"}

\* candidates.transition: the checks, then the write.
AskTransition(c) ==
  \E s \in AskedState :
    /\ MayMove(CandidateFlow, profileState, s)
    /\ s \notin NeedsNoConsent => consents # {}
    /\ Begin(c, "transition", "state", s, {})
    /\ UNCHANGED <<profileVars, shareVars, erasureVars>>

\* grantConsent reads the state that it will write after the consent.
GrantConsent(c) ==
  /\ Begin(c, "grant", "consent",
           IF profileState = "consent_pending" THEN "consented" ELSE "none", {})
  /\ UNCHANGED <<profileVars, shareVars, erasureVars>>

InsertConsent(c) ==
  /\ Advance(c, "consent")
  /\ \E k \in Consent : consents' = consents \cup {k}
  /\ UNCHANGED <<profileState, marks, identified, suppressed, shareVars, erasureVars>>

\* A grant that changes no state writes none.
NextState(c) == IF desk[c].aim = "none" THEN profileState ELSE desk[c].aim

WriteState(c) ==
  /\ Advance(c, "state") /\ profileState' = NextState(c)
  /\ UNCHANGED <<marks, identified, consents, suppressed, shareVars, erasureVars>>

\* expiresAt passes.
ConsentExpires ==
  /\ \E k \in consents : consents' = consents \ {k}
  /\ UNCHANGED <<profileState, marks, identified, suppressed, shareVars, erasureVars,
                 desk>>

Withdraw(c) == /\ Begin(c, "withdraw", "mark", "withdrawn", {})
               /\ UNCHANGED <<profileVars, shareVars, erasureVars>>
DoNotContact(c) == /\ Begin(c, "avoid", "mark", "do_not_contact", {})
                   /\ UNCHANGED <<profileVars, shareVars, erasureVars>>

\* withdraw, doNotContact and the erasure's tombstone write the state unread.
MarkCandidate(c) ==
  /\ Advance(c, "mark")
  /\ profileState' = desk[c].aim
  /\ marks' = marks \cup {IF desk[c].task = "erase" THEN "deleted" ELSE desk[c].aim}
  /\ UNCHANGED <<identified, consents, suppressed, shareVars, erasureVars>>

WithdrawConsents(c) ==
  /\ Advance(c, "consents")
  /\ consents' = {}
  /\ UNCHANGED <<profileState, marks, identified, suppressed, shareVars, erasureVars>>

\* The hash is the one the request read at its start.
Suppress(c) ==
  /\ Advance(c, "suppress")
  /\ suppressed' = (suppressed \/ desk[c].hashed)
  /\ UNCHANGED <<profileState, marks, identified, consents, shareVars, erasureVars>>

\* withdraw takes back the rows there are; the erasure those still open.
WithdrawShortlist(c) ==
  /\ Advance(c, "shortlist")
  /\ shortlist' = IF \/ shortlist = "none"
                     \/ desk[c].task = "erase" /\ shortlist = "expired"
                  THEN shortlist ELSE "withdrawn"
  /\ UNCHANGED <<profileVars, shareApprovals, erasureVars>>

RecordAudit(c) ==
  /\ Advance(c, "audit")
  /\ recorded' = recorded \cup {desk[c].task}
  /\ UNCHANGED <<profileVars, shareVars, deletionRequest, document>>
-----------------------------------------------------------------------------
(* Sharing with the client.                                                *)

Gone == {"deleted", "deletion_pending", "withdrawn", "do_not_contact"}

\* assertSharingEligible.
SharingEligible ==
  /\ marks = {} /\ profileState \notin Gone
  /\ ~(identified /\ suppressed)
  /\ "client_sharing" \in consents

\* matching.requestShareApproval: whatever row there is that is not with the
\* client, a withdrawn one too, is asked for again.
RequestShareApproval(c) ==
  /\ SharingEligible
  /\ shortlist \notin {"shared", "viewed"}
  /\ ~(shortlist = "approval_pending" /\ shareApprovals > 0)
  /\ Begin(c, "share", IF shortlist = "none" THEN "prepare" ELSE "ask", "none", {})
  /\ UNCHANGED <<profileVars, shareVars, erasureVars>>

\* consequential.requestCandidateShare.
RequestCandidateShare(c) ==
  /\ shortlist = "prepared" /\ SharingEligible /\ shareApprovals = 0
  /\ Begin(c, "submit", "pending", "none", {})
  /\ UNCHANGED <<profileVars, shareVars, erasureVars>>

\* A second row for the candidate and the job breaks the unique index.
PrepareShortlist(c) ==
  /\ IF shortlist = "none"
     THEN shortlist' = "prepared" /\ Advance(c, "prepare")
     ELSE At(c, "prepare") /\ Leave(c) /\ UNCHANGED shortlist
  /\ UNCHANGED <<profileVars, shareApprovals, erasureVars>>

AskApproval(c) ==
  /\ Advance(c, "ask")
  /\ shareApprovals < MaxShares /\ shareApprovals' = shareApprovals + 1
  /\ UNCHANGED <<profileVars, shortlist, erasureVars>>

MarkPending(c) ==
  /\ Advance(c, "pending")
  /\ shortlist' = "approval_pending"
  /\ UNCHANGED <<profileVars, shareApprovals, erasureVars>>

\* The owner approves: applySideEffect's checks fail or the row is shared.
ApproveShare ==
  /\ shareApprovals > 0 /\ shareApprovals' = shareApprovals - 1
  /\ shortlist \in {"prepared", "approval_pending"} /\ SharingEligible
  /\ shortlist' = "shared"
  /\ UNCHANGED <<profileVars, erasureVars, desk>>

RejectShare ==
  /\ shareApprovals > 0 /\ shareApprovals' = shareApprovals - 1
  /\ UNCHANGED <<profileVars, shortlist, erasureVars, desk>>

\* shortlists.updateState: the read and its check, then the write.
UpdateShortlist(c) ==
  \E s \in {"approval_pending", "viewed", "withdrawn", "expired"} :
    /\ shortlist # "none" /\ MayMove(ShortlistFlow, shortlist, s)
    /\ Begin(c, "update", "status", s, {})
    /\ UNCHANGED <<profileVars, shareVars, erasureVars>>

WriteShortlist(c) ==
  /\ Advance(c, "status")
  /\ shortlist' = desk[c].aim
  /\ UNCHANGED <<profileVars, shareApprovals, erasureVars>>
-----------------------------------------------------------------------------
(* Documents.                                                              *)

\* documents.upload: the object is stored, then the row is inserted.
Upload(c) ==
  \E d \in Document :
    /\ document[d] = NoDocument /\ \A b \in Clerk : d \notin desk[b].docs
    /\ Begin(c, "upload", "put", "none", {d})
    /\ UNCHANGED <<profileVars, shareVars, erasureVars>>

PutObject(c) ==
  /\ Advance(c, "put")
  /\ document' = [d \in Document |->
       IF d \in desk[c].docs THEN [document[d] EXCEPT !.stored = TRUE]
       ELSE document[d]]
  /\ UNCHANGED <<profileVars, shareVars, deletionRequest, recorded>>

InsertDocument(c) ==
  /\ Advance(c, "insert")
  /\ document' = [d \in Document |->
       IF d \in desk[c].docs THEN [document[d] EXCEPT !.scan = "pending"]
       ELSE document[d]]
  /\ UNCHANGED <<profileVars, shareVars, deletionRequest, recorded>>

Rows == {d \in Document : document[d].scan # "none"}

\* scanCandidateDocument reads the bytes outside any transaction ...
ReadForScan(c) ==
  \E d \in Rows :
    /\ document[d].stored
    /\ Begin(c, "scan", "verdict", "none", {d})
    /\ UNCHANGED <<profileVars, shareVars, erasureVars>>

\* ... and records the verdict if candidate and storage key are as it read them
\* (mutant: it does not look again).
AsItWas(d) == TRUE
StillToScan(d) ==
  /\ "deleted" \notin marks /\ profileState \notin {"deleted", "deletion_pending"}
  /\ document[d].scan # "redacted"

RecordVerdict(c) ==
  \E d \in desk[c].docs, v \in {"clean", "flagged"} :
    /\ Advance(c, "verdict")
    /\ document' = IF StillToScan(d) THEN [document EXCEPT ![d].scan = v] ELSE document
    /\ UNCHANGED <<profileVars, shareVars, deletionRequest, recorded>>

\* The parser's answer for d: discarded unless the document is still clean and
\* the candidate still processed under consent.
MayHoldData(d) ==
  /\ document[d].scan = "clean"
  /\ marks = {} /\ profileState \notin Gone
  /\ "processing" \in consents

ApplyParse(d) ==
  /\ MayHoldData(d)
  /\ document' = [document EXCEPT ![d].data = TRUE]
  /\ UNCHANGED <<profileVars, shareVars, deletionRequest, recorded, desk>>
-----------------------------------------------------------------------------
(* Erasure.                                                                *)

RequestDeletion ==
  /\ deletionRequest = "none" /\ deletionRequest' = "received"
  /\ UNCHANGED <<profileVars, shareVars, document, recorded, desk>>

\* privacy.fulfillDeletion; a failed attempt is taken up again.
FulfilDeletion(c) ==
  /\ deletionRequest \in {"received", "investigation"}
  /\ Begin(c, "erase", "mark", "deletion_pending", {})
  /\ UNCHANGED <<profileVars, shareVars, erasureVars>>

CancelApprovals(c) ==
  /\ Advance(c, "approvals")
  /\ shareApprovals' = 0
  /\ UNCHANGED <<profileVars, shortlist, erasureVars>>

ListDocuments(c) ==
  /\ At(c, "list")
  /\ desk' = [desk EXCEPT ![c].docs = Rows, ![c].step = "objects"]
  /\ UNCHANGED <<profileVars, shareVars, erasureVars>>

\* The listed objects, one by one; the rows follow when all are gone.
DeleteObject(c) ==
  /\ \E d \in {e \in desk[c].docs : document[e].stored} :
       /\ At(c, "objects") /\ UNCHANGED desk
       /\ document' = [document EXCEPT ![d].stored = FALSE]
  /\ UNCHANGED <<profileVars, shareVars, deletionRequest, recorded>>

ObjectsGone(c) ==
  /\ \A d \in desk[c].docs : ~document[d].stored
  /\ Advance(c, "objects")
  /\ UNCHANGED <<profileVars, shareVars, erasureVars>>

\* An object cannot be deleted: the request goes to investigation and the erasure
\* stops here.
DeletionFails(c) ==
  /\ At(c, "objects") /\ desk[c].docs # {}
  /\ Leave(c)
  /\ deletionRequest' = "investigation"
  /\ UNCHANGED <<profileVars, shareVars, document, recorded>>

Redacted == [scan |-> "redacted", data |-> FALSE, stored |-> FALSE]

RedactDocument(c) ==
  /\ \E d \in {e \in desk[c].docs : document[e].scan # "redacted"} :
       /\ At(c, "rows") /\ UNCHANGED desk
       /\ document' = [document EXCEPT ![d].scan = "redacted", ![d].data = FALSE]
  /\ UNCHANGED <<profileVars, shareVars, deletionRequest, recorded>>

RowsRedacted(c) ==
  /\ \A d \in desk[c].docs : document[d].scan = "redacted"
  /\ Advance(c, "rows")
  /\ UNCHANGED <<profileVars, shareVars, erasureVars>>

RedactCandidate(c) ==
  /\ Advance(c, "redact")
  /\ profileState' = "deleted" /\ marks' = marks \cup {"deleted"}
  /\ identified' = FALSE
  /\ UNCHANGED <<consents, suppressed, shareVars, erasureVars>>

ResolveRequest(c) ==
  /\ Advance(c, "resolve")
  /\ deletionRequest' = "resolved"
  /\ UNCHANGED <<profileVars, shareVars, document, recorded>>
-----------------------------------------------------------------------------
Serve(c) ==
  \/ AskTransition(c) \/ GrantConsent(c) \/ InsertConsent(c) \/ WriteState(c)
  \/ Withdraw(c) \/ DoNotContact(c) \/ MarkCandidate(c) \/ WithdrawConsents(c)
  \/ Suppress(c) \/ WithdrawShortlist(c) \/ RecordAudit(c)
  \/ RequestShareApproval(c) \/ RequestCandidateShare(c) \/ PrepareShortlist(c)
  \/ AskApproval(c) \/ MarkPending(c) \/ UpdateShortlist(c) \/ WriteShortlist(c)
  \/ Upload(c) \/ PutObject(c) \/ InsertDocument(c) \/ ReadForScan(c)
  \/ RecordVerdict(c)
  \/ FulfilDeletion(c) \/ CancelApprovals(c) \/ ListDocuments(c) \/ DeleteObject(c)
  \/ ObjectsGone(c) \/ DeletionFails(c) \/ RedactDocument(c) \/ RowsRedacted(c)
  \/ RedactCandidate(c)
  \/ ResolveRequest(c) \/ Abandon(c)

PrivacyNext ==
  \/ \E c \in Clerk : Serve(c)
  \/ ConsentExpires \/ ApproveShare \/ RejectShare \/ RequestDeletion
  \/ \E d \in Document : ApplyParse(d)

PrivacySpec == PrivacyInit /\ [][PrivacyNext]_privacyVars
-----------------------------------------------------------------------------
PrivacyTypeOK ==
  /\ profileState \in DOMAIN CandidateFlow /\ marks \subseteq Mark
  /\ identified \in BOOLEAN /\ suppressed \in BOOLEAN /\ consents \subseteq Consent
  /\ shortlist \in ShareStatus /\ shareApprovals \in 0..MaxShares
  /\ deletionRequest \in RequestStatus
  /\ document \in [Document -> DocumentRow]
  /\ recorded \subseteq {"withdraw", "erase"}
  /\ \A c \in Clerk :
       /\ desk[c].task \in Task
       /\ desk[c].step \in {NoOne} \cup DOMAIN Plan[desk[c].task]
       /\ desk[c].hashed \in BOOLEAN /\ desk[c].docs \subseteq Document

\* What is recorded as done is done, after whatever failures and retries.  Once a
\* withdrawal or an erasure is, the client has no shared profile, and no approval
\* decided in between brings it back; once a deletion request is resolved, the
\* identity is gone, the profile marked and the contact that was there suppressed
\* (recruitment.ts:485, candidateWorkflows.ts:124, :176, approvalEngine.ts:150).
RecordedMeansDone ==
  /\ recorded # {} => shortlist # "shared"
  /\ deletionRequest = "resolved" =>
       ~identified /\ suppressed /\ "deleted" \in marks

\* What erasure redacted stays blank: no scan or parse that was under way brings
\* a document back (candidateWorkflows.ts:132, documentScanner.ts:133).
RedactedIsFinal ==
  [][\A d \in Document : document[d] = Redacted => document'[d] = Redacted]_privacyVars
=============================================================================
