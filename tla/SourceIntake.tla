---------------------------- MODULE SourceIntake ----------------------------
(***************************************************************************)
(* Profiles from approved sources: a partner's webhook or the owner's own  *)
(* review commits a batch of records, each of which becomes a profile, is  *)
(* recognised as one, or is held.  A profile is a candidate, or a client's *)
(* contact when the source is of prospects; its identity is its address or *)
(* its phone number.                                                       *)
(*                                                                         *)
(* Every commit is one transaction under the workspace lock.  A webhook    *)
(* reads and authenticates its source before that.  Names and wording are  *)
(* left out, and so is why a record is held.                               *)
(***************************************************************************)
EXTENDS Naturals, FiniteSets, SequencesExt

CONSTANTS
  Delivery,      \* webhook calls in flight
  BatchKey, RecordKey, Email, Phone,
  Domain,        \* of companies
  PerMinute,     \* new batches a source may commit within a minute
  MaxProfiles, MaxSourceRevision  \* bounds

Unknown == "unknown"
ASSUME IntakeAssumption ==
  /\ Unknown \notin Email \cup Phone \cup Domain
  /\ PerMinute \in Nat /\ MaxProfiles \in Nat /\ MaxSourceRevision \in Nat

VARIABLES
  source,      \* the intakeSources row: kind, enabled, revision, token (by number)
  book,        \* what commits read and write: profiles, companies, records received
  batches,     \* idempotency keys of the intakeBatches rows
  recent,      \* how many of them are of the last minute
  barred,  \* suppressionList
  call,        \* what each webhook has authenticated
  review       \* the preview the owner holds

peopleVars == <<source, barred>>
intakeVars == <<peopleVars, book, batches, recent, call, review>>

NoSource == [kind |-> "none", enabled |-> FALSE, revision |-> 0, token |-> 0]
NoCall == [token |-> 0]
NoReview == [revision |-> 0]

\* People, by an address or a number or both; a prospect may come without one.
People(of) ==
  {r \in [key : RecordKey, of : of, email : Email \cup {Unknown},
          phone : Phone \cup {Unknown}] : {r.email, r.phone} # {Unknown}}
Companies == [key : RecordKey, of : Domain, email : {Unknown}, phone : {Unknown}]
Records == [candidate |-> People({Unknown}),
            prospect  |-> Companies \cup {r \in People(Domain) : r.email # Unknown}]
Contents ==
  [kind \in DOMAIN Records |->
     {<<r>> : r \in Records[kind]} \cup
     {q \in Records[kind] \X Records[kind] : q[1].key # q[2].key}]

IntakeInit ==
  /\ source = NoSource
  /\ book = [rows |-> <<>>, company |-> {}, seen |-> {}]
  /\ batches = {} /\ recent = 0 /\ barred = {}
  /\ call = [d \in Delivery |-> NoCall] /\ review = NoReview
-----------------------------------------------------------------------------
(* Recognition.                                                            *)

Same(a, b) == a # Unknown /\ a = b
Differ(a, b) == a # Unknown /\ b # Unknown /\ a # b

\* The profiles that share an identity with the record (mutant: the address).
ByAddress(b, r) == {i \in DOMAIN b.rows : Same(r.email, b.rows[i].email)}
Evidence(b, r) ==
  {i \in DOMAIN b.rows : Same(r.email, b.rows[i].email) \/ Same(r.phone, b.rows[i].phone)}

\* findCandidateIdentity and findContactIdentity refuse the record.
Refused(b, r) ==
  \/ {r.email, r.phone} \cap barred # {}
  \/ Cardinality(Evidence(b, r)) > 1
  \/ \E i \in Evidence(b, r) :
       LET p == b.rows[i] IN
       p.out \/ p.of # r.of \/ Differ(p.email, r.email) \/ Differ(p.phone, r.phone)

Received(b, r) == {s \in b.seen : s.key = r.key}
Recognised(b, r) == IF r.of = Unknown THEN Evidence(b, r) # {} ELSE r.of \in b.company
Assess(b, r) ==
  IF Received(b, r) # {} THEN IF r \in b.seen THEN "reused" ELSE "held"
  ELSE IF Refused(b, r) THEN "held"
  ELSE IF Recognised(b, r) THEN "reused" ELSE "created"

\* intakeCandidateInTransaction, or the prospect and then its contact.
Adopt(b, r) ==
  LET new == {r.email, r.phone} # {Unknown} /\ Evidence(b, r) = {} IN
  [b EXCEPT !.company = @ \cup ({r.of} \ {Unknown}),
            !.rows = IF new THEN Append(@, [of |-> r.of, email |-> r.email,
                                            phone |-> r.phone, out |-> FALSE])
                     ELSE @]
Import(b, r) ==
  IF Received(b, r) # {} \/ Refused(b, r) THEN b
  ELSE [Adopt(b, r) EXCEPT !.seen = @ \cup {r}]

After(content) == FoldLeft(Import, book, content)
Previewed(content) == [i \in DOMAIN content |-> Assess(book, content[i])]
Results(content) ==
  [i \in DOMAIN content |->
     Assess(FoldLeft(Import, book, SubSeq(content, 1, i - 1)), content[i])]
-----------------------------------------------------------------------------
(* The source.                                                             *)

CreateSource ==
  /\ source = NoSource
  /\ \E kind \in {"candidate", "prospect"} :
       source' = [kind |-> kind, enabled |-> TRUE, revision |-> 1, token |-> 1]
  /\ UNCHANGED <<barred, book, batches, recent, call, review>>

ControlSource ==
  /\ source # NoSource /\ source.revision < MaxSourceRevision
  /\ \/ \E on \in BOOLEAN : source' = [source EXCEPT !.enabled = on, !.revision = @ + 1]
     \/ source' = [source EXCEPT !.token = @ + 1, !.revision = @ + 1]
  /\ UNCHANGED <<barred, book, batches, recent, call, review>>
-----------------------------------------------------------------------------
(* Commits.                                                                *)

\* commitIntake; a key that is known answers what it answered then, or a conflict.
CommitIntake(key, content) ==
  IF key \in batches THEN UNCHANGED <<book, batches, recent>>
  ELSE /\ recent < PerMinute /\ Len(After(content).rows) <= MaxProfiles
       /\ book' = After(content) /\ recent' = recent + 1
       /\ batches' = batches \cup {key}

\* processIntakeWebhook authenticates what it read...
Deliver(d, key, content) ==
  /\ call[d] = NoCall /\ source.enabled
  /\ call' = [call EXCEPT ![d] = [token |-> source.token, key |-> key,
                                  content |-> content]]
  /\ UNCHANGED <<peopleVars, book, batches, recent, review>>

\* ... and again under the lock.
StillOpens(d) == source.enabled /\ call[d].token = source.token

CommitDelivery(d) ==
  /\ call[d] # NoCall /\ StillOpens(d)
  /\ CommitIntake(call[d].key, call[d].content)
  /\ call' = [call EXCEPT ![d] = NoCall] /\ UNCHANGED <<peopleVars, review>>

\* It was refused, hit the limit, or the process died.
DropDelivery(d) ==
  /\ call[d] # NoCall /\ call' = [call EXCEPT ![d] = NoCall]
  /\ UNCHANGED <<peopleVars, book, batches, recent, review>>

PreviewIntake(key, content) ==
  /\ review' = [revision |-> source.revision, key |-> key, content |-> content,
                shown |-> Previewed(content)]
  /\ UNCHANGED <<peopleVars, book, batches, recent, call>>

\* What the owner saw is what a preview would show now (mutant: of this revision).
OfThisRevision == review.revision = source.revision
StillShown == OfThisRevision /\ review.shown = Previewed(review.content)

ImportReviewed ==
  /\ review # NoReview /\ source.enabled
  /\ review.key \in batches \/ StillShown
  /\ CommitIntake(review.key, review.content)
  /\ review' = NoReview /\ UNCHANGED <<peopleVars, call>>

\* candidates.create, or prospects.create and prospects.addContact.
ByHand == [candidate |-> People({Unknown}), prospect |-> Companies \cup People(Domain)]
CreateByHand ==
  /\ source # NoSource
  /\ \E r \in ByHand[source.kind] :
       /\ r \in Companies \/ (~Refused(book, r) /\ r.of \in book.company \cup {Unknown})
       /\ book' = Adopt(book, r) /\ Len(book'.rows) <= MaxProfiles
  /\ UNCHANGED <<peopleVars, batches, recent, call, review>>
-----------------------------------------------------------------------------
(* What goes on meanwhile.                                                 *)

MinutePasses ==
  recent > 0 /\ recent' = recent - 1
  /\ UNCHANGED <<peopleVars, book, batches, call, review>>

\* A withdrawal, an opt-out or an erasure marks the profile; suppresses its address,
\* and an erasure its number; and an erasure, at last, redacts it.
Leaves(i) ==
  /\ ~book.rows[i].out /\ book' = [book EXCEPT !.rows[i].out = TRUE]
  /\ UNCHANGED <<peopleVars, batches, recent, call, review>>
Bar(i) ==
  /\ book.rows[i].out
  /\ \E v \in {book.rows[i].email} \cup
                (IF book.rows[i].of = Unknown THEN {book.rows[i].phone} ELSE {}) :
       v # Unknown /\ barred' = barred \cup {v}
  /\ UNCHANGED <<source, book, batches, recent, call, review>>
Redact(i) ==
  /\ book.rows[i].out /\ book.rows[i].of = Unknown
  /\ {book.rows[i].email, book.rows[i].phone} \subseteq barred \cup {Unknown}
  /\ book' = [book EXCEPT !.rows[i].email = Unknown, !.rows[i].phone = Unknown]
  /\ UNCHANGED <<peopleVars, batches, recent, call, review>>
-----------------------------------------------------------------------------
\* A batch of records of the source's kind arrives, or is shown to the owner.
Arrives ==
  source # NoSource /\ \E key \in BatchKey, content \in Contents[source.kind] :
    PreviewIntake(key, content) \/ \E d \in Delivery : Deliver(d, key, content)
Proceeds ==
  \/ CreateSource \/ ControlSource \/ ImportReviewed
  \/ \E d \in Delivery : CommitDelivery(d) \/ DropDelivery(d)
  \/ MinutePasses
  \/ \E i \in DOMAIN book.rows : Leaves(i) \/ Bar(i) \/ Redact(i)
IntakeNext == Arrives \/ CreateByHand \/ Proceeds

IntakeSpec == IntakeInit /\ [][IntakeNext]_intakeVars
-----------------------------------------------------------------------------
\* However batches, replays and reviews meet, and whichever way in a person came, no
\* two profiles share an address or a phone number (canonicalIntake.ts:38, :84).
OneProfilePerIdentity ==
  \A i, j \in DOMAIN book.rows :
    i # j => /\ ~Same(book.rows[i].email, book.rows[j].email)
             /\ ~Same(book.rows[i].phone, book.rows[j].phone)
=============================================================================
