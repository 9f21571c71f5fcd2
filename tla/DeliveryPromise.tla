--------------------------- MODULE DeliveryPromise ---------------------------
(***************************************************************************)
(* What a follow-up sequence promises its recipient, whatever happens to   *)
(* its records: the steps of a definition are accepted by the provider in  *)
(* order and at most once, and nothing is sent while the outcome of an     *)
(* earlier attempt is unknown.  FollowUpDelivery implements it.            *)
(***************************************************************************)
EXTENDS Integers

CONSTANT Steps            \* messages of a sequence, at least one

VARIABLES
  cursor,                 \* the step to send next
  accepted,               \* steps of this definition the provider accepted
  phase                   \* of the attempt at the step under the cursor
vars == <<cursor, accepted, phase>>

Init == cursor = 0 /\ accepted = {} /\ phase = "idle"

Attempt ==
  /\ phase = "idle"
  /\ cursor \in (0..Steps - 1) \ accepted
  /\ phase' = "attempting"
  /\ UNCHANGED <<cursor, accepted>>

\* The provider may accept long after the process that asked has gone.
ProviderAccepts ==
  /\ phase # "idle"
  /\ accepted' = accepted \cup {cursor}
  /\ UNCHANGED <<cursor, phase>>

LoseTrack ==
  /\ phase = "attempting"
  /\ phase' = "uncertain"
  /\ UNCHANGED <<cursor, accepted>>

\* By the provider's receipt, or by the owner's evidence about a lost attempt.
RecordAcceptance ==
  /\ phase # "idle"
  /\ cursor \in accepted
  /\ cursor' = cursor + 1
  /\ phase' = "idle"
  /\ UNCHANGED accepted

RecordRefusal ==
  /\ phase = "uncertain"
  /\ cursor \notin accepted
  /\ phase' = "idle"
  /\ UNCHANGED <<cursor, accepted>>

\* The owner reviews a new definition.
Replan ==
  /\ phase = "idle"
  /\ cursor' = 0
  /\ accepted' = {}
  /\ UNCHANGED phase

Next == \/ Attempt \/ ProviderAccepts \/ LoseTrack
        \/ RecordAcceptance \/ RecordRefusal \/ Replan

Spec == Init /\ [][Next]_vars
-----------------------------------------------------------------------------
\* Exactly the steps before the cursor have been accepted, but for the one being
\* attempted, which may have been.
InOrderOnce ==
  /\ cursor \in 0..Steps
  /\ phase \in {"idle", "attempting", "uncertain"}
  /\ phase # "idle" => cursor < Steps
  /\ accepted \ {cursor} = 0..cursor - 1
  /\ cursor \in accepted => phase # "idle"
=============================================================================
