------------------------- MODULE MCFollowUpDelivery -------------------------
(* Small instances of FollowUpDelivery.                                    *)
EXTENDS FollowUpDelivery, TLC

\* Outbox rows and grants are interchangeable.
Symmetry == Permutations(Dispatch) \cup Permutations(Grant)
=============================================================================
