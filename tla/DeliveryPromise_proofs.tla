----------------------- MODULE DeliveryPromise_proofs -----------------------
(* What the promise amounts to, for sequences of any length.               *)
EXTENDS DeliveryPromise, TLAPS

\* InOrderOnce holds initially.
LEMMA OrderInit ==
  ASSUME Steps \in Nat \ {0}
  PROVE  Init => InOrderOnce
BY DEF Init, InOrderOnce

\* Every step of the promise keeps InOrderOnce.
LEMMA OrderNext ==
  ASSUME Steps \in Nat \ {0}
  PROVE  InOrderOnce /\ [Next]_vars => InOrderOnce'
<1> SUFFICES ASSUME InOrderOnce, [Next]_vars PROVE InOrderOnce'
  OBVIOUS
<1> USE DEF InOrderOnce
<1>1. CASE Attempt
  BY <1>1 DEF Attempt
<1>2. CASE ProviderAccepts
  BY <1>2 DEF ProviderAccepts
<1>3. CASE LoseTrack
  BY <1>3 DEF LoseTrack
<1>4. CASE RecordAcceptance
  BY <1>4 DEF RecordAcceptance
<1>5. CASE RecordRefusal
  BY <1>5 DEF RecordRefusal
<1>6. CASE Replan
  BY <1>6 DEF Replan
<1>7. CASE UNCHANGED vars
  BY <1>7 DEF vars
<1> QED
  BY <1>1, <1>2, <1>3, <1>4, <1>5, <1>6, <1>7 DEF Next

\* The accepted steps are exactly those before the cursor, but for the attempt
\* under way: none is skipped and none is accepted twice.
THEOREM PromiseInOrderOnce ==
  ASSUME Steps \in Nat \ {0}
  PROVE  Spec => []InOrderOnce
BY OrderInit, OrderNext, PTL DEF Spec
=============================================================================
