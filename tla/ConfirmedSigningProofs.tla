----------------------- MODULE ConfirmedSigningProofs -----------------------
(***************************************************************************)
(* TurnsAreWhole is inductive together with the types.                     *)
(***************************************************************************)
EXTENDS ConfirmedSigning, TLAPS

(* Every step of every request keeps the types and the turns.              *)
LEMMA NextKeepsTurns ==
    ASSUME Nobody \notin Requests, TypeOK, TurnsAreWhole, [Next]_vars
    PROVE  TypeOK' /\ TurnsAreWhole'
<1> USE DEF TypeOK, TurnsAreWhole, Open, Settled
<1>1. CASE UNCHANGED vars
  BY <1>1 DEF vars
<1>2. ASSUME NEW r \in Requests, Begin(r) PROVE TypeOK' /\ TurnsAreWhole'
  BY <1>2 DEF Begin
<1>3. ASSUME NEW r \in Requests, Consent(r) PROVE TypeOK' /\ TurnsAreWhole'
  BY <1>3 DEF Consent
<1>4. ASSUME NEW r \in Requests, TryPin(r) PROVE TypeOK' /\ TurnsAreWhole'
  BY <1>4 DEF TryPin
<1>5. ASSUME NEW r \in Requests, Sign(r) PROVE TypeOK' /\ TurnsAreWhole'
  BY <1>5 DEF Sign
<1>6. ASSUME NEW r \in Requests, Deliver(r) PROVE TypeOK' /\ TurnsAreWhole'
  BY <1>6 DEF Deliver
<1>7. ASSUME NEW r \in Requests, Refuse(r) PROVE TypeOK' /\ TurnsAreWhole'
  BY <1>7 DEF Refuse
<1>8. ASSUME NEW r \in Requests, End(r) PROVE TypeOK' /\ TurnsAreWhole'
  BY <1>8 DEF End
<1> QED
  BY <1>1, <1>2, <1>3, <1>4, <1>5, <1>6, <1>7, <1>8 DEF Next

(* Whatever the requests, turns never overlap, and nothing is tried or     *)
(* signed without the consent and the login before it.                     *)
THEOREM TurnsStayWhole ==
    ASSUME Nobody \notin Requests
    PROVE  Spec => []TurnsAreWhole
<1>1. Init => TypeOK /\ TurnsAreWhole
  BY DEF Init, TypeOK, TurnsAreWhole, Open, Settled
<1>2. TypeOK /\ TurnsAreWhole /\ [Next]_vars => (TypeOK /\ TurnsAreWhole)'
  BY NextKeepsTurns
<1> QED
  BY <1>1, <1>2, PTL DEF Spec
=============================================================================
