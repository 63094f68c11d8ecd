-------------------------- MODULE ConfirmedSigning --------------------------
(***************************************************************************)
(* What the signing service promises, without modules, sessions, tokens or *)
(* clients: requests take turns; in its turn a request asks its user, may  *)
(* then try one login, may then sign, and either delivers a signature or   *)
(* is refused.  A turn ends only when its request is settled.              *)
(***************************************************************************)
CONSTANTS Requests, Nobody

VARIABLES
    turn,       \* whose turn it is
    stage,      \* how far each request has come
    tried       \* the requests whose PIN was tried

vars == <<turn, stage, tried>>

Open == {"asking", "consented", "authenticated", "signed"}
Settled == {"delivered", "refused"}

TypeOK == /\ turn \in Requests \cup {Nobody}
          /\ stage \in [Requests -> {"waiting"} \cup Open \cup Settled]
          /\ tried \in SUBSET Requests

Init == /\ turn = Nobody
        /\ stage = [r \in Requests |-> "waiting"]
        /\ tried = {}

(* A turn begins with the question to the user, unless nobody is there to  *)
(* be asked any more.                                                      *)
Begin(r) == /\ turn = Nobody
            /\ stage[r] = "waiting"
            /\ turn' = r
            /\ \E s \in {"asking", "refused"} : stage' = [stage EXCEPT ![r] = s]
            /\ UNCHANGED tried

Consent(r) == /\ turn = r
              /\ stage[r] = "asking"
              /\ stage' = [stage EXCEPT ![r] = "consented"]
              /\ UNCHANGED <<turn, tried>>

TryPin(r) == /\ turn = r
             /\ stage[r] = "consented"
             /\ r \notin tried
             /\ tried' = tried \cup {r}
             /\ \E s \in {"authenticated", "refused"} : stage' = [stage EXCEPT ![r] = s]
             /\ UNCHANGED turn

Sign(r) == /\ turn = r
           /\ stage[r] = "authenticated"
           /\ \E s \in {"signed", "refused"} : stage' = [stage EXCEPT ![r] = s]
           /\ UNCHANGED <<turn, tried>>

Deliver(r) == /\ turn = r
              /\ stage[r] = "signed"
              /\ stage' = [stage EXCEPT ![r] = "delivered"]
              /\ UNCHANGED <<turn, tried>>

Refuse(r) == /\ turn = r
             /\ stage[r] \in Open
             /\ stage' = [stage EXCEPT ![r] = "refused"]
             /\ UNCHANGED <<turn, tried>>

End(r) == /\ turn = r
          /\ stage[r] \in Settled
          /\ turn' = Nobody
          /\ UNCHANGED <<stage, tried>>

Next == \E r \in Requests :
            \/ Begin(r) \/ Consent(r) \/ TryPin(r) \/ Sign(r)
            \/ Deliver(r) \/ Refuse(r) \/ End(r)

Spec == Init /\ [][Next]_vars

(* Requests never overlap, and what was not consented to is neither tried  *)
(* nor signed.                                                             *)
TurnsAreWhole ==
    \A r \in Requests :
        /\ stage[r] \in Open => turn = r
        /\ r \in tried => stage[r] \in {"authenticated", "signed"} \cup Settled
        /\ stage[r] \in {"authenticated", "signed", "delivered"} => r \in tried
=============================================================================
