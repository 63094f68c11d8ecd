------------------------- MODULE TokenInspectProofs -------------------------
(***************************************************************************)
(* The properties of an inspection, for any slots, tokens and PINs.  The   *)
(* invariant says what the walk knows of the slot it is at, of the slots   *)
(* it has not visited, and of the tokens that nobody has moved.            *)
(***************************************************************************)
EXTENDS TokenInspect, FiniteSetTheorems, TLAPS

AtSlot == {"token", "open", "login", "keys", "close"}
Before == {"token", "open", "login"}

LoginFailed == {s \in Slots : report[s] = "loginFailed"}

(* A slot that is still to be looked at has no line in the report; one     *)
(* that is being looked at has none until its session is to be closed.     *)
Walk ==
    /\ stage \in AtSlot => slot \in Slots /\ slot \notin todo
    /\ \A s \in todo : report[s] = "none"
    /\ stage \in Before \cup {"keys"} => report[slot] = "none"
    /\ stage = "load" => \A s \in Slots : report[s] = "none"
    /\ exit = 0 => stage = "exited"
    /\ stage = "exited" => todo = {}
    /\ todo \subseteq {s \in Slots : opts.slot \in {NoFilter, s}}

(* A token is in one slot, and the session is open on the one in the slot  *)
(* that is being looked at.                                                *)
Places ==
    /\ \A s, u \in Slots : reader[s] = reader[u] => s = u \/ reader[s] = NoToken
    /\ session # NoToken => stage \in {"login", "keys", "close"} /\ reader[slot] = session

(* A token that was tried and not moved sits in a slot already visited;    *)
(* with --slot, nothing is tried before that slot is reached.              *)
Tried ==
    /\ \A t \in Tokens \ moved : logins[t] > 0 =>
           \A s \in Slots : reader[s] = t => s \notin todo /\ (stage \in Before => s # slot)
    /\ opts.slot # NoFilter =>
           /\ todo # {} => stage \notin AtSlot
           /\ todo # {} \/ stage \in Before => \A t \in Tokens : logins[t] = 0

(* A token left in place that the filters admit is still to be visited, is *)
(* being looked at, or has its line.                                       *)
Seen ==
    \A s \in Slots :
        /\ opts.slot \in {NoFilter, s}
        /\ reader[s] # NoToken /\ reader[s] \notin moved
        /\ opts.label \in {NoFilter, reader[s]}
        => \/ s \in todo
           \/ stage \in Before \cup {"keys"} /\ slot = s
           \/ report[s] \notin {"none", "empty"}

IndInv == /\ TypeOK /\ Walk /\ Places /\ Tried /\ Seen
          /\ FailuresAreReported /\ OneLoginPerToken

-----------------------------------------------------------------------------
(* The slots with a failed login are finitely many, and one more of them   *)
(* is one more.                                                            *)
LEMMA OneMoreFailure ==
  ASSUME NEW s \in Slots, s \notin LoginFailed,
         LoginFailed' = LoginFailed \cup {s}
  PROVE  Cardinality(LoginFailed') = Cardinality(LoginFailed) + 1
<1>1. IsFiniteSet(LoginFailed)
  BY InspectAssumption, FS_Subset DEF LoginFailed
<1> QED
  BY <1>1, FS_AddElement

(* A run starts with nothing reported and nobody tried.                    *)
LEMMA InitHolds == Init => IndInv
<1> SUFFICES ASSUME Init PROVE IndInv
  OBVIOUS
<1> USE InspectAssumption DEF Init
<1>1. TypeOK
  BY DEF TypeOK, Lines
<1>2. Walk /\ Places /\ Tried /\ Seen
  BY DEF Walk, Places, Tried, Seen, AtSlot, Before
<1>3. FailuresAreReported
  <2>1. {s \in Slots : report[s] = "loginFailed"} = {}
    OBVIOUS
  <2> QED
    BY <2>1, FS_EmptySet DEF FailuresAreReported
<1>4. OneLoginPerToken
  BY DEF OneLoginPerToken
<1> QED
  BY <1>1, <1>2, <1>3, <1>4 DEF IndInv

(* Loading the module changes the stage only.                              *)
LEMMA LoadStep == IndInv /\ Load => IndInv'
<1> SUFFICES ASSUME IndInv, Load PROVE IndInv'
  OBVIOUS
<1> USE InspectAssumption DEF IndInv, Load, envVars, loginVars
<1>1. TypeOK'
  BY DEF TypeOK
<1>2. (Walk /\ Places /\ Tried /\ Seen)'
  BY DEF TypeOK, Walk, Places, Tried, Seen, AtSlot, Before
<1>3. FailuresAreReported' /\ OneLoginPerToken'
  BY DEF FailuresAreReported, OneLoginPerToken
<1> QED
  BY <1>1, <1>2, <1>3

(* A visited slot leaves the list; its line, if it gets one, is no failed  *)
(* login.                                                                  *)
LEMMA VisitSlotStep ==
  ASSUME IndInv, NEW s \in Slots, VisitSlot(s)
  PROVE  IndInv'
<1> USE InspectAssumption DEF IndInv, VisitSlot, Continue, envVars, loginVars
<1>1. TypeOK'
  BY DEF TypeOK, Lines
<1>2. Walk' /\ Places'
  BY DEF TypeOK, Walk, Places, AtSlot, Before, Lines
<1>3. Tried'
  BY DEF TypeOK, Walk, Tried, AtSlot, Before
<1>4. Seen'
  BY DEF TypeOK, Walk, Seen, AtSlot, Before, Lines
<1>5. FailuresAreReported'
  <2>1. {u \in Slots : report'[u] = "loginFailed"} = {u \in Slots : report[u] = "loginFailed"}
    BY DEF TypeOK, Walk
  <2> QED
    BY <2>1 DEF FailuresAreReported
<1>6. OneLoginPerToken'
  BY DEF OneLoginPerToken
<1> QED
  BY <1>1, <1>2, <1>3, <1>4, <1>5, <1>6

(* Reading the token may end the slot's visit with a warning or, filtered  *)
(* out, with no line.                                                      *)
LEMMA ReadTokenStep == IndInv /\ ReadToken => IndInv'
<1> SUFFICES ASSUME IndInv, ReadToken PROVE IndInv'
  OBVIOUS
<1> USE InspectAssumption DEF IndInv, ReadToken, EndSlot, Continue, envVars, loginVars
<1>1. TypeOK'
  BY DEF TypeOK, Walk, AtSlot, Lines
<1>2. Walk' /\ Places' /\ Tried'
  BY DEF TypeOK, Walk, Places, Tried, AtSlot, Before
<1>3. Seen'
  BY DEF TypeOK, Walk, Seen, AtSlot, Before
<1>4. FailuresAreReported'
  <2>1. {u \in Slots : report'[u] = "loginFailed"} = {u \in Slots : report[u] = "loginFailed"}
    BY DEF TypeOK, Walk, AtSlot, Before
  <2> QED
    BY <2>1 DEF FailuresAreReported, Walk
<1>5. OneLoginPerToken'
  BY DEF OneLoginPerToken
<1> QED
  BY <1>1, <1>2, <1>3, <1>4, <1>5

(* A session is opened on the token that is in the slot by then.           *)
LEMMA OpenSessionStep == IndInv /\ OpenSession => IndInv'
<1> SUFFICES ASSUME IndInv, OpenSession PROVE IndInv'
  OBVIOUS
<1> USE InspectAssumption DEF IndInv, OpenSession, EndSlot, Continue, envVars, loginVars
<1>1. TypeOK'
  BY DEF TypeOK, Walk, AtSlot, Lines
<1>2. Walk' /\ Places' /\ Tried'
  BY DEF TypeOK, Walk, Places, Tried, AtSlot, Before
<1>3. Seen'
  BY DEF TypeOK, Walk, Seen, AtSlot, Before
<1>4. FailuresAreReported'
  <2>1. {u \in Slots : report'[u] = "loginFailed"} = {u \in Slots : report[u] = "loginFailed"}
    BY DEF TypeOK, Walk, AtSlot, Before
  <2> QED
    BY <2>1 DEF FailuresAreReported, Walk
<1>5. OneLoginPerToken'
  BY DEF OneLoginPerToken
<1> QED
  BY <1>1, <1>2, <1>3, <1>4, <1>5

(* The login is counted and, if it fails, becomes the line of its slot,    *)
(* which had none; a token that was not moved had not been tried.          *)
LEMMA LoginStep == IndInv /\ Login => IndInv'
<1> SUFFICES ASSUME IndInv, Login PROVE IndInv'
  OBVIOUS
<1> USE InspectAssumption DEF IndInv, Login, Continue, envVars
<1>1. /\ slot \in Slots /\ slot \notin todo /\ report[slot] = "none"
      /\ session # NoToken => reader[slot] = session
      /\ reader \in [Slots -> Tokens \cup {NoToken}] /\ report \in [Slots -> Lines]
      /\ tries \in [Tokens -> 0 .. MaxTries] /\ session \in Tokens \cup {NoToken}
      /\ logins \in [Tokens -> Nat] /\ failures \in Nat /\ exit # 0
  BY DEF TypeOK, Walk, Places, AtSlot, Before
<1>2. \/ /\ report' = report /\ stage' = "keys" /\ failures' = failures
      \/ /\ report' = [report EXCEPT ![slot] = "loginFailed"]
         /\ stage' = "close" /\ failures' = failures + 1
  BY DEF LoginSucceeds, LoginFails
<1>3. TypeOK'
  <2>1. tries' \in [Tokens -> 0 .. MaxTries]
    BY <1>1 DEF LoginSucceeds, LoginFails, Accepted, AfterWrongPin
  <2>2. report' \in [Slots -> Lines] /\ failures' \in Nat
    BY <1>1, <1>2 DEF Lines
  <2>3. logins' \in [Tokens -> Nat]
    BY <1>1
  <2> QED
    BY <2>1, <2>2, <2>3, <1>2 DEF TypeOK
<1>4. Walk' /\ Places'
  BY <1>1, <1>2 DEF Walk, Places, AtSlot, Before
<1>5. \A t \in Tokens \ moved : t = session => logins[t] = 0
  BY <1>1 DEF Tried, Before
<1>6. Tried'
  BY <1>1, <1>2 DEF Tried, Places, AtSlot, Before
<1>7. Seen'
  BY <1>1, <1>2 DEF Seen, Before
<1>8. FailuresAreReported'
  <2>1. CASE report' = report /\ failures' = failures
    BY <2>1 DEF FailuresAreReported
  <2>2. CASE /\ report' = [report EXCEPT ![slot] = "loginFailed"]
             /\ failures' = failures + 1
    <3>1. LoginFailed' = LoginFailed \cup {slot} /\ slot \notin LoginFailed
      BY <1>1, <2>2 DEF LoginFailed
    <3>2. Cardinality(LoginFailed') = Cardinality(LoginFailed) + 1
      BY <1>1, <3>1, OneMoreFailure
    <3> QED
      BY <1>1, <2>2, <3>2 DEF FailuresAreReported, LoginFailed
  <2> QED
    BY <1>2, <2>1, <2>2
<1>9. OneLoginPerToken'
  <2> SUFFICES ASSUME NEW t \in Tokens, t \notin moved \/ opts.slot # NoFilter
               PROVE  logins'[t] <= 1
    BY DEF OneLoginPerToken
  <2>1. t = session => logins[t] = 0
    BY <1>5 DEF Tried, Before
  <2>2. logins[t] <= 1 /\ logins[t] \in Nat
    BY <1>1 DEF OneLoginPerToken
  <2> QED
    BY <2>1, <2>2
<1> QED
  BY <1>3, <1>4, <1>6, <1>7, <1>8, <1>9

(* Listing the keys gives the slot its line.                               *)
LEMMA ListKeysStep == IndInv /\ ListKeys => IndInv'
<1> SUFFICES ASSUME IndInv, ListKeys PROVE IndInv'
  OBVIOUS
<1> USE InspectAssumption DEF IndInv, ListKeys, envVars, loginVars
<1>1. TypeOK'
  BY DEF TypeOK, Walk, AtSlot, Lines
<1>2. Walk' /\ Places' /\ Tried'
  BY DEF TypeOK, Walk, Places, Tried, AtSlot, Before
<1>3. Seen'
  BY DEF TypeOK, Walk, Seen, AtSlot, Before
<1>4. FailuresAreReported'
  <2>1. {u \in Slots : report'[u] = "loginFailed"} = {u \in Slots : report[u] = "loginFailed"}
    BY DEF TypeOK, Walk, AtSlot, Before
  <2> QED
    BY <2>1 DEF FailuresAreReported, Walk
<1>5. OneLoginPerToken'
  BY DEF OneLoginPerToken
<1> QED
  BY <1>1, <1>2, <1>3, <1>4, <1>5

(* Closing the session, ending the run, and tokens that come and go.       *)
LEMMA OtherSteps ==
  ASSUME IndInv,
         \/ CloseSession \/ Finish \/ UNCHANGED vars
         \/ \E s \in Slots : Unplug(s) \/ \E t \in Tokens : Plug(t, s)
  PROVE  IndInv'
<1> USE InspectAssumption DEF IndInv, envVars, loginVars
<1>1. CASE CloseSession
  <2> USE <1>1 DEF CloseSession, Continue
  <2>1. TypeOK' /\ Walk' /\ Places'
    BY DEF TypeOK, Walk, Places, AtSlot, Before
  <2>2. Tried' /\ Seen'
    BY DEF TypeOK, Walk, Tried, Seen, AtSlot, Before
  <2>3. FailuresAreReported' /\ OneLoginPerToken'
    BY DEF FailuresAreReported, OneLoginPerToken
  <2> QED
    BY <2>1, <2>2, <2>3
<1>2. CASE Finish
  <2> USE <1>2 DEF Finish
  <2>1. TypeOK' /\ Walk' /\ Places'
    BY DEF TypeOK, Walk, Places, AtSlot, Before
  <2>2. Tried' /\ Seen'
    BY DEF TypeOK, Walk, Tried, Seen, AtSlot, Before
  <2>3. FailuresAreReported'
    <3>1. ASSUME exit' = 0
          PROVE  {s \in Slots : report[s] = "loginFailed"} = {}
      BY <3>1
    <3> QED
      BY <3>1, FS_EmptySet DEF FailuresAreReported
  <2>4. OneLoginPerToken'
    BY DEF OneLoginPerToken
  <2> QED
    BY <2>1, <2>2, <2>3, <2>4
<1>3. ASSUME NEW s \in Slots, Unplug(s) PROVE IndInv'
  <2> USE <1>3 DEF Unplug
  <2>1. TypeOK' /\ Walk'
    BY DEF TypeOK, Walk, AtSlot, Before
  <2>2. Places' /\ Tried'
    BY DEF TypeOK, Walk, Places, Tried, AtSlot, Before
  <2>3. Seen'
    BY DEF TypeOK, Seen
  <2>4. FailuresAreReported' /\ OneLoginPerToken'
    BY DEF FailuresAreReported, OneLoginPerToken
  <2> QED
    BY <2>1, <2>2, <2>3, <2>4
<1>4. ASSUME NEW s \in Slots, NEW t \in Tokens, Plug(t, s) PROVE IndInv'
  <2> USE <1>4 DEF Plug
  <2>1. TypeOK' /\ Walk'
    BY DEF TypeOK, Walk, AtSlot, Before
  <2>2. Places' /\ Tried'
    BY DEF TypeOK, Walk, Places, Tried, AtSlot, Before
  <2>3. Seen'
    BY DEF TypeOK, Seen
  <2>4. FailuresAreReported' /\ OneLoginPerToken'
    BY DEF FailuresAreReported, OneLoginPerToken
  <2> QED
    BY <2>1, <2>2, <2>3, <2>4
<1>5. CASE UNCHANGED vars
  BY <1>5 DEF vars, TypeOK, Walk, Places, Tried, Seen, FailuresAreReported,
              OneLoginPerToken
<1> QED
  BY <1>1, <1>2, <1>3, <1>4, <1>5

-----------------------------------------------------------------------------
(* The invariant holds of every run, whatever is plugged and pulled.       *)
THEOREM Inductive == Spec => []IndInv
<1>1. IndInv /\ [Next]_vars => IndInv'
  BY LoadStep, VisitSlotStep, ReadTokenStep, OpenSessionStep, LoginStep, ListKeysStep,
     OtherSteps DEF Next, Inspect
<1> QED
  BY <1>1, InitHolds, PTL DEF Spec

(* The types.                                                              *)
THEOREM TypesHold == Spec => []TypeOK
<1>1. IndInv => TypeOK
  BY DEF IndInv
<1> QED
  BY <1>1, Inductive, PTL

(* Every failed login is the line of one slot and shows in the exit code.  *)
THEOREM FailuresAreTold == Spec => []FailuresAreReported
<1>1. IndInv => FailuresAreReported
  BY DEF IndInv
<1> QED
  BY <1>1, Inductive, PTL

(* No token that stays in place, or that --slot names, is tried twice.     *)
THEOREM TokensAreTriedOnce == Spec => []OneLoginPerToken
<1>1. IndInv => OneLoginPerToken
  BY DEF IndInv
<1> QED
  BY <1>1, Inductive, PTL

(* No token that stays in place is left out of a finished report.          *)
THEOREM ReportIsComplete == Spec => []NothingIsSkipped
<1>1. IndInv => NothingIsSkipped
  BY DEF IndInv, Walk, Seen, Before, NothingIsSkipped
<1> QED
  BY <1>1, Inductive, PTL
=============================================================================
