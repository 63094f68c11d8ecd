-------------------------- MODULE SignDaemonProofs --------------------------
(***************************************************************************)
(* IndInv is an inductive invariant of SignDaemon, for any sets of         *)
(* requests, listings, tokens, keys, PINs and bodies.  It strengthens the  *)
(* named safety properties by what each stage of a request knows: a module *)
(* can only be said to be finalised by the request that initialised it,    *)
(* and a signature only to be of the key asked for, if the stages between  *)
(* are told apart.  One lemma per action, one step per conjunct.           *)
(* On it rest the counts of tries, the honesty of answers, the refinement  *)
(* of ConfirmedSigning and what becomes of an abandoned request.           *)
(***************************************************************************)
EXTENDS SignDaemon, FiniteSetTheorems, TLAPS

(* A body handleSign lets through names a key and a document.              *)
LEMMA BodyIsSignable ==
  ASSUME TypeOK, NEW r \in Requests, Refusal(body[r]) = 0
  PROVE  SignatureFor(body[r]) \in Signatures
<1>1. body[r] \in BodyTypes
  BY DEF TypeOK
<1>2. body[r].cert \in Keys /\ body[r].data \in Docs
  BY <1>1 DEF Refusal, BodyTypes
<1> QED
  BY <1>2 DEF SignatureFor, Signatures

(* Refusing a body or queueing it keeps IndInv: a refused request has not  *)
(* been asked and has touched nothing.                                     *)
LEMMA HandleSignStep ==
  ASSUME IndInv, NEW r \in Requests, HandleSign(r)
  PROVE  IndInv'
<1> USE ConstantsAssumption, SentinelsAssumption
    DEF IndInv, Goto, Return, requestVars, tokenVars, signVars, listVars
<1>1. TypeOK'
  BY DEF TypeOK, Stages, Statuses, Refusal, HandleSign
<1>2. OneOperation'
  BY DEF TypeOK, OneOperation, Holding, Owners, HandleSign
<1>3. ModuleDiscipline'
  BY DEF TypeOK, OneOperation, ModuleDiscipline, Holding, Initialised,
         Authenticated, Owners, Sessions, HandleSign
<1>4. (\A q \in Requests : StageFacts(q))'
  BY DEF TypeOK, StageFacts, Unasked, SignedAsAsked, SignatureFor, KeyFound,
         HandleSign
<1>5. (\A q \in Requests : OutcomeFacts(q))'
  BY DEF TypeOK, StageFacts, OutcomeFacts, Unasked, SignedAsAsked, Outcomes,
         Refusal, ErrorStatus, HandleSign
<1>6. KeyFound'
  BY DEF TypeOK, KeyFound, OneOperation, ModuleDiscipline, Initialised,
         Authenticated, Holding, Owners, Sessions, HandleSign
<1> QED
  BY <1>1, <1>2, <1>3, <1>4, <1>5, <1>6

(* A disconnect changes gone only, which IndInv does not mention.          *)
LEMMA DisconnectStep ==
  ASSUME IndInv, NEW r \in Requests, Disconnect(r)
  PROVE  IndInv'
<1> USE ConstantsAssumption, SentinelsAssumption
    DEF IndInv, Goto, Return, requestVars, tokenVars, signVars, listVars
<1>1. TypeOK'
  BY DEF TypeOK, Disconnect
<1>2. OneOperation'
  BY DEF TypeOK, OneOperation, Holding, Owners, Disconnect
<1>3. ModuleDiscipline'
  BY DEF TypeOK, OneOperation, ModuleDiscipline, Holding, Initialised,
         Authenticated, Owners, Sessions, Disconnect
<1>4. (\A q \in Requests : StageFacts(q))'
  BY DEF TypeOK, OneOperation, StageFacts, Unasked, SignedAsAsked,
         SignatureFor, KeyFound, Disconnect
<1>5. (\A q \in Requests : OutcomeFacts(q))'
  BY DEF TypeOK, StageFacts, OutcomeFacts, Unasked, SignedAsAsked, Outcomes,
         Refusal, ErrorStatus, Disconnect
<1>6. KeyFound'
  BY DEF TypeOK, KeyFound, OneOperation, ModuleDiscipline, Initialised,
         Authenticated, Holding, Owners, Sessions, Disconnect
<1> QED
  BY <1>1, <1>2, <1>3, <1>4, <1>5, <1>6

(* Taking the free mutex starts the one operation; nobody else was inside. *)
LEMMA LockMuStep ==
  ASSUME IndInv, NEW r \in Requests, LockMu(r)
  PROVE  IndInv'
<1> USE ConstantsAssumption, SentinelsAssumption
    DEF IndInv, Goto, Return, requestVars, tokenVars, signVars, listVars
<1>1. TypeOK'
  BY DEF TypeOK, Stages, Outcomes, LockMu
<1>2. OneOperation'
  BY DEF TypeOK, OneOperation, Holding, Owners, LockMu
<1>3. ModuleDiscipline'
  BY DEF TypeOK, OneOperation, ModuleDiscipline, Holding, Initialised,
         Authenticated, Owners, Sessions, LockMu
<1>4. (\A q \in Requests : StageFacts(q))'
  BY DEF TypeOK, OneOperation, StageFacts, Unasked, SignedAsAsked,
         SignatureFor, KeyFound, LockMu
<1>5. (\A q \in Requests : OutcomeFacts(q))'
  BY DEF TypeOK, StageFacts, OutcomeFacts, Unasked, SignedAsAsked, Outcomes,
         Refusal, ErrorStatus, LockMu
<1>6. KeyFound'
  BY DEF TypeOK, KeyFound, OneOperation, ModuleDiscipline, Initialised,
         Authenticated, Holding, Owners, Sessions, LockMu
<1> QED
  BY <1>1, <1>2, <1>3, <1>4, <1>5, <1>6

(* A typed PIN is kept by the holder of the mutex only, and is untried.    *)
LEMMA EnterPinStep ==
  ASSUME IndInv, NEW r \in Requests, NEW p \in Pins, EnterPin(r, p)
  PROVE  IndInv'
<1> USE ConstantsAssumption, SentinelsAssumption
    DEF IndInv, Goto, Return, requestVars, tokenVars, signVars, listVars
<1>1. TypeOK'
  BY DEF TypeOK, Stages, EnterPin
<1>2. OneOperation'
  BY DEF TypeOK, OneOperation, Holding, Owners, EnterPin
<1>3. ModuleDiscipline'
  BY DEF TypeOK, OneOperation, ModuleDiscipline, Holding, Initialised,
         Authenticated, Owners, Sessions, EnterPin
<1>4. (\A q \in Requests : StageFacts(q))'
  BY DEF TypeOK, OneOperation, StageFacts, Unasked, SignedAsAsked,
         SignatureFor, KeyFound, EnterPin
<1>5. (\A q \in Requests : OutcomeFacts(q))'
  BY DEF TypeOK, StageFacts, OutcomeFacts, Unasked, SignedAsAsked, Outcomes,
         Refusal, ErrorStatus, EnterPin
<1>6. KeyFound'
  BY DEF TypeOK, KeyFound, OneOperation, ModuleDiscipline, Initialised,
         Authenticated, Holding, Owners, Sessions, EnterPin
<1> QED
  BY <1>1, <1>2, <1>3, <1>4, <1>5, <1>6

(* A cancelled request goes to its unlock without having touched the       *)
(* token.                                                                  *)
LEMMA CancelDialogStep ==
  ASSUME IndInv, NEW r \in Requests, CancelDialog(r)
  PROVE  IndInv'
<1> USE ConstantsAssumption, SentinelsAssumption
    DEF IndInv, Goto, Return, requestVars, tokenVars, signVars, listVars
<1>1. TypeOK'
  BY DEF TypeOK, Stages, Outcomes, CancelDialog
<1>2. OneOperation'
  BY DEF TypeOK, OneOperation, Holding, Owners, CancelDialog
<1>3. ModuleDiscipline'
  BY DEF TypeOK, OneOperation, ModuleDiscipline, Holding, Initialised,
         Authenticated, Owners, Sessions, CancelDialog
<1>4. (\A q \in Requests : StageFacts(q))'
  BY DEF TypeOK, OneOperation, StageFacts, Unasked, SignedAsAsked,
         SignatureFor, KeyFound, CancelDialog
<1>5. (\A q \in Requests : OutcomeFacts(q))'
  BY DEF TypeOK, StageFacts, OutcomeFacts, Unasked, SignedAsAsked, Outcomes,
         Refusal, ErrorStatus, CancelDialog
<1>6. KeyFound'
  BY DEF TypeOK, KeyFound, OneOperation, ModuleDiscipline, Initialised,
         Authenticated, Holding, Owners, Sessions, CancelDialog
<1> QED
  BY <1>1, <1>2, <1>3, <1>4, <1>5, <1>6

(* A dialog that could not run ends the request before the module is       *)
(* loaded.                                                                 *)
LEMMA DialogFailsStep ==
  ASSUME IndInv, NEW r \in Requests, DialogFails(r)
  PROVE  IndInv'
<1> USE ConstantsAssumption, SentinelsAssumption
    DEF IndInv, Goto, Return, requestVars, tokenVars, signVars, listVars
<1>1. TypeOK'
  BY DEF TypeOK, Stages, Outcomes, DialogFails
<1>2. OneOperation'
  BY DEF TypeOK, OneOperation, Holding, Owners, DialogFails
<1>3. ModuleDiscipline'
  BY DEF TypeOK, OneOperation, ModuleDiscipline, Holding, Initialised,
         Authenticated, Owners, Sessions, DialogFails
<1>4. (\A q \in Requests : StageFacts(q))'
  BY DEF TypeOK, OneOperation, StageFacts, Unasked, SignedAsAsked,
         SignatureFor, KeyFound, DialogFails
<1>5. (\A q \in Requests : OutcomeFacts(q))'
  BY DEF TypeOK, StageFacts, OutcomeFacts, Unasked, SignedAsAsked, Outcomes,
         Refusal, ErrorStatus, DialogFails
<1>6. KeyFound'
  BY DEF TypeOK, KeyFound, OneOperation, ModuleDiscipline, Initialised,
         Authenticated, Holding, Owners, Sessions, DialogFails
<1> QED
  BY <1>1, <1>2, <1>3, <1>4, <1>5, <1>6

(* C_Initialize by the holder of mu, or its failure because a listing has  *)
(* the module.                                                             *)
LEMMA LoadModuleStep ==
  ASSUME IndInv, NEW r \in Requests, LoadModule(r)
  PROVE  IndInv'
<1> USE ConstantsAssumption, SentinelsAssumption
    DEF IndInv, Goto, Return, requestVars, tokenVars, signVars, listVars
<1>1. TypeOK'
  BY DEF TypeOK, Stages, Outcomes, Owners, LoadModule
<1>2. OneOperation'
  BY DEF TypeOK, OneOperation, Holding, Owners, LoadModule
<1>3. ModuleDiscipline'
  BY DEF TypeOK, OneOperation, ModuleDiscipline, Holding, Initialised,
         Authenticated, Owners, Sessions, LoadModule
<1>4. (\A q \in Requests : StageFacts(q))'
  BY DEF TypeOK, OneOperation, StageFacts, Unasked, SignedAsAsked,
         SignatureFor, KeyFound, LoadModule
<1>5. (\A q \in Requests : OutcomeFacts(q))'
  BY DEF TypeOK, StageFacts, OutcomeFacts, Unasked, SignedAsAsked, Outcomes,
         Refusal, ErrorStatus, LoadModule
<1>6. KeyFound'
  BY DEF TypeOK, KeyFound, OneOperation, ModuleDiscipline, Initialised,
         Authenticated, Holding, Owners, Sessions, LoadModule
<1> QED
  BY <1>1, <1>2, <1>3, <1>4, <1>5, <1>6

(* The session is opened logged out, by the request that initialised the   *)
(* module.                                                                 *)
LEMMA OpenSessionStep ==
  ASSUME IndInv, NEW r \in Requests, OpenSession(r)
  PROVE  IndInv'
<1> USE ConstantsAssumption, SentinelsAssumption
    DEF IndInv, Goto, Return, requestVars, tokenVars, signVars, listVars
<1>1. TypeOK'
  <2>1. session' \in Sessions \cup {NoSession}
    <3>1. \A t \in Tokens : [token |-> t, loggedIn |-> FALSE, key |-> NoKey] \in Sessions
      BY DEF Sessions
    <3> QED
      BY <3>1 DEF TypeOK, OpenSession
  <2>2. pc' \in [Requests -> Stages] /\ outcome' \in [Requests -> Outcomes]
    BY DEF TypeOK, Stages, Outcomes, OpenSession
  <2> QED
    BY <2>1, <2>2 DEF TypeOK, OpenSession
<1>2. OneOperation'
  BY DEF TypeOK, OneOperation, Holding, Owners, OpenSession
<1>3. ModuleDiscipline'
  BY DEF TypeOK, OneOperation, ModuleDiscipline, Holding, Initialised,
         Authenticated, Owners, Sessions, OpenSession
<1>4. (\A q \in Requests : StageFacts(q))'
  BY DEF TypeOK, OneOperation, StageFacts, Unasked, SignedAsAsked,
         SignatureFor, KeyFound, OpenSession
<1>5. (\A q \in Requests : OutcomeFacts(q))'
  BY DEF TypeOK, StageFacts, OutcomeFacts, Unasked, SignedAsAsked, Outcomes,
         Refusal, ErrorStatus, OpenSession
<1>6. KeyFound'
  BY DEF TypeOK, KeyFound, OneOperation, ModuleDiscipline, Initialised,
         Authenticated, Holding, Owners, Sessions, OpenSession
<1> QED
  BY <1>1, <1>2, <1>3, <1>4, <1>5, <1>6

(* The only C_Login: it is the first of its request, and a failed one      *)
(* leaves no session.                                                      *)
LEMMA LoginStep ==
  ASSUME IndInv, NEW r \in Requests, Login(r)
  PROVE  IndInv'
<1> USE ConstantsAssumption, SentinelsAssumption
    DEF IndInv, Goto, Return, requestVars, tokenVars, signVars, listVars
<1>1. TypeOK'
  <2>1. session' \in Sessions \cup {NoSession}
    BY DEF TypeOK, Sessions, Login
  <2>2. pc' \in [Requests -> Stages] /\ outcome' \in [Requests -> Outcomes]
    BY DEF TypeOK, Stages, Outcomes, Login
  <2>3. tries' \in [Tokens -> 0 .. MaxTries]
    <3>1. \A n \in 0 .. MaxTries : AfterWrongPin(n) \in 0 .. MaxTries
      BY DEF AfterWrongPin
    <3>2. MaxTries \in 0 .. MaxTries
      OBVIOUS
    <3> QED
      BY <3>1, <3>2 DEF TypeOK, Sessions, Login
  <2>4. logins' \in [Requests -> Nat]
    BY DEF TypeOK, Login
  <2> QED
    BY <2>1, <2>2, <2>3, <2>4 DEF TypeOK, Login
<1>2. OneOperation'
  BY DEF TypeOK, OneOperation, Holding, Owners, Login
<1>3. ModuleDiscipline'
  BY DEF TypeOK, OneOperation, ModuleDiscipline, Holding, Initialised,
         Authenticated, Owners, Sessions, Login
<1>4. (\A q \in Requests : StageFacts(q))'
  BY DEF TypeOK, OneOperation, StageFacts, Unasked, SignedAsAsked,
         SignatureFor, KeyFound, Login
<1>5. (\A q \in Requests : OutcomeFacts(q))'
  BY DEF TypeOK, StageFacts, OutcomeFacts, Unasked, SignedAsAsked, Outcomes,
         Refusal, ErrorStatus, Login
<1>6. KeyFound'
  BY DEF TypeOK, KeyFound, OneOperation, ModuleDiscipline, Initialised,
         Authenticated, Holding, Owners, Sessions, Login
<1> QED
  BY <1>1, <1>2, <1>3, <1>4, <1>5, <1>6

(* The handle found is the key the body named; otherwise the session is    *)
(* closed.                                                                 *)
LEMMA SelectKeyStep ==
  ASSUME IndInv, NEW r \in Requests, SelectKey(r)
  PROVE  IndInv'
<1> USE ConstantsAssumption, SentinelsAssumption
    DEF IndInv, Goto, Return, requestVars, tokenVars, signVars, listVars
<1>1. TypeOK'
  BY DEF TypeOK, Stages, Outcomes, Sessions, SelectKey
<1>2. OneOperation'
  BY DEF TypeOK, OneOperation, Holding, Owners, SelectKey
<1>3. ModuleDiscipline'
  BY DEF TypeOK, OneOperation, ModuleDiscipline, Holding, Initialised,
         Authenticated, Owners, Sessions, SelectKey
<1>4. (\A q \in Requests : StageFacts(q))'
  BY DEF TypeOK, OneOperation, StageFacts, Unasked, SignedAsAsked,
         SignatureFor, KeyFound, SelectKey
<1>5. (\A q \in Requests : OutcomeFacts(q))'
  BY DEF TypeOK, StageFacts, OutcomeFacts, Unasked, SignedAsAsked, Outcomes,
         Refusal, ErrorStatus, SelectKey
<1>6. KeyFound'
  BY DEF TypeOK, KeyFound, OneOperation, ModuleDiscipline, Initialised,
         Authenticated, Holding, Owners, Sessions, SelectKey
<1> QED
  BY <1>1, <1>2, <1>3, <1>4, <1>5, <1>6

(* A profile that refuses, fails or panics leads to the deferred closes.   *)
LEMMA PrepareStep ==
  ASSUME IndInv, NEW r \in Requests, Prepare(r)
  PROVE  IndInv'
<1> USE ConstantsAssumption, SentinelsAssumption
    DEF IndInv, Goto, Return, requestVars, tokenVars, signVars, listVars
<1>1. TypeOK'
  BY DEF TypeOK, Stages, Outcomes, Prepare, PreparePades, PrepareXades,
         PrepareAuth
<1>2. OneOperation'
  BY DEF TypeOK, OneOperation, Holding, Owners, Prepare, PreparePades,
         PrepareXades, PrepareAuth
<1>3. ModuleDiscipline'
  BY DEF TypeOK, OneOperation, ModuleDiscipline, Holding, Initialised,
         Authenticated, Owners, Sessions, Prepare, PreparePades, PrepareXades,
         PrepareAuth
<1>4. (\A q \in Requests : StageFacts(q))'
  BY DEF TypeOK, OneOperation, StageFacts, Unasked, SignedAsAsked, SignatureFor,
         KeyFound, Prepare, PreparePades, PrepareXades, PrepareAuth
<1>5. (\A q \in Requests : OutcomeFacts(q))'
  BY DEF TypeOK, StageFacts, OutcomeFacts, Unasked, SignedAsAsked, Outcomes,
         Refusal, ErrorStatus, Prepare, PreparePades, PrepareXades, PrepareAuth
<1>6. KeyFound'
  BY DEF TypeOK, KeyFound, OneOperation, ModuleDiscipline, Initialised,
         Authenticated, Holding, Owners, Sessions, Prepare, PreparePades,
         PrepareXades, PrepareAuth
<1> QED
  BY <1>1, <1>2, <1>3, <1>4, <1>5, <1>6

(* The signature made is over the request's document with the selected     *)
(* key.                                                                    *)
LEMMA TokenSignStep ==
  ASSUME IndInv, NEW r \in Requests, TokenSign(r)
  PROVE  IndInv'
<1> USE ConstantsAssumption, SentinelsAssumption
    DEF IndInv, Goto, Return, requestVars, tokenVars, signVars, listVars
<1>1. TypeOK'
  <2>1. session # NoSession => [key |-> session.key, doc |-> body[r].data] \in Signatures
    <3>1. SignatureFor(body[r]) \in Signatures
      BY BodyIsSignable DEF StageFacts, TokenSign
    <3>2. session # NoSession => session.key = body[r].cert
      BY DEF KeyFound, TokenSign
    <3> QED
      BY <3>1, <3>2 DEF SignatureFor
  <2>2. signs[r] + 1 \in 0 .. (MaxResigns + 1)
    BY DEF TypeOK, StageFacts, TokenSign
  <2> QED
    BY <2>1, <2>2 DEF TypeOK, Stages, Outcomes, TokenSign
<1>2. OneOperation'
  BY DEF TypeOK, OneOperation, Holding, Owners, TokenSign
<1>3. ModuleDiscipline'
  BY DEF TypeOK, OneOperation, ModuleDiscipline, Holding, Initialised,
         Authenticated, Owners, Sessions, TokenSign
<1>4. (\A q \in Requests : StageFacts(q))'
  BY DEF TypeOK, OneOperation, StageFacts, Unasked, SignedAsAsked,
         SignatureFor, KeyFound, TokenSign
<1>5. (\A q \in Requests : OutcomeFacts(q))'
  BY DEF TypeOK, StageFacts, OutcomeFacts, Unasked, SignedAsAsked, Outcomes,
         Refusal, ErrorStatus, TokenSign
<1>6. KeyFound'
  BY DEF TypeOK, KeyFound, OneOperation, ModuleDiscipline, Initialised,
         Authenticated, Holding, Owners, Sessions, TokenSign
<1> QED
  BY <1>1, <1>2, <1>3, <1>4, <1>5, <1>6

(* The container is finished, or fails, or is signed again within          *)
(* MaxResigns.                                                             *)
LEMMA StampAnsweredStep ==
  ASSUME IndInv, NEW r \in Requests, StampAnswered(r)
  PROVE  IndInv'
<1> USE ConstantsAssumption, SentinelsAssumption
    DEF IndInv, Goto, Return, requestVars, tokenVars, signVars, listVars
<1>1. TypeOK'
  BY DEF TypeOK, Stages, Outcomes, StampAnswered
<1>2. OneOperation'
  BY DEF TypeOK, OneOperation, Holding, Owners, StampAnswered
<1>3. ModuleDiscipline'
  BY DEF TypeOK, OneOperation, ModuleDiscipline, Holding, Initialised,
         Authenticated, Owners, Sessions, StampAnswered
<1>4. (\A q \in Requests : StageFacts(q))'
  BY DEF TypeOK, OneOperation, StageFacts, Unasked, SignedAsAsked,
         SignatureFor, KeyFound, StampAnswered
<1>5. (\A q \in Requests : OutcomeFacts(q))'
  BY DEF TypeOK, StageFacts, OutcomeFacts, Unasked, SignedAsAsked, Outcomes,
         Refusal, ErrorStatus, StampAnswered
<1>6. KeyFound'
  BY DEF TypeOK, KeyFound, OneOperation, ModuleDiscipline, Initialised,
         Authenticated, Holding, Owners, Sessions, StampAnswered
<1> QED
  BY <1>1, <1>2, <1>3, <1>4, <1>5, <1>6

(* Giving up a time-stamp leads to the deferred closes with an error.      *)
LEMMA AbandonStampStep ==
  ASSUME IndInv, NEW r \in Requests, AbandonStamp(r)
  PROVE  IndInv'
<1> USE ConstantsAssumption, SentinelsAssumption
    DEF IndInv, Goto, Return, requestVars, tokenVars, signVars, listVars
<1>1. TypeOK'
  BY DEF TypeOK, Stages, Outcomes, AbandonStamp
<1>2. OneOperation'
  BY DEF TypeOK, OneOperation, Holding, Owners, AbandonStamp
<1>3. ModuleDiscipline'
  BY DEF TypeOK, OneOperation, ModuleDiscipline, Holding, Initialised,
         Authenticated, Owners, Sessions, AbandonStamp
<1>4. (\A q \in Requests : StageFacts(q))'
  BY DEF TypeOK, OneOperation, StageFacts, Unasked, SignedAsAsked,
         SignatureFor, KeyFound, AbandonStamp
<1>5. (\A q \in Requests : OutcomeFacts(q))'
  BY DEF TypeOK, StageFacts, OutcomeFacts, Unasked, SignedAsAsked, Outcomes,
         Refusal, ErrorStatus, AbandonStamp
<1>6. KeyFound'
  BY DEF TypeOK, KeyFound, OneOperation, ModuleDiscipline, Initialised,
         Authenticated, Holding, Owners, Sessions, AbandonStamp
<1> QED
  BY <1>1, <1>2, <1>3, <1>4, <1>5, <1>6

(* Logout leaves the module initialised and no session.                    *)
LEMMA CloseSignerStep ==
  ASSUME IndInv, NEW r \in Requests, CloseSigner(r)
  PROVE  IndInv'
<1> USE ConstantsAssumption, SentinelsAssumption
    DEF IndInv, Goto, Return, requestVars, tokenVars, signVars, listVars
<1>1. TypeOK'
  BY DEF TypeOK, Stages, CloseSigner
<1>2. OneOperation'
  BY DEF TypeOK, OneOperation, Holding, Owners, CloseSigner
<1>3. ModuleDiscipline'
  BY DEF TypeOK, OneOperation, ModuleDiscipline, Holding, Initialised,
         Authenticated, Owners, Sessions, CloseSigner
<1>4. (\A q \in Requests : StageFacts(q))'
  BY DEF TypeOK, OneOperation, StageFacts, Unasked, SignedAsAsked,
         SignatureFor, KeyFound, CloseSigner
<1>5. (\A q \in Requests : OutcomeFacts(q))'
  BY DEF TypeOK, StageFacts, OutcomeFacts, Unasked, SignedAsAsked, Outcomes,
         Refusal, ErrorStatus, CloseSigner
<1>6. KeyFound'
  BY DEF TypeOK, KeyFound, OneOperation, ModuleDiscipline, Initialised,
         Authenticated, Holding, Owners, Sessions, CloseSigner
<1> QED
  BY <1>1, <1>2, <1>3, <1>4, <1>5, <1>6

(* C_Finalize is called by the request that initialised the module.        *)
LEMMA CloseModuleStep ==
  ASSUME IndInv, NEW r \in Requests, CloseModule(r)
  PROVE  IndInv'
<1> USE ConstantsAssumption, SentinelsAssumption
    DEF IndInv, Goto, Return, requestVars, tokenVars, signVars, listVars
<1>1. TypeOK'
  BY DEF TypeOK, Stages, CloseModule
<1>2. OneOperation'
  BY DEF TypeOK, OneOperation, Holding, Owners, CloseModule
<1>3. ModuleDiscipline'
  BY DEF TypeOK, OneOperation, ModuleDiscipline, Holding, Initialised,
         Authenticated, Owners, Sessions, CloseModule
<1>4. (\A q \in Requests : StageFacts(q))'
  BY DEF TypeOK, OneOperation, StageFacts, Unasked, SignedAsAsked,
         SignatureFor, KeyFound, CloseModule
<1>5. (\A q \in Requests : OutcomeFacts(q))'
  BY DEF TypeOK, StageFacts, OutcomeFacts, Unasked, SignedAsAsked, Outcomes,
         Refusal, ErrorStatus, CloseModule
<1>6. KeyFound'
  BY DEF TypeOK, KeyFound, OneOperation, ModuleDiscipline, Initialised,
         Authenticated, Holding, Owners, Sessions, CloseModule
<1> QED
  BY <1>1, <1>2, <1>3, <1>4, <1>5, <1>6

(* The unlock is the holder's, and scrubs its PIN.                         *)
LEMMA UnlockMuStep ==
  ASSUME IndInv, NEW r \in Requests, UnlockMu(r)
  PROVE  IndInv'
<1> USE ConstantsAssumption, SentinelsAssumption
    DEF IndInv, Goto, Return, requestVars, tokenVars, signVars, listVars
<1>1. TypeOK'
  BY DEF TypeOK, Stages, UnlockMu
<1>2. OneOperation'
  BY DEF TypeOK, OneOperation, Holding, Owners, UnlockMu
<1>3. ModuleDiscipline'
  BY DEF TypeOK, OneOperation, ModuleDiscipline, Holding, Initialised,
         Authenticated, Owners, Sessions, UnlockMu
<1>4. (\A q \in Requests : StageFacts(q))'
  BY DEF TypeOK, OneOperation, StageFacts, Unasked, SignedAsAsked,
         SignatureFor, KeyFound, UnlockMu
<1>5. (\A q \in Requests : OutcomeFacts(q))'
  BY DEF TypeOK, StageFacts, OutcomeFacts, Unasked, SignedAsAsked, Outcomes,
         Refusal, ErrorStatus, UnlockMu
<1>6. KeyFound'
  BY DEF TypeOK, KeyFound, OneOperation, ModuleDiscipline, Initialised,
         Authenticated, Holding, Owners, Sessions, UnlockMu
<1> QED
  BY <1>1, <1>2, <1>3, <1>4, <1>5, <1>6

(* An answer is given once, after the unlock, and agrees with the outcome. *)
LEMMA ReplyStep ==
  ASSUME IndInv, NEW r \in Requests, Reply(r)
  PROVE  IndInv'
<1> USE ConstantsAssumption, SentinelsAssumption
    DEF IndInv, Goto, Return, requestVars, tokenVars, signVars, listVars
<1>1. TypeOK'
  <2>1. outcome[r] = "signed" => sig[r] \in Signatures
    BY DEF TypeOK, StageFacts, OutcomeFacts, SignedAsAsked, SignatureFor,
           Signatures, Refusal, BodyTypes, Reply
  <2> QED
    BY <2>1 DEF TypeOK, Stages, Statuses, ErrorStatus, Jobs, FormatSeg, Reply
<1>2. OneOperation'
  BY DEF TypeOK, OneOperation, Holding, Owners, Reply
<1>3. ModuleDiscipline'
  BY DEF TypeOK, OneOperation, ModuleDiscipline, Holding, Initialised,
         Authenticated, Owners, Sessions, Reply
<1>4. (\A q \in Requests : StageFacts(q))'
  BY DEF TypeOK, OneOperation, StageFacts, Unasked, SignedAsAsked,
         SignatureFor, KeyFound, Reply
<1>5. (\A q \in Requests : OutcomeFacts(q))'
  BY DEF TypeOK, StageFacts, OutcomeFacts, Unasked, SignedAsAsked, Outcomes,
         Refusal, ErrorStatus, Reply
<1>6. KeyFound'
  BY DEF TypeOK, KeyFound, OneOperation, ModuleDiscipline, Initialised,
         Authenticated, Holding, Owners, Sessions, Reply
<1> QED
  BY <1>1, <1>2, <1>3, <1>4, <1>5, <1>6

(* A listing initialises the module only while nobody has it, so no sign   *)
(* is inside.                                                              *)
LEMMA ListLoadStep ==
  ASSUME IndInv, NEW l \in Listers, ListLoad(l)
  PROVE  IndInv'
<1> USE ConstantsAssumption, SentinelsAssumption
    DEF IndInv, Goto, Return, requestVars, tokenVars, signVars, listVars
<1>1. TypeOK'
  BY DEF TypeOK, ListStages, Owners, ListLoad
<1>2. OneOperation'
  BY DEF TypeOK, OneOperation, Holding, Owners, ListLoad
<1>3. ModuleDiscipline'
  BY DEF TypeOK, OneOperation, ModuleDiscipline, Holding, Initialised,
         Authenticated, Owners, Sessions, ListLoad
<1>4. (\A q \in Requests : StageFacts(q))'
  BY DEF TypeOK, OneOperation, StageFacts, Unasked, SignedAsAsked,
         SignatureFor, KeyFound, ListLoad
<1>5. (\A q \in Requests : OutcomeFacts(q))'
  BY DEF TypeOK, StageFacts, OutcomeFacts, Unasked, SignedAsAsked, Outcomes,
         Refusal, ErrorStatus, ListLoad
<1>6. KeyFound'
  BY DEF TypeOK, KeyFound, OneOperation, ModuleDiscipline, Initialised,
         Authenticated, Holding, Owners, Sessions, ListLoad
<1> QED
  BY <1>1, <1>2, <1>3, <1>4, <1>5, <1>6

(* Asking for the slots changes the listing alone.                         *)
LEMMA ListSlotsStep ==
  ASSUME IndInv, NEW l \in Listers, ListSlots(l)
  PROVE  IndInv'
<1> USE ConstantsAssumption, SentinelsAssumption
    DEF IndInv, Goto, Return, requestVars, tokenVars, signVars, listVars
<1>1. TypeOK'
  BY DEF TypeOK, ListStages, ListSlots
<1>2. OneOperation'
  BY DEF TypeOK, OneOperation, Holding, Owners, ListSlots
<1>3. ModuleDiscipline'
  BY DEF TypeOK, OneOperation, ModuleDiscipline, Holding, Initialised,
         Authenticated, Owners, Sessions, ListSlots
<1>4. (\A q \in Requests : StageFacts(q))'
  BY DEF TypeOK, OneOperation, StageFacts, Unasked, SignedAsAsked,
         SignatureFor, KeyFound, ListSlots
<1>5. (\A q \in Requests : OutcomeFacts(q))'
  BY DEF TypeOK, StageFacts, OutcomeFacts, Unasked, SignedAsAsked, Outcomes,
         Refusal, ErrorStatus, ListSlots
<1>6. KeyFound'
  BY DEF TypeOK, KeyFound, OneOperation, ModuleDiscipline, Initialised,
         Authenticated, Holding, Owners, Sessions, ListSlots
<1> QED
  BY <1>1, <1>2, <1>3, <1>4, <1>5, <1>6

(* A listing opens a session while it has the module, which no sign has    *)
(* then, and does not log in.                                              *)
LEMMA ListOpenStep ==
  ASSUME IndInv, NEW l \in Listers, ListOpen(l)
  PROVE  IndInv'
<1> USE ConstantsAssumption, SentinelsAssumption
    DEF IndInv, Goto, Return, requestVars, tokenVars, signVars, listVars
<1>1. TypeOK'
  <2>1. ASSUME NEW t \in Tokens
        PROVE  [token |-> t, loggedIn |-> FALSE, key |-> NoKey] \in Sessions
    BY DEF Sessions
  <2>2. session' \in Sessions \cup {NoSession}
    BY <2>1 DEF TypeOK, ListOpen
  <2>3. todo' \in [Listers -> SUBSET Tokens] /\ lpc' \in [Listers -> ListStages]
    BY DEF TypeOK, ListStages, ListOpen
  <2> QED
    BY <2>2, <2>3 DEF TypeOK, ListOpen
<1>2. OneOperation'
  BY DEF TypeOK, OneOperation, Holding, Owners, ListOpen
<1>3. ModuleDiscipline'
  BY DEF TypeOK, OneOperation, ModuleDiscipline, Holding, Initialised,
         Authenticated, Owners, Sessions, ListOpen
<1>4. (\A q \in Requests : StageFacts(q))'
  BY DEF TypeOK, OneOperation, StageFacts, Unasked, SignedAsAsked,
         SignatureFor, KeyFound, ListOpen
<1>5. (\A q \in Requests : OutcomeFacts(q))'
  BY DEF TypeOK, StageFacts, OutcomeFacts, Unasked, SignedAsAsked, Outcomes,
         Refusal, ErrorStatus, ListOpen
<1>6. KeyFound'
  BY DEF TypeOK, KeyFound, OneOperation, ModuleDiscipline, Initialised,
         Authenticated, Holding, Owners, Sessions, ListOpen
<1> QED
  BY <1>1, <1>2, <1>3, <1>4, <1>5, <1>6

(* A listing closes the session it opened before it goes on.               *)
LEMMA ListReadStep ==
  ASSUME IndInv, NEW l \in Listers, ListRead(l)
  PROVE  IndInv'
<1> USE ConstantsAssumption, SentinelsAssumption
    DEF IndInv, Goto, Return, requestVars, tokenVars, signVars, listVars
<1>1. TypeOK'
  BY DEF TypeOK, ListStages, Sessions, ListRead
<1>2. OneOperation'
  BY DEF TypeOK, OneOperation, Holding, Owners, ListRead
<1>3. ModuleDiscipline'
  BY DEF TypeOK, OneOperation, ModuleDiscipline, Holding, Initialised,
         Authenticated, Owners, Sessions, ListRead
<1>4. (\A q \in Requests : StageFacts(q))'
  BY DEF TypeOK, OneOperation, StageFacts, Unasked, SignedAsAsked,
         SignatureFor, KeyFound, ListRead
<1>5. (\A q \in Requests : OutcomeFacts(q))'
  BY DEF TypeOK, StageFacts, OutcomeFacts, Unasked, SignedAsAsked, Outcomes,
         Refusal, ErrorStatus, ListRead
<1>6. KeyFound'
  BY DEF TypeOK, KeyFound, OneOperation, ModuleDiscipline, Initialised,
         Authenticated, Holding, Owners, Sessions, ListRead
<1> QED
  BY <1>1, <1>2, <1>3, <1>4, <1>5, <1>6

(* A listing finalises the module it initialised; no session is open then. *)
LEMMA ListCloseStep ==
  ASSUME IndInv, NEW l \in Listers, ListClose(l)
  PROVE  IndInv'
<1> USE ConstantsAssumption, SentinelsAssumption
    DEF IndInv, Goto, Return, requestVars, tokenVars, signVars, listVars
<1>1. TypeOK'
  BY DEF TypeOK, ListStages, ListClose
<1>2. OneOperation'
  BY DEF TypeOK, OneOperation, Holding, Owners, ListClose
<1>3. ModuleDiscipline'
  BY DEF TypeOK, OneOperation, ModuleDiscipline, Holding, Initialised,
         Authenticated, Owners, Sessions, ListClose
<1>4. (\A q \in Requests : StageFacts(q))'
  BY DEF TypeOK, OneOperation, StageFacts, Unasked, SignedAsAsked,
         SignatureFor, KeyFound, ListClose
<1>5. (\A q \in Requests : OutcomeFacts(q))'
  BY DEF TypeOK, StageFacts, OutcomeFacts, Unasked, SignedAsAsked, Outcomes,
         Refusal, ErrorStatus, ListClose
<1>6. KeyFound'
  BY DEF TypeOK, KeyFound, OneOperation, ModuleDiscipline, Initialised,
         Authenticated, Holding, Owners, Sessions, ListClose
<1> QED
  BY <1>1, <1>2, <1>3, <1>4, <1>5, <1>6

(* Plugging a token in changes no request, lock or session.                *)
LEMMA PlugStep ==
  ASSUME IndInv, NEW t \in Tokens, Plug(t)
  PROVE  IndInv'
<1> USE ConstantsAssumption, SentinelsAssumption
    DEF IndInv, Goto, Return, requestVars, tokenVars, signVars, listVars
<1>1. TypeOK'
  BY DEF TypeOK, Plug
<1>2. OneOperation'
  BY DEF TypeOK, OneOperation, Holding, Owners, Plug
<1>3. ModuleDiscipline'
  BY DEF TypeOK, OneOperation, ModuleDiscipline, Holding, Initialised,
         Authenticated, Owners, Sessions, Plug
<1>4. (\A q \in Requests : StageFacts(q))'
  BY DEF TypeOK, StageFacts, Unasked, SignedAsAsked, SignatureFor, KeyFound,
         Plug
<1>5. (\A q \in Requests : OutcomeFacts(q))'
  BY DEF TypeOK, StageFacts, OutcomeFacts, Unasked, SignedAsAsked, Outcomes,
         Refusal, ErrorStatus, Plug
<1>6. KeyFound'
  BY DEF TypeOK, KeyFound, OneOperation, ModuleDiscipline, Initialised,
         Authenticated, Holding, Owners, Sessions, Plug
<1> QED
  BY <1>1, <1>2, <1>3, <1>4, <1>5, <1>6

(* A session that dies with its token leaves the facts about the others.   *)
LEMMA UnplugStep ==
  ASSUME IndInv, NEW t \in Tokens, Unplug(t)
  PROVE  IndInv'
<1> USE ConstantsAssumption, SentinelsAssumption
    DEF IndInv, Goto, Return, requestVars, tokenVars, signVars, listVars
<1>1. TypeOK'
  BY DEF TypeOK, Unplug
<1>2. OneOperation'
  BY DEF TypeOK, OneOperation, Holding, Owners, Unplug
<1>3. ModuleDiscipline'
  BY DEF TypeOK, OneOperation, ModuleDiscipline, Holding, Initialised,
         Authenticated, Owners, Sessions, Unplug
<1>4. (\A q \in Requests : StageFacts(q))'
  BY DEF TypeOK, StageFacts, Unasked, SignedAsAsked, SignatureFor, KeyFound,
         Unplug
<1>5. (\A q \in Requests : OutcomeFacts(q))'
  BY DEF TypeOK, StageFacts, OutcomeFacts, Unasked, SignedAsAsked, Outcomes,
         Refusal, ErrorStatus, Unplug
<1>6. KeyFound'
  BY DEF TypeOK, KeyFound, OneOperation, ModuleDiscipline, Initialised,
         Authenticated, Holding, Owners, Sessions, Unplug
<1> QED
  BY <1>1, <1>2, <1>3, <1>4, <1>5, <1>6

(* Nothing changes: IndInv is a predicate of vars.                         *)
LEMMA StutterStep == ASSUME IndInv, UNCHANGED vars PROVE IndInv'
  BY DEF IndInv, TypeOK, OneOperation, ModuleDiscipline, StageFacts,
         OutcomeFacts, Unasked, SignedAsAsked, KeyFound, vars

(* IndInv holds initially: everybody is idle and the module is free.       *)
LEMMA InitInv == Init => IndInv
<1> SUFFICES ASSUME Init PROVE IndInv
  OBVIOUS
<1> USE ConstantsAssumption, SentinelsAssumption DEF Init, Owners
<1>1. TypeOK
  <2>1. /\ body \in [Requests -> BodyTypes]
        /\ signs \in [Requests -> 0 .. (MaxResigns + 1)]
        /\ tries \in [Tokens -> 0 .. MaxTries]
    OBVIOUS
  <2>2. /\ pc \in [Requests -> Stages]
        /\ outcome \in [Requests -> Outcomes]
        /\ status \in [Requests -> Statuses]
    BY DEF Stages, Outcomes, Statuses
  <2>3. /\ todo \in [Listers -> SUBSET Tokens]
        /\ lpc \in [Listers -> ListStages]
        /\ inserted \in SUBSET Tokens
    BY DEF ListStages
  <2> QED
    BY <2>1, <2>2, <2>3 DEF TypeOK
<1>2. OneOperation /\ ModuleDiscipline /\ KeyFound
  BY DEF OneOperation, ModuleDiscipline, KeyFound, Holding, Initialised
<1>3. \A r \in Requests : StageFacts(r) /\ OutcomeFacts(r)
  BY DEF StageFacts, OutcomeFacts, Unasked
<1> QED
  BY <1>1, <1>2, <1>3 DEF IndInv

(* IndInv is inductive: one case per disjunct of Next, each by its lemma.  *)
LEMMA NextInv == IndInv /\ [Next]_vars => IndInv'
<1> SUFFICES ASSUME IndInv, [Next]_vars PROVE IndInv'
  OBVIOUS
<1>1. ASSUME NEW r \in Requests,
             \/ HandleSign(r) \/ Disconnect(r) \/ LockMu(r)
             \/ Answer(r) \/ Run(r) \/ StampAnswered(r)
      PROVE  IndInv'
  <2>1. CASE Answer(r)
    BY <2>1, EnterPinStep, CancelDialogStep, DialogFailsStep DEF Answer
  <2>2. CASE Run(r)
    BY <2>2, LoadModuleStep, OpenSessionStep, LoginStep, SelectKeyStep, PrepareStep,
       TokenSignStep, AbandonStampStep, DialogFailsStep, CloseSignerStep,
       CloseModuleStep, UnlockMuStep, ReplyStep DEF Run, KillDialog
  <2> QED
    BY <1>1, <2>1, <2>2, HandleSignStep, DisconnectStep, LockMuStep, StampAnsweredStep
<1>2. ASSUME NEW l \in Listers, List(l) PROVE IndInv'
  BY <1>2, ListLoadStep, ListSlotsStep, ListOpenStep, ListReadStep,
     ListCloseStep DEF List, Walk
<1>3. ASSUME NEW t \in Tokens, Plug(t) \/ Unplug(t) PROVE IndInv'
  BY <1>3, PlugStep, UnplugStep
<1> QED
  BY <1>1, <1>2, <1>3, StutterStep DEF Next

(* The inductive invariant holds in every reachable state.                 *)
THEOREM Inductive == Spec => []IndInv
  BY InitInv, NextInv, PTL DEF Spec

-----------------------------------------------------------------------------
(* What follows from the inductive invariant.                              *)

(* Every variable keeps its type (SignDaemon's TypeOK).                    *)
THEOREM TypesHold == Spec => []TypeOK
<1>1. IndInv => TypeOK
  BY DEF IndInv
<1> QED
  BY <1>1, Inductive, PTL

(* TokenSigner's mutex: one confirm-login-sign operation at a time, and a  *)
(* typed PIN exists only inside it.                                        *)
THEOREM OperationsAreSerial == Spec => []OneOperation
<1>1. IndInv => OneOperation
  BY DEF IndInv
<1> QED
  BY <1>1, Inductive, PTL

(* Load/Close, OpenSigner/Close and inspectSlot's session are balanced on  *)
(* every path, between signs and listings that share no lock.              *)
THEOREM ModuleIsDisciplined == Spec => []ModuleDiscipline
<1>1. IndInv => ModuleDiscipline
  BY DEF IndInv
<1> QED
  BY <1>1, Inductive, PTL

-----------------------------------------------------------------------------
(* One login per consent.  Tries are lost to logins, and a login needs a   *)
(* consent of its own: TriesInv counts the requests that logged in.        *)

LoggedIn == {r \in Requests : logins[r] > 0}
TriesInv == \A t \in Tokens : MaxTries - tries[t] <= Cardinality(LoggedIn)

(* At the start no token has lost a try.                                   *)
LEMMA TriesInit == Init => TriesInv
<1> SUFFICES ASSUME Init PROVE TriesInv
  OBVIOUS
<1>1. LoggedIn = {}
  BY DEF Init, LoggedIn
<1>2. Cardinality(LoggedIn) = 0
  BY <1>1, FS_EmptySet
<1> QED
  BY <1>2, ConstantsAssumption DEF Init, TriesInv

(* A login costs at most one try and adds its request to those that logged *)
(* in.                                                                     *)
LEMMA TriesLogin ==
  ASSUME IndInv, TriesInv, NEW r \in Requests, Login(r)
  PROVE  TriesInv'
<1> USE ConstantsAssumption
<1>1. logins[r] = 0 /\ logins' = [logins EXCEPT ![r] = 1]
  <2>1. pc[r] = "login" /\ logins' = [logins EXCEPT ![r] = logins[r] + 1]
    BY DEF Login
  <2>2. logins[r] = 0
    BY <2>1 DEF IndInv, StageFacts
  <2> QED
    BY <2>1, <2>2
<1>2. LoggedIn' = LoggedIn \cup {r} /\ r \notin LoggedIn
  BY <1>1 DEF LoggedIn, IndInv, TypeOK
<1>3. IsFiniteSet(LoggedIn)
  BY FiniteAssumption, FS_Subset DEF LoggedIn
<1>4. Cardinality(LoggedIn') = Cardinality(LoggedIn) + 1
  BY <1>2, <1>3, FS_AddElement
<1>5. Cardinality(LoggedIn) \in Nat
  BY <1>3, FS_CardinalityType
<1>6. ASSUME NEW t \in Tokens PROVE tries'[t] >= tries[t] - 1 /\ tries'[t] \in Nat
  <2>1. tries[t] \in 0 .. MaxTries
    BY DEF IndInv, TypeOK
  <2> QED
    BY <2>1 DEF IndInv, TypeOK, Sessions, Login, AfterWrongPin
<1>7. ASSUME NEW t \in Tokens PROVE MaxTries - tries'[t] <= Cardinality(LoggedIn')
  BY <1>4, <1>5, <1>6, <1>7 DEF TriesInv, IndInv, TypeOK
<1> QED
  BY <1>7 DEF TriesInv

(* No other step costs a try, and none takes a login back.                 *)
LEMMA TriesNext == IndInv /\ TriesInv /\ [Next]_vars => TriesInv'
<1> SUFFICES ASSUME IndInv, TriesInv, [Next]_vars PROVE TriesInv'
  OBVIOUS
<1>1. CASE \E r \in Requests : Login(r)
  BY <1>1, TriesLogin
<1>2. CASE UNCHANGED <<tries, logins>>
  BY <1>2 DEF TriesInv, LoggedIn
<1>3. (\E r \in Requests : Login(r)) \/ UNCHANGED <<tries, logins>>
  BY DEF Next, Answer, Run, List, KillDialog, vars, requestVars, tokenVars,
         signVars, listVars, HandleSign, Disconnect, LockMu, EnterPin,
         CancelDialog, DialogFails, LoadModule, OpenSession, SelectKey,
         Prepare, PreparePades, PrepareXades,
         PrepareAuth, TokenSign, StampAnswered, AbandonStamp, CloseSigner,
         CloseModule, UnlockMu, Reply, Walk, ListLoad, ListSlots, ListOpen, ListRead, ListClose, Plug,
         Unplug
<1> QED
  BY <1>1, <1>2, <1>3

(* A typed PIN is tried at most once and an untyped one never: no token    *)
(* loses more tries than its user confirmed dialogs (OpenSigner's single   *)
(* C_Login), however many requests, tokens and failures there are.         *)
THEOREM PinIsTriedOnce == Spec => []OneLoginPerConsent
<1>1. ASSUME IndInv, TriesInv PROVE OneLoginPerConsent
  <2>1. \A r \in Requests : logins[r] <= IF consent[r] THEN 1 ELSE 0
    BY <1>1 DEF IndInv, StageFacts, TypeOK
  <2>2. LoggedIn \subseteq {r \in Requests : consent[r]}
    BY <1>1 DEF LoggedIn, IndInv, StageFacts, TypeOK
  <2>3. IsFiniteSet({r \in Requests : consent[r]})
    BY FiniteAssumption, FS_Subset
  <2>4. /\ Cardinality(LoggedIn) <= Consents
        /\ Cardinality(LoggedIn) \in Nat
        /\ Consents \in Nat
    BY <2>2, <2>3, FS_Subset, FS_CardinalityType DEF Consents
  <2>5. \A t \in Tokens : MaxTries - tries[t] <= Consents
    BY <1>1, <2>4, ConstantsAssumption DEF TriesInv, IndInv, TypeOK
  <2> QED
    BY <2>1, <2>5 DEF OneLoginPerConsent
<1> QED
  BY <1>1, Inductive, TriesInit, TriesNext, InitInv, NextInv, PTL DEF Spec

-----------------------------------------------------------------------------
(* Honest answers.  The Location of a 201 names a stored job, and stores   *)
(* are only added to.                                                      *)

Delivered == \A r \in Requests : status[r] = 201 => /\ location[r] \in UUIDs
                                                  /\ jobs[location[r]] \in Jobs

(* A refusal answers 400 or 500 before anything was asked or touched.      *)
LEMMA HonestHandleSign ==
  ASSUME IndInv, Delivered, AnswerHonest, NEW r \in Requests, HandleSign(r)
  PROVE  Delivered' /\ AnswerHonest'
<1>1. /\ UNCHANGED <<jobs, location, body, consent, logins, signs>>
      /\ status'[r] \in {0, 400, 500}
      /\ \A q \in Requests \ {r} : status'[q] = status[q]
      /\ Unasked(r)
  BY DEF IndInv, TypeOK, StageFacts, OutcomeFacts, HandleSign, Refusal, Goto, signVars
<1>2. Delivered'
  BY <1>1 DEF Delivered
<1> QED
  BY <1>1, <1>2 DEF AnswerHonest, HandleSignResult, Unasked

(* A 201 names the job just stored under a fresh uuid; the older jobs      *)
(* stay.                                                                   *)
LEMMA HonestReply ==
  ASSUME IndInv, Delivered, AnswerHonest, NEW r \in Requests, Reply(r)
  PROVE  Delivered' /\ AnswerHonest'
<1> USE SentinelsAssumption
<1>1. /\ UNCHANGED <<body, consent, logins, signs>>
      /\ \A q \in Requests \ {r} : status'[q] = status[q] /\ location'[q] = location[q]
  BY DEF IndInv, TypeOK, Reply, signVars
<1>2. ASSUME NEW q \in Requests \ {r}, status[q] = 201
      PROVE  location'[q] \in UUIDs /\ jobs'[location'[q]] = jobs[location[q]]
  BY <1>1, <1>2 DEF Reply, Delivered, IndInv, TypeOK
<1>3. CASE outcome[r] = "signed"
  <2>1. SignedAsAsked(r) /\ sig[r] \in Signatures
    <3>1. SignedAsAsked(r) /\ Refusal(body[r]) = 0 /\ TypeOK
      BY <1>3 DEF IndInv, StageFacts, OutcomeFacts, Reply
    <3> QED
      BY <3>1, BodyIsSignable DEF SignedAsAsked
  <2>2. PICK u \in UUIDs :
             /\ jobs' = [jobs EXCEPT ![u] = [format |-> FormatSeg(body[r]),
                                             container |-> sig[r]]]
             /\ location' = [location EXCEPT ![r] = u]
             /\ status' = [status EXCEPT ![r] = 201]
    BY <1>3 DEF Reply
  <2>3. /\ location'[r] = u
        /\ status'[r] = 201
        /\ jobs'[u] = [format |-> FormatSeg(body[r]), container |-> sig[r]]
        /\ jobs'[u] \in Jobs
    BY <2>1, <2>2 DEF IndInv, TypeOK, Jobs, FormatSeg
  <2>4. Delivered'
    BY <1>1, <1>2, <2>3 DEF Delivered
  <2>5. AnswerHonest'
    BY <1>1, <1>2, <2>1, <2>3 DEF Delivered, AnswerHonest, HandleSignResult, SignedAsAsked,
                                  FormatSeg, SignatureFor
  <2> QED
    BY <2>4, <2>5
<1>4. CASE outcome[r] # "signed"
  <2>1. /\ status'[r] = ErrorStatus(outcome[r])
        /\ UNCHANGED <<jobs, location>>
    BY <1>4 DEF IndInv, TypeOK, Reply
  <2>2. status'[r] # 201 /\ (status'[r] \in {400, 403} => Unasked(r))
    BY <1>4, <2>1 DEF IndInv, TypeOK, OutcomeFacts, ErrorStatus
  <2>3. Delivered'
    BY <1>1, <2>1, <2>2 DEF Delivered
  <2> QED
    BY <1>1, <2>1, <2>2, <2>3 DEF AnswerHonest, HandleSignResult, Unasked
<1> QED
  BY <1>3, <1>4

(* Every other step leaves the answers, and what they speak of, alone.     *)
LEMMA HonestOtherwise ==
  ASSUME IndInv, Delivered, AnswerHonest, [Next]_vars,
         \A r \in Requests : ~HandleSign(r) /\ ~Reply(r)
  PROVE  Delivered' /\ AnswerHonest'
<1>1. UNCHANGED <<jobs, location, body, status>>
  BY DEF Next, Answer, Run, List, KillDialog, vars, requestVars, Disconnect,
         LockMu, EnterPin, CancelDialog, DialogFails, LoadModule, OpenSession,
         Login, SelectKey, Prepare, PreparePades, PrepareXades, PrepareAuth,
         TokenSign, StampAnswered, AbandonStamp, CloseSigner, CloseModule,
         UnlockMu, Walk, ListLoad, ListSlots, ListOpen, ListRead, ListClose, Plug, Unplug
<1>2. ASSUME NEW q \in Requests, pc[q] = "answered"
      PROVE  /\ consent'[q] = consent[q]
             /\ logins'[q] = logins[q]
             /\ signs'[q] = signs[q]
  BY <1>2 DEF IndInv, TypeOK, Next, Answer, Run, List, KillDialog, vars,
         signVars, Disconnect, LockMu, EnterPin, CancelDialog, DialogFails,
         LoadModule, OpenSession, Login, SelectKey, Prepare, PreparePades, PrepareXades,
         PrepareAuth, TokenSign,
         StampAnswered, AbandonStamp, CloseSigner, CloseModule, UnlockMu,
         Walk, ListLoad, ListSlots, ListOpen, ListRead, ListClose, Plug, Unplug
<1>3. \A q \in Requests : status[q] # 0 => pc[q] = "answered"
  BY DEF IndInv, OutcomeFacts
<1>4. Delivered'
  BY <1>1 DEF Delivered
<1> QED
  BY <1>1, <1>2, <1>3, <1>4 DEF AnswerHonest, HandleSignResult

(* A 201 means that this request's document was signed with its key, after *)
(* its user's consent and one login, and that its Location serves that     *)
(* signature from then on; 400 and 403 mean the token was not touched      *)
(* (handleSign's answers, the JobStore, handleSignResult).                 *)
THEOREM AnswersAreHonest == Spec => []AnswerHonest
<1>1. Init => Delivered /\ AnswerHonest
  BY DEF Init, Delivered, AnswerHonest
<1>2. IndInv /\ Delivered /\ AnswerHonest /\ [Next]_vars => Delivered' /\ AnswerHonest'
  BY HonestHandleSign, HonestReply, HonestOtherwise
<1> QED
  BY <1>1, <1>2, Inductive, PTL DEF Spec

-----------------------------------------------------------------------------
(* SignDaemon implements ConfirmedSigning: every step of the daemon is a   *)
(* step of the service, or leaves turn, stage and tried as they are.       *)

stage == [r \in Requests |-> StageOf(r)]
tried == {r \in Requests : logins[r] > 0}

(* A step of r changes the stage and the tries of no other request.        *)
LEMMA OthersStay ==
  ASSUME IndInv, NEW r \in Requests, NEW q \in Requests \ {r},
         \/ HandleSign(r) \/ Disconnect(r) \/ LockMu(r)
         \/ Answer(r) \/ Run(r) \/ StampAnswered(r)
  PROVE  StageOf(q)' = StageOf(q) /\ logins'[q] = logins[q]
<1>1. /\ pc'[q] = pc[q]
      /\ outcome'[q] = outcome[q]
      /\ signs'[q] = signs[q]
      /\ consent'[q] = consent[q]
      /\ logins'[q] = logins[q]
  BY DEF IndInv, TypeOK, Answer, Run, KillDialog, Goto, Return, signVars,
         HandleSign, Disconnect, LockMu, EnterPin, CancelDialog, DialogFails,
         LoadModule, OpenSession, Login, SelectKey, Prepare, PreparePades,
         PrepareXades, PrepareAuth, TokenSign, StampAnswered, AbandonStamp,
         CloseSigner, CloseModule, UnlockMu, Reply
<1> QED
  BY <1>1 DEF StageOf

(* The mapped variables after a step of r that takes it to stage s.        *)
LEMMA MovesTo ==
  ASSUME IndInv, NEW r \in Requests, NEW s,
         \/ HandleSign(r) \/ Disconnect(r) \/ LockMu(r)
         \/ Answer(r) \/ Run(r) \/ StampAnswered(r),
         StageOf(r)' = s
  PROVE  /\ stage' = [stage EXCEPT ![r] = s]
         /\ logins'[r] = logins[r] => tried' = tried
         /\ logins'[r] = 1 => tried' = tried \cup {r}
<1>1. \A q \in Requests \ {r} : StageOf(q)' = StageOf(q) /\ logins'[q] = logins[q]
  BY OthersStay
<1>2. stage' = [stage EXCEPT ![r] = s]
  BY <1>1 DEF stage
<1> QED
  BY <1>1, <1>2 DEF tried

(* A body refused or queued: the service does not see it (a stutter).      *)
LEMMA HandleSignMaps ==
  ASSUME IndInv, NEW r \in Requests, HandleSign(r)
  PROVE  UNCHANGED <<mu, stage, tried>>
<1>1. StageOf(r)' = StageOf(r) /\ logins'[r] = logins[r] /\ mu' = mu
  BY DEF IndInv, TypeOK, OneOperation, Holding, StageFacts, Unasked,
         SignedAsAsked, OutcomeFacts, StageOf, Goto, Return, signVars,
         HandleSign
<1>2. stage' = [stage EXCEPT ![r] = StageOf(r)] /\ tried' = tried
  BY <1>1, MovesTo DEF stage
<1> QED
  BY <1>1, <1>2 DEF stage

(* A disconnect is a stutter of the service.                               *)
LEMMA DisconnectMaps ==
  ASSUME IndInv, NEW r \in Requests, Disconnect(r)
  PROVE  UNCHANGED <<mu, stage, tried>>
<1>1. StageOf(r)' = StageOf(r) /\ logins'[r] = logins[r] /\ mu' = mu
  BY DEF IndInv, TypeOK, OneOperation, Holding, StageFacts, Unasked,
         SignedAsAsked, OutcomeFacts, StageOf, Goto, Return, signVars,
         Disconnect
<1>2. stage' = [stage EXCEPT ![r] = StageOf(r)] /\ tried' = tried
  BY <1>1, MovesTo DEF stage
<1> QED
  BY <1>1, <1>2 DEF stage

(* The logout is a stutter: the request is settled by then.                *)
LEMMA CloseSignerMaps ==
  ASSUME IndInv, NEW r \in Requests, CloseSigner(r)
  PROVE  UNCHANGED <<mu, stage, tried>>
<1>1. StageOf(r)' = StageOf(r) /\ logins'[r] = logins[r] /\ mu' = mu
  BY DEF IndInv, TypeOK, OneOperation, Holding, StageFacts, Unasked,
         SignedAsAsked, OutcomeFacts, StageOf, Goto, Return, signVars,
         CloseSigner
<1>2. stage' = [stage EXCEPT ![r] = StageOf(r)] /\ tried' = tried
  BY <1>1, MovesTo DEF Run, stage
<1> QED
  BY <1>1, <1>2 DEF stage

(* C_Finalize is a stutter: the request is settled by then.                *)
LEMMA CloseModuleMaps ==
  ASSUME IndInv, NEW r \in Requests, CloseModule(r)
  PROVE  UNCHANGED <<mu, stage, tried>>
<1>1. StageOf(r)' = StageOf(r) /\ logins'[r] = logins[r] /\ mu' = mu
  BY DEF IndInv, TypeOK, OneOperation, Holding, StageFacts, Unasked,
         SignedAsAsked, OutcomeFacts, StageOf, Goto, Return, signVars,
         CloseModule
<1>2. stage' = [stage EXCEPT ![r] = StageOf(r)] /\ tried' = tried
  BY <1>1, MovesTo DEF Run, stage
<1> QED
  BY <1>1, <1>2 DEF stage

(* The answer is a stutter: the turn has already ended.                    *)
LEMMA ReplyMaps ==
  ASSUME IndInv, NEW r \in Requests, Reply(r)
  PROVE  UNCHANGED <<mu, stage, tried>>
<1>1. StageOf(r)' = StageOf(r) /\ logins'[r] = logins[r] /\ mu' = mu
  BY DEF IndInv, TypeOK, OneOperation, Holding, StageFacts, Unasked,
         SignedAsAsked, OutcomeFacts, StageOf, Goto, Return, signVars, Reply
<1>2. stage' = [stage EXCEPT ![r] = StageOf(r)] /\ tried' = tried
  BY <1>1, MovesTo DEF Run, stage
<1> QED
  BY <1>1, <1>2 DEF stage

(* Taking the mutex begins a turn, asking the user or refusing a dropped   *)
(* request.                                                                *)
LEMMA LockMuMaps ==
  ASSUME IndInv, NEW r \in Requests, LockMu(r)
  PROVE  Service!Begin(r)
<1>1. mu = Nobody /\ mu' = r
  BY DEF IndInv, TypeOK, OneOperation, Holding, StageFacts, Unasked,
         SignedAsAsked, OutcomeFacts, StageOf, Goto, Return, signVars, Owners,
         LockMu
<1>2. StageOf(r) = "waiting" /\ logins'[r] = logins[r]
  BY DEF IndInv, TypeOK, OneOperation, Holding, StageFacts, Unasked,
         SignedAsAsked, OutcomeFacts, StageOf, Goto, Return, signVars, LockMu
<1>3. StageOf(r)' \in {"asking", "refused"}
  BY DEF IndInv, TypeOK, OneOperation, Holding, StageFacts, Unasked,
         SignedAsAsked, OutcomeFacts, StageOf, Goto, Return, signVars, LockMu
<1>4. stage' = [stage EXCEPT ![r] = StageOf(r)']
  BY MovesTo DEF stage
<1>5. tried' = tried
  BY <1>2, MovesTo DEF tried
<1> QED
  BY <1>1, <1>2, <1>3, <1>4, <1>5 DEF stage, tried, Service!Begin, Service!Open

(* A typed PIN is the user's consent.                                      *)
LEMMA EnterPinMaps ==
  ASSUME IndInv, NEW r \in Requests, NEW p \in Pins, EnterPin(r, p)
  PROVE  Service!Consent(r)
<1>1. mu = r /\ mu' = mu
  BY DEF IndInv, TypeOK, OneOperation, Holding, StageFacts, Unasked,
         SignedAsAsked, OutcomeFacts, StageOf, Goto, Return, signVars, Owners,
         EnterPin
<1>2. StageOf(r) = "asking" /\ logins'[r] = logins[r]
  BY DEF IndInv, TypeOK, OneOperation, Holding, StageFacts, Unasked,
         SignedAsAsked, OutcomeFacts, StageOf, Goto, Return, signVars,
         EnterPin
<1>3. StageOf(r)' \in {"consented"}
  BY DEF IndInv, TypeOK, OneOperation, Holding, StageFacts, Unasked,
         SignedAsAsked, OutcomeFacts, StageOf, Goto, Return, signVars,
         EnterPin
<1>4. stage' = [stage EXCEPT ![r] = StageOf(r)']
  BY MovesTo DEF Answer, stage
<1>5. tried' = tried
  BY <1>2, MovesTo DEF Answer, tried
<1> QED
  BY <1>1, <1>2, <1>3, <1>4, <1>5 DEF stage, tried, Service!Consent, Service!Open

(* A cancelled dialog refuses the request.                                 *)
LEMMA CancelDialogMaps ==
  ASSUME IndInv, NEW r \in Requests, CancelDialog(r)
  PROVE  Service!Refuse(r)
<1>1. mu = r /\ mu' = mu
  BY DEF IndInv, TypeOK, OneOperation, Holding, StageFacts, Unasked,
         SignedAsAsked, OutcomeFacts, StageOf, Goto, Return, signVars, Owners,
         CancelDialog
<1>2. StageOf(r) = "asking" /\ logins'[r] = logins[r]
  BY DEF IndInv, TypeOK, OneOperation, Holding, StageFacts, Unasked,
         SignedAsAsked, OutcomeFacts, StageOf, Goto, Return, signVars,
         CancelDialog
<1>3. StageOf(r)' \in {"refused"}
  BY DEF IndInv, TypeOK, OneOperation, Holding, StageFacts, Unasked,
         SignedAsAsked, OutcomeFacts, StageOf, Goto, Return, signVars,
         CancelDialog
<1>4. stage' = [stage EXCEPT ![r] = StageOf(r)']
  BY MovesTo DEF Answer, stage
<1>5. tried' = tried
  BY <1>2, MovesTo DEF Answer, tried
<1> QED
  BY <1>1, <1>2, <1>3, <1>4, <1>5 DEF stage, tried, Service!Refuse, Service!Open

(* A dialog that could not run refuses the request.                        *)
LEMMA DialogFailsMaps ==
  ASSUME IndInv, NEW r \in Requests, DialogFails(r)
  PROVE  Service!Refuse(r)
<1>1. mu = r /\ mu' = mu
  BY DEF IndInv, TypeOK, OneOperation, Holding, StageFacts, Unasked,
         SignedAsAsked, OutcomeFacts, StageOf, Goto, Return, signVars, Owners,
         DialogFails
<1>2. StageOf(r) = "asking" /\ logins'[r] = logins[r]
  BY DEF IndInv, TypeOK, OneOperation, Holding, StageFacts, Unasked,
         SignedAsAsked, OutcomeFacts, StageOf, Goto, Return, signVars,
         DialogFails
<1>3. StageOf(r)' \in {"refused"}
  BY DEF IndInv, TypeOK, OneOperation, Holding, StageFacts, Unasked,
         SignedAsAsked, OutcomeFacts, StageOf, Goto, Return, signVars,
         DialogFails
<1>4. stage' = [stage EXCEPT ![r] = StageOf(r)']
  BY MovesTo DEF Answer, stage
<1>5. tried' = tried
  BY <1>2, MovesTo DEF Answer, tried
<1> QED
  BY <1>1, <1>2, <1>3, <1>4, <1>5 DEF stage, tried, Service!Refuse, Service!Open

(* The module initialised is a stutter; the module taken refuses the       *)
(* request.                                                                *)
LEMMA LoadModuleMaps ==
  ASSUME IndInv, NEW r \in Requests, LoadModule(r)
  PROVE  Service!Refuse(r) \/ UNCHANGED <<mu, stage, tried>>
<1>1. mu = r /\ mu' = mu
  BY DEF IndInv, TypeOK, OneOperation, Holding, StageFacts, Unasked,
         SignedAsAsked, OutcomeFacts, StageOf, Goto, Return, signVars, Owners,
         LoadModule
<1>2. StageOf(r) = "consented" /\ logins'[r] = logins[r]
  BY DEF IndInv, TypeOK, OneOperation, Holding, StageFacts, Unasked,
         SignedAsAsked, OutcomeFacts, StageOf, Goto, Return, signVars,
         LoadModule
<1>3. StageOf(r)' \in {"refused", "consented"}
  BY DEF IndInv, TypeOK, OneOperation, Holding, StageFacts, Unasked,
         SignedAsAsked, OutcomeFacts, StageOf, Goto, Return, signVars,
         LoadModule
<1>4. stage' = [stage EXCEPT ![r] = StageOf(r)']
  BY MovesTo DEF Run, stage
<1>5. tried' = tried
  BY <1>2, MovesTo DEF Run, tried
<1> QED
  BY <1>1, <1>2, <1>3, <1>4, <1>5 DEF stage, tried, Service!Refuse, Service!Open

(* The session opened is a stutter; no token, or two, refuses the request. *)
LEMMA OpenSessionMaps ==
  ASSUME IndInv, NEW r \in Requests, OpenSession(r)
  PROVE  Service!Refuse(r) \/ UNCHANGED <<mu, stage, tried>>
<1>1. mu = r /\ mu' = mu
  BY DEF IndInv, TypeOK, OneOperation, Holding, StageFacts, Unasked,
         SignedAsAsked, OutcomeFacts, StageOf, Goto, Return, signVars, Owners,
         OpenSession
<1>2. StageOf(r) = "consented" /\ logins'[r] = logins[r]
  BY DEF IndInv, TypeOK, OneOperation, Holding, StageFacts, Unasked,
         SignedAsAsked, OutcomeFacts, StageOf, Goto, Return, signVars,
         OpenSession
<1>3. StageOf(r)' \in {"refused", "consented"}
  BY DEF IndInv, TypeOK, OneOperation, Holding, StageFacts, Unasked,
         SignedAsAsked, OutcomeFacts, StageOf, Goto, Return, signVars,
         OpenSession
<1>4. stage' = [stage EXCEPT ![r] = StageOf(r)']
  BY MovesTo DEF Run, stage
<1>5. tried' = tried
  BY <1>2, MovesTo DEF Run, tried
<1> QED
  BY <1>1, <1>2, <1>3, <1>4, <1>5 DEF stage, tried, Service!Refuse, Service!Open

(* C_Login is the one try of the PIN, accepted or refused.                 *)
LEMMA LoginMaps ==
  ASSUME IndInv, NEW r \in Requests, Login(r)
  PROVE  Service!TryPin(r)
<1>1. mu = r /\ mu' = mu
  BY DEF IndInv, TypeOK, OneOperation, Holding, StageFacts, Unasked,
         SignedAsAsked, OutcomeFacts, StageOf, Goto, Return, signVars, Owners,
         Login
<1>2. StageOf(r) = "consented" /\ logins[r] = 0 /\ logins'[r] = 1
  BY DEF IndInv, TypeOK, OneOperation, Holding, StageFacts, Unasked,
         SignedAsAsked, OutcomeFacts, StageOf, Goto, Return, signVars, Login
<1>3. StageOf(r)' \in {"authenticated", "refused"}
  BY DEF IndInv, TypeOK, OneOperation, Holding, StageFacts, Unasked,
         SignedAsAsked, OutcomeFacts, StageOf, Goto, Return, signVars, Login
<1>4. stage' = [stage EXCEPT ![r] = StageOf(r)']
  BY MovesTo DEF Run, stage
<1>5. tried' = tried \cup {r} /\ r \notin tried
  BY <1>2, MovesTo DEF Run, tried
<1> QED
  BY <1>1, <1>2, <1>3, <1>4, <1>5 DEF stage, tried, Service!TryPin, Service!Open

(* The key found is a stutter; a key that is not there refuses the         *)
(* request.                                                                *)
LEMMA SelectKeyMaps ==
  ASSUME IndInv, NEW r \in Requests, SelectKey(r)
  PROVE  Service!Refuse(r) \/ UNCHANGED <<mu, stage, tried>>
<1>1. mu = r /\ mu' = mu
  BY DEF IndInv, TypeOK, OneOperation, Holding, StageFacts, Unasked,
         SignedAsAsked, OutcomeFacts, StageOf, Goto, Return, signVars, Owners,
         SelectKey
<1>2. StageOf(r) = "authenticated" /\ logins'[r] = logins[r]
  BY DEF IndInv, TypeOK, OneOperation, Holding, StageFacts, Unasked,
         SignedAsAsked, OutcomeFacts, StageOf, Goto, Return, signVars,
         SelectKey
<1>3. StageOf(r)' \in {"refused", "authenticated"}
  BY DEF IndInv, TypeOK, OneOperation, Holding, StageFacts, Unasked,
         SignedAsAsked, OutcomeFacts, StageOf, Goto, Return, signVars,
         SelectKey
<1>4. stage' = [stage EXCEPT ![r] = StageOf(r)']
  BY MovesTo DEF Run, stage
<1>5. tried' = tried
  BY <1>2, MovesTo DEF Run, tried
<1> QED
  BY <1>1, <1>2, <1>3, <1>4, <1>5 DEF stage, tried, Service!Refuse, Service!Open

(* A document ready to sign is a stutter; an error or a panic refuses the  *)
(* request.                                                                *)
LEMMA PrepareMaps ==
  ASSUME IndInv, NEW r \in Requests, Prepare(r)
  PROVE  Service!Refuse(r) \/ UNCHANGED <<mu, stage, tried>>
<1>1. mu = r /\ mu' = mu
  BY DEF IndInv, TypeOK, OneOperation, Holding, StageFacts, Unasked,
         SignedAsAsked, OutcomeFacts, StageOf, Goto, Return, signVars, Owners,
         Prepare, PreparePades, PrepareXades, PrepareAuth
<1>2. StageOf(r) = "authenticated" /\ logins'[r] = logins[r]
  BY DEF IndInv, TypeOK, OneOperation, Holding, StageFacts, Unasked,
         SignedAsAsked, OutcomeFacts, StageOf, Goto, Return, signVars, Prepare,
         PreparePades, PrepareXades, PrepareAuth
<1>3. StageOf(r)' \in {"refused", "authenticated"}
  BY DEF IndInv, TypeOK, OneOperation, Holding, StageFacts, Unasked,
         SignedAsAsked, OutcomeFacts, StageOf, Goto, Return, signVars, Prepare,
         PreparePades, PrepareXades, PrepareAuth
<1>4. stage' = [stage EXCEPT ![r] = StageOf(r)']
  BY MovesTo DEF Run, stage
<1>5. tried' = tried
  BY <1>2, MovesTo DEF Run, tried
<1> QED
  BY <1>1, <1>2, <1>3, <1>4, <1>5 DEF stage, tried, Service!Refuse, Service!Open

(* A time-stamp given up refuses the request.                              *)
LEMMA AbandonStampMaps ==
  ASSUME IndInv, NEW r \in Requests, AbandonStamp(r)
  PROVE  Service!Refuse(r)
<1>1. mu = r /\ mu' = mu
  BY DEF IndInv, TypeOK, OneOperation, Holding, StageFacts, Unasked,
         SignedAsAsked, OutcomeFacts, StageOf, Goto, Return, signVars, Owners,
         AbandonStamp
<1>2. StageOf(r) = "signed" /\ logins'[r] = logins[r]
  BY DEF IndInv, TypeOK, OneOperation, Holding, StageFacts, Unasked,
         SignedAsAsked, OutcomeFacts, StageOf, Goto, Return, signVars,
         AbandonStamp
<1>3. StageOf(r)' \in {"refused"}
  <2>1. outcome'[r] = "failed"
    BY DEF IndInv, TypeOK, Return, AbandonStamp
  <2> QED
    BY <2>1 DEF StageOf
<1>4. stage' = [stage EXCEPT ![r] = StageOf(r)']
  BY MovesTo DEF Run, stage
<1>5. tried' = tried
  BY <1>2, MovesTo DEF Run, tried
<1> QED
  BY <1>1, <1>2, <1>3, <1>4, <1>5 DEF stage, tried, Service!Refuse, Service!Open

(* The first C_Sign is the service's; a later one of the same request is a *)
(* stutter.                                                                *)
LEMMA TokenSignMaps ==
  ASSUME IndInv, NEW r \in Requests, TokenSign(r)
  PROVE  Service!Sign(r) \/ Service!Refuse(r) \/ UNCHANGED <<mu, stage, tried>>
<1>1. mu = r /\ mu' = mu
  BY DEF IndInv, TypeOK, OneOperation, Holding, StageFacts, Unasked,
         SignedAsAsked, OutcomeFacts, StageOf, Goto, Return, signVars,
         TokenSign
<1>2. StageOf(r) \in {"authenticated", "signed"} /\ logins'[r] = logins[r]
  BY DEF IndInv, TypeOK, OneOperation, Holding, StageFacts, Unasked,
         SignedAsAsked, OutcomeFacts, StageOf, Goto, Return, signVars,
         TokenSign
<1>3. StageOf(r)' \in {"signed", "refused"}
  BY DEF IndInv, TypeOK, OneOperation, Holding, StageFacts, Unasked,
         SignedAsAsked, OutcomeFacts, StageOf, Goto, Return, signVars,
         TokenSign
<1>4. stage' = [stage EXCEPT ![r] = StageOf(r)']
  BY MovesTo DEF Run
<1>5. tried' = tried
  BY <1>2, MovesTo DEF Run
<1> QED
  BY <1>1, <1>2, <1>3, <1>4, <1>5
     DEF stage, tried, Service!Sign, Service!Refuse, Service!Open

(* The finished container delivers; an error refuses; signing again is a   *)
(* stutter.                                                                *)
LEMMA StampAnsweredMaps ==
  ASSUME IndInv, NEW r \in Requests, StampAnswered(r)
  PROVE  Service!Deliver(r) \/ Service!Refuse(r) \/ UNCHANGED <<mu, stage, tried>>
<1>1. mu = r /\ mu' = mu
  BY DEF IndInv, TypeOK, OneOperation, Holding, StageFacts, Unasked,
         SignedAsAsked, OutcomeFacts, StageOf, Goto, Return, signVars,
         StampAnswered
<1>2. StageOf(r) = "signed" /\ logins'[r] = logins[r]
  BY DEF IndInv, TypeOK, OneOperation, Holding, StageFacts, Unasked,
         SignedAsAsked, OutcomeFacts, StageOf, Goto, Return, signVars,
         StampAnswered
<1>3. StageOf(r)' \in {"signed", "delivered", "refused"}
  BY DEF IndInv, TypeOK, OneOperation, Holding, StageFacts, Unasked,
         SignedAsAsked, OutcomeFacts, StageOf, Goto, Return, signVars,
         StampAnswered
<1>4. stage' = [stage EXCEPT ![r] = StageOf(r)']
  BY MovesTo
<1>5. tried' = tried
  BY <1>2, MovesTo
<1> QED
  BY <1>1, <1>2, <1>3, <1>4, <1>5
     DEF stage, tried, Service!Deliver, Service!Refuse, Service!Open

(* The unlock ends the turn of a settled request.                          *)
LEMMA UnlockMuMaps ==
  ASSUME IndInv, NEW r \in Requests, UnlockMu(r)
  PROVE  Service!End(r)
<1>1. mu = r /\ mu' = Nobody
  BY DEF IndInv, TypeOK, OneOperation, Holding, StageFacts, Unasked,
         SignedAsAsked, OutcomeFacts, StageOf, Goto, Return, signVars,
         UnlockMu
<1>2. StageOf(r) \in {"delivered", "refused"} /\ StageOf(r)' = StageOf(r)
      /\ logins'[r] = logins[r]
  <2>1. /\ outcome[r] \in Outcomes \ {"none"}
        /\ outcome' = outcome
        /\ logins' = logins
    BY DEF IndInv, TypeOK, OutcomeFacts, UnlockMu, Goto
  <2>2. StageOf(r) = IF outcome[r] = "signed" THEN "delivered" ELSE "refused"
    BY <2>1 DEF StageOf, Outcomes
  <2>3. StageOf(r)' = IF outcome'[r] = "signed" THEN "delivered" ELSE "refused"
    BY <2>1 DEF StageOf, Outcomes
  <2> QED
    BY <2>1, <2>2, <2>3
<1>3. stage' = [stage EXCEPT ![r] = StageOf(r)] /\ tried' = tried
  BY <1>2, MovesTo DEF Run
<1> QED
  BY <1>1, <1>2, <1>3 DEF stage, tried, Service!End, Service!Settled

(* Listings and tokens coming and going are stutters of the service.       *)
LEMMA OthersMap ==
  ASSUME \/ \E l \in Listers : List(l)
         \/ \E t \in Tokens : Plug(t) \/ Unplug(t)
         \/ UNCHANGED vars
  PROVE  UNCHANGED <<mu, stage, tried>>
<1>1. UNCHANGED <<mu, pc, outcome, signs, consent, logins>>
  BY DEF List, Walk, ListLoad, ListSlots, ListOpen, ListRead, ListClose, Plug, Unplug, vars, signVars
<1> QED
  BY <1>1 DEF stage, tried, StageOf

(* Every behaviour of the daemon is one of the service: turns never        *)
(* overlap, a PIN is tried once and only after a consent, nothing is       *)
(* signed before the PIN was accepted, and a turn ends settled.            *)
THEOREM ServiceIsImplemented == Spec => ImplementsService
<1>1. Init => Service!Init
  BY DEF Init, Service!Init, StageOf
<1>2. IndInv /\ [Next]_vars => [Service!Next]_(Service!vars)
  <2> SUFFICES ASSUME IndInv, [Next]_vars
               PROVE  Service!Next \/ UNCHANGED <<mu, stage, tried>>
    BY DEF Service!vars, stage, tried
  <2>1. ASSUME NEW r \in Requests, Answer(r)
        PROVE  Service!Next
    BY <2>1, EnterPinMaps, CancelDialogMaps, DialogFailsMaps DEF Answer, Service!Next
  <2>2. ASSUME NEW r \in Requests, Run(r)
        PROVE  Service!Next \/ UNCHANGED <<mu, stage, tried>>
    BY <2>2, LoadModuleMaps, OpenSessionMaps, LoginMaps, SelectKeyMaps, PrepareMaps,
       TokenSignMaps, AbandonStampMaps, DialogFailsMaps, CloseSignerMaps,
       CloseModuleMaps, UnlockMuMaps, ReplyMaps DEF Run, KillDialog, Service!Next
  <2>3. ASSUME NEW r \in Requests,
               HandleSign(r) \/ Disconnect(r) \/ LockMu(r) \/ StampAnswered(r)
        PROVE  Service!Next \/ UNCHANGED <<mu, stage, tried>>
    BY <2>3, HandleSignMaps, DisconnectMaps, LockMuMaps, StampAnsweredMaps
       DEF Service!Next
  <2> QED
    BY <2>1, <2>2, <2>3, OthersMap DEF Next
<1> QED
  BY <1>1, <1>2, Inductive, PTL DEF Spec, ImplementsService, Service!Spec

(* An invariant of the daemon gives the service's, state by state.         *)
LEMMA WholeTurns == IndInv => TurnsAreWhole
<1> SUFFICES ASSUME IndInv, NEW r \in Requests
             PROVE  /\ StageOf(r) \in Service!Open => mu = r
                    /\ logins[r] > 0 =>
                          StageOf(r) \in {"authenticated", "signed"} \cup Service!Settled
                    /\ StageOf(r) \in {"authenticated", "signed", "delivered"} => logins[r] > 0
  BY DEF TurnsAreWhole, Service!TurnsAreWhole
<1>1. TypeOK /\ OneOperation /\ StageFacts(r) /\ OutcomeFacts(r)
  BY DEF IndInv
<1>2. StageOf(r) \in Service!Open => mu = r
  BY <1>1 DEF TypeOK, Stages, OneOperation, Holding, OutcomeFacts, StageOf, Service!Open
<1>3. ASSUME logins[r] > 0
      PROVE  StageOf(r) \in {"authenticated", "signed"} \cup Service!Settled
  BY <1>1, <1>3 DEF TypeOK, Stages, StageFacts, OutcomeFacts, Unasked, StageOf, Service!Settled
<1>4. ASSUME StageOf(r) \in {"authenticated", "signed", "delivered"}
      PROVE  logins[r] > 0
  BY <1>1, <1>4 DEF TypeOK, Stages, StageFacts, OutcomeFacts, Unasked, SignedAsAsked, StageOf
<1> QED
  BY <1>2, <1>3, <1>4

(* No two requests' turns overlap, in any reachable state of the daemon.   *)
THEOREM TurnsHold == Spec => []TurnsAreWhole
  BY Inductive, WholeTurns, PTL

-----------------------------------------------------------------------------
(* What becomes of a request that is abandoned in the queue.               *)

(* It waits, or has been refused by the dialog that was not started.       *)
Abandoned(r) ==
    /\ r \in gone
    /\ logins[r] = 0
    /\ pc[r] \in {"queued", "unlocking", "replying", "answered"}

(* No step of anybody brings it back: a client that left stays away, and   *)
(* LockMu is the only way out of the queue.                                *)
LEMMA AbandonedStays ==
  ASSUME NEW r \in Requests
  PROVE  IndInv /\ Abandoned(r) /\ [Next]_vars => Abandoned(r)'
<1> SUFFICES ASSUME IndInv, Abandoned(r), [Next]_vars PROVE Abandoned(r)'
  OBVIOUS
<1>1. ASSUME NEW q \in Requests, HandleSign(q) \/ Disconnect(q) \/ LockMu(q)
      PROVE  Abandoned(r)'
  BY <1>1 DEF IndInv, TypeOK, Abandoned, HandleSign, Disconnect, LockMu, Goto, Return,
     signVars, requestVars
<1>2. ASSUME NEW q \in Requests, Answer(q) \/ StampAnswered(q)
      PROVE  Abandoned(r)'
  BY <1>2 DEF IndInv, TypeOK, Abandoned, Answer, EnterPin, CancelDialog, DialogFails,
     StampAnswered, Goto, Return, signVars, requestVars
<1>3. ASSUME NEW q \in Requests, Run(q)
      PROVE  Abandoned(r)'
  BY <1>3 DEF IndInv, TypeOK, Abandoned, Run, KillDialog, DialogFails, LoadModule,
     OpenSession, Login, SelectKey, Prepare, PreparePades, PrepareXades, PrepareAuth,
     TokenSign, AbandonStamp, CloseSigner, CloseModule, UnlockMu, Reply, Goto, Return,
     signVars, requestVars
<1>4. ASSUME \/ \E l \in Listers : List(l)
             \/ \E t \in Tokens : Plug(t) \/ Unplug(t)
             \/ UNCHANGED vars
      PROVE  Abandoned(r)'
  BY <1>4 DEF Abandoned, List, Walk, ListLoad, ListSlots, ListOpen, ListRead, ListClose, Plug, Unplug, vars,
     signVars, requestVars
<1> QED
  BY <1>1, <1>2, <1>3, <1>4 DEF Next

(* A request whose client left while it was queued never asks for a PIN    *)
(* and never reaches the token, in any behaviour and for any requests.     *)
THEOREM AbandonedAreUnprompted == Spec => AbandonedUnprompted
<1>1. ASSUME NEW r \in Requests
      PROVE  Spec => [](r \in gone /\ pc[r] = "queued"
                           => [](pc[r] # "confirming" /\ logins[r] = 0))
  <2>1. IndInv /\ r \in gone /\ pc[r] = "queued" => Abandoned(r)
    BY DEF IndInv, StageFacts, Unasked, Abandoned
  <2>2. Abandoned(r) => pc[r] # "confirming" /\ logins[r] = 0
    BY DEF Abandoned
  <2>3. IndInv /\ Abandoned(r) /\ [Next]_vars => Abandoned(r)'
    BY AbandonedStays
  <2> QED
    BY <2>1, <2>2, <2>3, Inductive, PTL DEF Spec
<1> QED
  BY <1>1 DEF AbandonedUnprompted
=============================================================================
