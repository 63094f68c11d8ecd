----------------------------- MODULE SignDaemon -----------------------------
(***************************************************************************)
(* The signing core of openmdsignd: the handlers of POST /sign/data,       *)
(* GET /sign/data/PKCS11/{uuid}/{format} and GET /certificates             *)
(* (internal/server), the TokenSigner behind the first one, and the        *)
(* PKCS#11 module and hardware token that TokenSigner and the certificate  *)
(* provider share (internal/token).                                        *)
(*                                                                         *)
(* net/http runs every request in a goroutine of its own.  A request is    *)
(* one element of Requests and posts once; pc[r] is where its goroutine    *)
(* stands.  The environment is the user at the confirmation dialog, the    *)
(* client, which may drop its connection at any time, the time-stamping    *)
(* authority, and the hand that plugs and unplugs tokens.                  *)
(***************************************************************************)
EXTENDS Integers, FiniteSets

CONSTANTS
    Requests,       \* the POST /sign/data requests
    Listers,        \* the GET /certificates requests
    Tokens,         \* the hardware tokens that may be plugged in
    Keys,           \* CKA_ID values naming a key pair
    KeysOn,         \* [Tokens -> SUBSET Keys]: the key pairs a token stores
    Pins,           \* what a user can type, the empty answer apart
    PinOf,          \* [Tokens -> Pins]: the PIN a token accepts
    MaxTries,       \* the wrong PINs a token takes before it locks
    Docs,           \* the decoded "data" of a request body
    Shape,          \* [Docs -> Shapes]: what the profiles look at in it
    Bodies,         \* the request bodies clients send, a subset of BodyTypes
    UUIDs,          \* the job identifiers newUUID draws from
    MaxResigns,     \* bound: times a PAdES signature can outgrow its space
    Nobody, NoSession, NoKey, NoPin, NoSig, NoUUID, NoJob

Shapes == {"pdf", "challenge", "text", "empty"}

(* What handleSign reads of the JSON body.  json: it decodes, within       *)
(* 64 MiB and without unknown fields.  cert: the key its certificateId     *)
(* names, "absent", or "unidentified" for an object without one.           *)
BodyTypes == [json : BOOLEAN,
              signFormat : {"PAdES-T", "XAdES-T", "other"},
              cert : Keys \cup {"absent", "unidentified"},
              data : Docs \cup {"undecodable"}]

ASSUME ConstantsAssumption ==
    /\ MaxTries \in Nat \ {0}
    /\ MaxResigns \in Nat
    /\ KeysOn \in [Tokens -> SUBSET Keys]
    /\ PinOf \in [Tokens -> Pins]
    /\ Shape \in [Docs -> Shapes]
    /\ Bodies \subseteq BodyTypes

ASSUME FiniteAssumption == IsFiniteSet(Requests)

Owners == Requests \cup Listers
Sessions == [token : Tokens, loggedIn : BOOLEAN, key : Keys \cup {NoKey}]
Signatures == [key : Keys, doc : Docs]
Jobs == [format : {"pdf", "XAdES"}, container : Signatures]

ASSUME SentinelsAssumption ==
    /\ Requests \cap Listers = {}
    /\ Nobody \notin Owners
    /\ NoSession \notin Sessions
    /\ NoKey \notin Keys
    /\ NoPin \notin Pins
    /\ NoSig \notin Signatures
    /\ NoUUID \notin UUIDs
    /\ NoJob \notin Jobs

Stages == {"idle", "queued", "confirming", "loading", "opening", "login",
           "selecting", "preparing", "signing", "stamping", "closing",
           "finalizing", "unlocking", "replying", "answered"}

ListStages == {"idle", "loaded", "walking", "reading", "done"}

(* How Sign ends: what handleSign tells apart, and a panic in a profile.   *)
Outcomes == {"none", "signed", "cancelled", "unavailable", "failed", "panicked"}

(* 0: not answered yet.  -1: the connection closed without an answer.      *)
Statuses == {-1, 0, 201, 400, 403, 500}

VARIABLES
    pc,         \* where each request's goroutine stands
    body,       \* what each request posted
    gone,       \* the requests whose client disconnected (r.Context() is done)
    mu,         \* TokenSigner.mu: the request that holds it
    pin,        \* the PIN the user typed, while Sign keeps it
    sig,        \* the token's signature, as embedded in the container
    signs,      \* the number of C_Sign calls made for each request
    outcome,    \* what Sign returned
    status,     \* the HTTP status of the answer
    location,   \* the uuid in the Location header of the answer
    jobs,       \* the JobStore
    module,     \* who has the PKCS#11 module initialised
    session,    \* the module's open session, and the key handle found in it
    inserted,   \* the tokens plugged in
    tries,      \* the wrong PINs each token still accepts
    lpc,        \* where each listing's goroutine stands
    todo,       \* the slots a listing has still to visit, by their tokens
    consent,    \* observed: the user typed a PIN in this request's dialog
    logins      \* observed: the C_Login calls made for this request

requestVars == <<body, gone, status, location, jobs>>
tokenVars == <<module, session, inserted, tries>>
signVars == <<pin, sig, signs, consent, logins>>
listVars == <<lpc, todo>>
vars == <<pc, body, gone, mu, pin, sig, signs, outcome, status, location, jobs,
          module, session, inserted, tries, lpc, todo, consent, logins>>

TypeOK ==
    /\ pc \in [Requests -> Stages]
    /\ body \in [Requests -> BodyTypes]
    /\ gone \in SUBSET Requests
    /\ mu \in Requests \cup {Nobody}
    /\ pin \in [Requests -> Pins \cup {NoPin}]
    /\ sig \in [Requests -> Signatures \cup {NoSig}]
    /\ signs \in [Requests -> 0 .. (MaxResigns + 1)]
    /\ outcome \in [Requests -> Outcomes]
    /\ status \in [Requests -> Statuses]
    /\ location \in [Requests -> UUIDs \cup {NoUUID}]
    /\ jobs \in [UUIDs -> Jobs \cup {NoJob}]
    /\ module \in Owners \cup {Nobody}
    /\ session \in Sessions \cup {NoSession}
    /\ inserted \in SUBSET Tokens
    /\ tries \in [Tokens -> 0 .. MaxTries]
    /\ lpc \in [Listers -> ListStages]
    /\ todo \in [Listers -> SUBSET Tokens]
    /\ consent \in [Requests -> BOOLEAN]
    /\ logins \in [Requests -> Nat]

Init ==
    /\ pc = [r \in Requests |-> "idle"]
    /\ body \in [Requests -> Bodies]
    /\ gone = {}
    /\ mu = Nobody
    /\ pin = [r \in Requests |-> NoPin]
    /\ sig = [r \in Requests |-> NoSig]
    /\ signs = [r \in Requests |-> 0]
    /\ outcome = [r \in Requests |-> "none"]
    /\ status = [r \in Requests |-> 0]
    /\ location = [r \in Requests |-> NoUUID]
    /\ jobs = [u \in UUIDs |-> NoJob]
    /\ module = Nobody
    /\ session = NoSession
    /\ inserted \in SUBSET Tokens
    /\ tries = [t \in Tokens |-> MaxTries]
    /\ lpc = [l \in Listers |-> "idle"]
    /\ todo = [l \in Listers |-> {}]
    /\ consent = [r \in Requests |-> FALSE]
    /\ logins = [r \in Requests |-> 0]

-----------------------------------------------------------------------------
(* What the handlers read from a body.                                     *)

\* handleSign's checks, in order, then certificateID: 0 when Sign gets as
\* far as its mutex, the status of the answer otherwise.
Refusal(b) ==
    IF \/ ~b.json
       \/ b.signFormat \notin {"PAdES-T", "XAdES-T"}
       \/ b.cert = "absent"
       \/ b.data = "undecodable"
    THEN 400
    ELSE IF b.cert = "unidentified" THEN 500 ELSE 0

\* mapSignFormat and signWithToken's switch: the profile signer of a body.
Profile(b) ==
    IF b.signFormat = "PAdES-T" THEN "pades"
    ELSE IF Shape[b.data] = "challenge" THEN "auth" ELSE "xades"

\* mapSignFormat's formatSeg: the last segment of the Location.
FormatSeg(b) == IF b.signFormat = "PAdES-T" THEN "pdf" ELSE "XAdES"

\* What a client asked for with a body: that key's signature over the document.
SignatureFor(b) == [key |-> b.cert, doc |-> b.data]

-----------------------------------------------------------------------------
(* Moving a goroutine on.                                                  *)

Goto(r, stage) == /\ pc' = [pc EXCEPT ![r] = stage]
                  /\ UNCHANGED outcome

Return(r, result, stage) == /\ pc' = [pc EXCEPT ![r] = stage]
                            /\ outcome' = [outcome EXCEPT ![r] = result]

-----------------------------------------------------------------------------
(* POST /sign/data up to the token.                                        *)

(* handleSign parses and validates the body, then Sign reads the profile   *)
(* and the key identifier; both happen before the mutex.                   *)
HandleSign(r) ==
    /\ pc[r] = "idle"
    /\ IF Refusal(body[r]) = 0
       THEN Goto(r, "queued") /\ UNCHANGED status
       ELSE /\ Goto(r, "answered")
            /\ status' = [status EXCEPT ![r] = Refusal(body[r])]
    /\ UNCHANGED <<body, gone, location, jobs, mu, tokenVars, signVars, listVars>>

(* The client drops the connection: net/http cancels r.Context().          *)
Disconnect(r) ==
    /\ pc[r] \notin {"idle", "answered"}
    /\ r \notin gone
    /\ gone' = gone \cup {r}
    /\ UNCHANGED <<pc, outcome, body, status, location, jobs, mu, tokenVars,
                   signVars, listVars>>

\* Mutation: no mutex.
LockMu_Contended(r) ==
    /\ pc[r] = "queued"
    /\ mu' = r
    /\ IF r \in gone THEN Return(r, "unavailable", "unlocking")
                     ELSE Goto(r, "confirming")
    /\ UNCHANGED <<requestVars, tokenVars, signVars, listVars>>

\* Mutation: the dialog is shown whether or not the client is still there.
LockMu_Detached(r) ==
    /\ pc[r] = "queued"
    /\ mu = Nobody
    /\ mu' = r
    /\ Goto(r, "confirming")
    /\ UNCHANGED <<requestVars, tokenVars, signVars, listVars>>

(* mu.Lock() does not look at the context, and Confirm follows at once:    *)
(* osascript is not started for a request that is already cancelled.       *)
LockMu(r) ==
    /\ pc[r] = "queued"
    /\ mu = Nobody
    /\ mu' = r
    /\ IF r \in gone THEN Return(r, "unavailable", "unlocking")
                     ELSE Goto(r, "confirming")
    /\ UNCHANGED <<requestVars, tokenVars, signVars, listVars>>

(* The user types a PIN and presses Sign.  The answer may still win        *)
(* against the kill that a disconnect sends to the dialog.                 *)
EnterPin(r, p) ==
    /\ pc[r] = "confirming"
    /\ pin' = [pin EXCEPT ![r] = p]
    /\ consent' = [consent EXCEPT ![r] = TRUE]
    /\ Goto(r, "loading")
    /\ UNCHANGED <<sig, signs, logins, mu, requestVars, tokenVars, listVars>>

(* The user cancels, or presses Sign on an empty answer.                   *)
CancelDialog(r) ==
    /\ pc[r] = "confirming"
    /\ Return(r, "cancelled", "unlocking")
    /\ UNCHANGED <<mu, requestVars, tokenVars, signVars, listVars>>

\* Mutation: a dialog that could not run counts as an approval.
DialogFails_Approves(r) ==
    /\ pc[r] = "confirming"
    /\ Goto(r, "loading")
    /\ UNCHANGED <<mu, requestVars, tokenVars, signVars, listVars>>

(* osascript fails for another reason: no GUI session, a TCC denial.       *)
DialogFails(r) ==
    /\ pc[r] = "confirming"
    /\ Return(r, "unavailable", "unlocking")
    /\ UNCHANGED <<mu, requestVars, tokenVars, signVars, listVars>>

(* exec.CommandContext kills the dialog of a request that was dropped.     *)
KillDialog(r) == r \in gone /\ DialogFails(r)

-----------------------------------------------------------------------------
(* signWithToken: the module, the session and the login.                   *)

\* Mutation: the error return skips the deferred unlock.
LoadModule_KeepsMu(r) ==
    /\ pc[r] = "loading"
    /\ \/ module = Nobody /\ module' = r /\ Goto(r, "opening")
       \/ Return(r, "failed", "replying") /\ UNCHANGED module
    /\ UNCHANGED <<session, inserted, tries, mu, requestVars, signVars, listVars>>

(* token.Load, which may fail, and does while anybody, a certificate       *)
(* listing too, has the PKCS#11 module, of which a process has only one,   *)
(* initialised.                                                            *)
LoadModule(r) ==
    /\ pc[r] = "loading"
    /\ \/ module = Nobody /\ module' = r /\ Goto(r, "opening")
       \/ Return(r, "failed", "unlocking") /\ UNCHANGED module
    /\ UNCHANGED <<session, inserted, tries, mu, requestVars, signVars, listVars>>

(* selectSlot wants exactly one token present; then C_OpenSession, which   *)
(* may fail.                                                               *)
OpenSession(r) ==
    /\ pc[r] = "opening"
    /\ \/ \E t \in Tokens :
             /\ inserted = {t}
             /\ session' = [token |-> t, loggedIn |-> FALSE, key |-> NoKey]
             /\ Goto(r, "login")
       \/ Return(r, "failed", "finalizing") /\ UNCHANGED session
    /\ UNCHANGED <<module, inserted, tries, mu, requestVars, signVars, listVars>>

\* A wrong PIN costs a try; a locked token has none to lose.
AfterWrongPin(n) == IF n = 0 THEN 0 ELSE n - 1

(* The one C_Login.  It fails on a wrong PIN, on a locked token, on a      *)
(* session that died with its token and on any error of the device;        *)
(* OpenSigner then closes the session.                                     *)
Login(r) ==
    /\ pc[r] = "login"
    /\ logins' = [logins EXCEPT ![r] = @ + 1]
    /\ \/ /\ session # NoSession
          /\ tries[session.token] > 0
          /\ pin[r] = PinOf[session.token]
          /\ tries' = [tries EXCEPT ![session.token] = MaxTries]
          /\ session' = [session EXCEPT !.loggedIn = TRUE]
          /\ Goto(r, "selecting")
       \/ /\ session # NoSession
          /\ pin[r] # PinOf[session.token] \/ tries[session.token] = 0
          /\ tries' = [tries EXCEPT ![session.token] = AfterWrongPin(@)]
          /\ session' = NoSession
          /\ Return(r, "failed", "finalizing")
       \/ /\ session' = NoSession
          /\ Return(r, "failed", "finalizing")
          /\ UNCHANGED tries
    /\ UNCHANGED <<module, inserted, pin, sig, signs, consent, mu, requestVars, listVars>>

\* Mutation: a token without the key is left logged in.
SelectKey_Leaks(r) ==
    /\ pc[r] = "selecting"
    /\ \/ /\ session # NoSession /\ body[r].cert \in KeysOn[session.token]
          /\ session' = [session EXCEPT !.key = body[r].cert]
          /\ Goto(r, "preparing")
       \/ Return(r, "failed", "finalizing") /\ UNCHANGED session
    /\ UNCHANGED <<module, inserted, tries, mu, requestVars, signVars, listVars>>

\* Mutation: a token without the key is closed and another one tried.
SelectKey_Retries(r) ==
    /\ pc[r] = "selecting"
    /\ \/ /\ session # NoSession /\ body[r].cert \in KeysOn[session.token]
          /\ session' = [session EXCEPT !.key = body[r].cert]
          /\ Goto(r, "preparing")
       \/ Goto(r, "opening") /\ session' = NoSession
    /\ UNCHANGED <<module, inserted, tries, mu, requestVars, signVars, listVars>>

\* Mutation: the token's own key is taken, as for an empty --key-id.
SelectKey_Any(r) ==
    /\ pc[r] = "selecting"
    /\ \/ /\ session # NoSession
          /\ \E k \in KeysOn[session.token] : session' = [session EXCEPT !.key = k]
          /\ Goto(r, "preparing")
       \/ Return(r, "failed", "finalizing") /\ session' = NoSession
    /\ UNCHANGED <<module, inserted, tries, mu, requestVars, signVars, listVars>>

(* selectPrivateKey and findCertDERByID look for the requested key on the  *)
(* token that was opened; without it, or a certificate that parses,        *)
(* OpenSigner logs out and closes.                                         *)
SelectKey(r) ==
    /\ pc[r] = "selecting"
    /\ \/ /\ session # NoSession /\ body[r].cert \in KeysOn[session.token]
          /\ session' = [session EXCEPT !.key = body[r].cert]
          /\ Goto(r, "preparing")
       \/ Return(r, "failed", "finalizing") /\ session' = NoSession
    /\ UNCHANGED <<module, inserted, tries, mu, requestVars, signVars, listVars>>

-----------------------------------------------------------------------------
(* The profile signers, between OpenSigner and the deferred closes.        *)

(* What a profile does before it asks the token, each step of which may    *)
(* fail.  pades wants a PDF, and the reader panics on some malformed ones. *)
PreparePades(r) ==
    /\ Profile(body[r]) = "pades"
    /\ \/ Shape[body[r].data] = "pdf" /\ Goto(r, "signing")
       \/ Return(r, "failed", "closing")
       \/ Return(r, "panicked", "closing")

(* xades starts the DSS helper under r.Context(), which starts nothing once *)
(* it is done, and asks it for the data to sign.                           *)
PrepareXades(r) ==
    /\ Profile(body[r]) = "xades"
    /\ \/ Shape[body[r].data] # "empty" /\ r \notin gone /\ Goto(r, "signing")
       \/ Return(r, "failed", "closing")

(* xadesauth builds the enveloping document around the challenge.          *)
PrepareAuth(r) ==
    /\ Profile(body[r]) = "auth"
    /\ Goto(r, "signing") \/ Return(r, "failed", "closing")

(* signWithToken's temporary directory and its switch on the profile.      *)
Prepare(r) ==
    /\ pc[r] = "preparing"
    /\ PreparePades(r) \/ PrepareXades(r) \/ PrepareAuth(r)
    /\ UNCHANGED <<mu, requestVars, tokenVars, signVars, listVars>>

(* Signer.Sign: C_SignInit and C_Sign, which fail when the session is gone *)
(* and may fail anyway.  xadesauth's time-stamp request then fails at once *)
(* if the context is done.                                                 *)
TokenSign(r) ==
    /\ pc[r] = "signing"
    /\ \/ /\ session # NoSession
          /\ sig' = [sig EXCEPT ![r] = [key |-> session.key, doc |-> body[r].data]]
          /\ signs' = [signs EXCEPT ![r] = @ + 1]
          /\ IF Profile(body[r]) = "auth" /\ r \in gone
             THEN Return(r, "failed", "closing")
             ELSE Goto(r, "stamping")
       \/ Return(r, "failed", "closing") /\ UNCHANGED <<sig, signs>>
    /\ UNCHANGED <<pin, consent, logins, mu, requestVars, tokenVars, listVars>>

(* The time-stamping authority answers, directly or through the helper's   *)
(* signDocument, and the container is written, read back and encoded.  A   *)
(* PAdES signature that outgrew its placeholder is made again, from the    *)
(* token on (replaceSignature calls SignPDF).                              *)
StampAnswered(r) ==
    /\ pc[r] = "stamping"
    /\ \/ Return(r, "signed", "closing")
       \/ Return(r, "failed", "closing")
       \/ /\ Profile(body[r]) = "pades"
          /\ signs[r] <= MaxResigns
          /\ Goto(r, "signing")
    /\ UNCHANGED <<mu, requestVars, tokenVars, signVars, listVars>>

\* Mutation: the DSS helper is started without the context.
AbandonStamp_LoginOnly(r) ==
    /\ pc[r] = "stamping"
    /\ r \in gone
    /\ Profile(body[r]) = "auth"
    /\ Return(r, "failed", "closing")
    /\ UNCHANGED <<mu, requestVars, tokenVars, signVars, listVars>>

(* A disconnect cancels xadesauth's HTTP request and kills the DSS helper. *)
(* pades ignores its context and goes on waiting.                          *)
AbandonStamp(r) ==
    /\ pc[r] = "stamping"
    /\ r \in gone
    /\ Profile(body[r]) # "pades"
    /\ Return(r, "failed", "closing")
    /\ UNCHANGED <<mu, requestVars, tokenVars, signVars, listVars>>

-----------------------------------------------------------------------------
(* The deferred closes, which a panic runs too, and the answer.            *)

(* defer signer.Close(): C_Logout and C_CloseSession.                      *)
CloseSigner(r) ==
    /\ pc[r] = "closing"
    /\ session' = NoSession
    /\ Goto(r, "finalizing")
    /\ UNCHANGED <<module, inserted, tries, mu, requestVars, signVars, listVars>>

(* defer tctx.Close(): C_Finalize, which ends any session left open.       *)
CloseModule(r) ==
    /\ pc[r] = "finalizing"
    /\ module' = Nobody
    /\ session' = NoSession
    /\ Goto(r, "unlocking")
    /\ UNCHANGED <<inserted, tries, mu, requestVars, signVars, listVars>>

(* The PIN goes out of scope and defer mu.Unlock() runs.                   *)
UnlockMu(r) ==
    /\ pc[r] = "unlocking"
    /\ mu' = Nobody
    /\ pin' = [pin EXCEPT ![r] = NoPin]
    /\ Goto(r, "replying")
    /\ UNCHANGED <<sig, signs, consent, logins, requestVars, tokenVars, listVars>>

\* Mutation: an error that is not a cancellation is left to the 200 that
\* net/http writes by itself.
ErrorStatus_Implicit(result) == CASE result = "cancelled" -> 403
                                  [] result = "panicked"  -> -1
                                  [] OTHER                -> 200

\* handleSign's error mapping; net/http recovers a panic without answering.
ErrorStatus(result) == CASE result = "cancelled" -> 403
                         [] result = "panicked"  -> -1
                         [] OTHER                -> 500

(* Back in handleSign: an error becomes a status; a result is stored under *)
(* a new uuid and answered 201, whether or not the client is still there.  *)
Reply(r) ==
    /\ pc[r] = "replying"
    /\ \/ /\ outcome[r] = "signed"
          /\ \E u \in UUIDs :
               /\ jobs[u] = NoJob
               /\ jobs' = [jobs EXCEPT ![u] = [format |-> FormatSeg(body[r]),
                                               container |-> sig[r]]]
               /\ location' = [location EXCEPT ![r] = u]
          /\ status' = [status EXCEPT ![r] = 201]
       \/ /\ outcome[r] # "signed"
          /\ status' = [status EXCEPT ![r] = ErrorStatus(outcome[r])]
          /\ UNCHANGED <<jobs, location>>
    /\ Goto(r, "answered")
    /\ UNCHANGED <<body, gone, mu, tokenVars, signVars, listVars>>

\* GET /sign/data/PKCS11/{uuid}/{format} reads the uuid only and takes nothing
\* out of the store: what a fetch of u answers.
HandleSignResult(u) == IF jobs[u] = NoJob THEN 404 ELSE jobs[u].container

-----------------------------------------------------------------------------
(* GET /certificates, which does not take mu.                              *)

(* The provider's token.Load; an error is answered as an empty list.       *)
ListLoad(l) ==
    /\ lpc[l] = "idle"
    /\ \/ module = Nobody /\ module' = l /\ lpc' = [lpc EXCEPT ![l] = "loaded"]
       \/ lpc' = [lpc EXCEPT ![l] = "done"] /\ UNCHANGED module
    /\ UNCHANGED <<pc, outcome, mu, session, inserted, tries, todo,
                   requestVars, signVars>>

(* Inspect asks for the slots: none on an error, those of the tokens that  *)
(* are plugged in and perhaps an empty reader otherwise.                   *)
ListSlots(l) ==
    /\ lpc[l] = "loaded"
    /\ \E slots \in SUBSET Tokens :
          /\ slots = {} \/ inserted \subseteq slots
          /\ todo' = [todo EXCEPT ![l] = slots]
    /\ lpc' = [lpc EXCEPT ![l] = "walking"]
    /\ UNCHANGED <<pc, outcome, mu, tokenVars, requestVars, signVars>>

(* inspectSlot opens a session of its own on a slot, without a login; a    *)
(* slot without a token, or that gives no session, is passed over.         *)
ListOpen(l) ==
    /\ lpc[l] = "walking"
    /\ \E t \in todo[l] :
          /\ todo' = [todo EXCEPT ![l] = @ \ {t}]
          /\ \/ /\ t \in inserted
                /\ session' = [token |-> t, loggedIn |-> FALSE, key |-> NoKey]
                /\ lpc' = [lpc EXCEPT ![l] = "reading"]
             \/ UNCHANGED <<session, lpc>>
    /\ UNCHANGED <<pc, outcome, mu, module, inserted, tries, requestVars,
                   signVars>>

\* Mutation: the session of a slot is left open on the way to the next.
ListRead_KeepsSession(l) ==
    /\ lpc[l] = "reading"
    /\ lpc' = [lpc EXCEPT ![l] = "walking"]
    /\ UNCHANGED <<pc, outcome, mu, todo, tokenVars, requestVars, signVars>>

(* The token's certificates, which are data for the answer: whether they   *)
(* can be read or the session died changes nothing else.  Then defer       *)
(* CloseSession.                                                           *)
ListRead(l) ==
    /\ lpc[l] = "reading"
    /\ session' = NoSession
    /\ lpc' = [lpc EXCEPT ![l] = "walking"]
    /\ UNCHANGED <<pc, outcome, mu, module, inserted, tries, todo, requestVars,
                   signVars>>

(* defer c.Close(), and the answer.                                        *)
ListClose(l) ==
    /\ lpc[l] = "walking"
    /\ todo[l] = {}
    /\ module' = Nobody
    /\ session' = NoSession
    /\ lpc' = [lpc EXCEPT ![l] = "done"]
    /\ UNCHANGED <<pc, outcome, mu, inserted, tries, todo, requestVars,
                   signVars>>

-----------------------------------------------------------------------------
(* Tokens come and go; a session dies with its token.                      *)

Plug(t) ==
    /\ t \notin inserted
    /\ inserted' = inserted \cup {t}
    /\ UNCHANGED <<pc, outcome, mu, module, session, tries, requestVars,
                   signVars, listVars>>

Unplug(t) ==
    /\ t \in inserted
    /\ inserted' = inserted \ {t}
    /\ session' = IF session # NoSession /\ session.token = t THEN NoSession
                                                             ELSE session
    /\ UNCHANGED <<pc, outcome, mu, module, tries, requestVars, signVars, listVars>>

-----------------------------------------------------------------------------
\* The steps a request's goroutine takes by itself.
Run(r) ==
    \/ LoadModule(r) \/ OpenSession(r) \/ Login(r) \/ SelectKey(r)
    \/ Prepare(r) \/ TokenSign(r) \/ AbandonStamp(r) \/ KillDialog(r)
    \/ CloseSigner(r) \/ CloseModule(r) \/ UnlockMu(r) \/ Reply(r)

\* What the person at the dialog may do.
Answer(r) == (\E p \in Pins : EnterPin(r, p)) \/ CancelDialog(r) \/ DialogFails(r)

\* What follows a listing's token.Load.
Walk(l) == ListSlots(l) \/ ListOpen(l) \/ ListRead(l) \/ ListClose(l)

List(l) == ListLoad(l) \/ Walk(l)

Next ==
    \/ \E r \in Requests : \/ HandleSign(r) \/ Disconnect(r) \/ LockMu(r)
                          \/ Answer(r) \/ Run(r) \/ StampAnswered(r)
    \/ \E l \in Listers : List(l)
    \/ \E t \in Tokens : Plug(t) \/ Unplug(t)

Spec == Init /\ [][Next]_vars

(* Goroutines run, and sync.Mutex hands the lock to a waiter it has        *)
(* starved for a millisecond.                                              *)
Scheduling == \A r \in Requests : WF_vars(Run(r)) /\ SF_vars(LockMu(r))

(* The user and the authority answer, and a listing ends.                  *)
Cooperation == /\ \A r \in Requests : WF_vars(Answer(r)) /\ WF_vars(StampAnswered(r))
               /\ \A l \in Listers : WF_vars(Walk(l))

(* Nobody need answer the dialog, and a time-stamp may never arrive.       *)
FairSpec == Spec /\ Scheduling

-----------------------------------------------------------------------------
(* Safety.                                                                 *)

Holding == {"confirming", "loading", "opening", "login", "selecting", "preparing",
            "signing", "stamping", "closing", "finalizing", "unlocking"}
Initialised == {"opening", "login", "selecting", "preparing", "signing", "stamping",
                "closing", "finalizing"}
Authenticated == {"selecting", "preparing", "signing", "stamping", "closing"}

(* One confirm-login-sign operation at a time: a request is between its    *)
(* dialog and its unlock exactly while it holds mu, and a typed PIN exists *)
(* only there (TokenSigner.Sign's mutex and PIN scrub).                    *)
OneOperation ==
    /\ \A r \in Requests : mu = r <=> pc[r] \in Holding
    /\ \A r \in Requests : pin[r] # NoPin => mu = r

(* C_Initialize and C_Finalize are balanced on every path, error and panic *)
(* included, between signs and listings that share no lock.  A session     *)
(* exists only inside such a pair and never outlives its operation: a      *)
(* sign's, by the holder of mu, is logged in from its login to its close,  *)
(* a listing's is open on one slot at a time and never logged in           *)
(* (Load/Close, OpenSigner/Close, inspectSlot and their defers).           *)
ModuleDiscipline ==
    /\ \A r \in Requests : module = r <=> pc[r] \in Initialised
    /\ \A l \in Listers : module = l <=> lpc[l] \in {"loaded", "walking", "reading"}
    /\ session # NoSession =>
          \/ /\ module \in Requests
             /\ module = mu
             /\ pc[module] \in {"login"} \cup Authenticated
             /\ session.loggedIn <=> pc[module] \in Authenticated
          \/ /\ module \in Listers
             /\ lpc[module] = "reading"
             /\ ~session.loggedIn

(* The number of requests whose user typed a PIN.                          *)
Consents == Cardinality({r \in Requests : consent[r]})

(* A typed PIN is tried at most once, an untyped one never, and so a token *)
(* loses at most one of its tries per confirmed dialog, whatever fails,    *)
(* is unplugged or is retried ("EXACTLY ONE C_Login", OpenSigner).         *)
OneLoginPerConsent ==
    /\ \A r \in Requests : logins[r] <= IF consent[r] THEN 1 ELSE 0
    /\ \A t \in Tokens : MaxTries - tries[t] <= Consents

(* The answer tells the truth, then and ever after: 201 means a fetch of   *)
(* the Location yields this request's own document signed with the key it  *)
(* named, after its user consented and one login; 403 and 400 mean the     *)
(* token was not touched (handleSign, JobStore, handleSignResult).         *)
AnswerHonest ==
    \A r \in Requests :
        /\ status[r] = 201 =>
              /\ consent[r] /\ logins[r] = 1 /\ signs[r] > 0
              /\ HandleSignResult(location[r]) = SignatureFor(body[r])
              /\ jobs[location[r]].format = FormatSeg(body[r])
        /\ status[r] \in {400, 403} => logins[r] = 0 /\ signs[r] = 0 /\ ~consent[r]

(* A request whose client left while it was queued behind another sign     *)
(* never asks the user for a PIN and never reaches the token (LockMu's     *)
(* Confirm with a cancelled context).                                      *)
AbandonedUnprompted ==
    \A r \in Requests :
        [](r \in gone /\ pc[r] = "queued" => [](pc[r] # "confirming" /\ logins[r] = 0))

-----------------------------------------------------------------------------
(* Liveness.                                                               *)

(* If users and the authority answer, every posted request ends, and       *)
(* leaves the mutex to the next one, whatever tokens, listings and         *)
(* disconnects do meanwhile.                                               *)
EveryRequestEnds ==
    Cooperation => \A r \in Requests : (pc[r] = "queued") ~> (pc[r] = "answered")

(* Whether or not the user and the authority ever answer, a dropped        *)
(* request gives the token up, unless it is a PAdES one: pades ignores its *)
(* context.                                                                *)
DisconnectFreesTheToken ==
    \A r \in Requests :
        (r \in gone /\ mu = r /\ Profile(body[r]) # "pades") ~> (mu # r)

-----------------------------------------------------------------------------
(* SignDaemon implements ConfirmedSigning.                                 *)

StageOf(r) ==
    IF outcome[r] = "signed" THEN "delivered"
    ELSE IF outcome[r] # "none" THEN "refused"
    ELSE IF pc[r] \in {"idle", "queued", "answered"} THEN "waiting"
    ELSE IF pc[r] = "confirming" THEN "asking"
    ELSE IF pc[r] \in {"loading", "opening", "login"} /\ consent[r] THEN "consented"
    ELSE IF signs[r] > 0 THEN "signed" ELSE "authenticated"

Service == INSTANCE ConfirmedSigning
               WITH turn <- mu,
                    stage <- [r \in Requests |-> StageOf(r)],
                    tried <- {r \in Requests : logins[r] > 0}

(* The handlers, the mutex, the dialog, the token and the engines together *)
(* do what the service promises, step by step.                             *)
ImplementsService == Service!Spec

(* So no two requests' turns overlap, and nothing is tried or signed that  *)
(* was not consented to (handleSign under mu).                             *)
TurnsAreWhole == Service!TurnsAreWhole

-----------------------------------------------------------------------------
(* What the mutex is for: a confirmed request finds the module free.       *)
MuCoversModule == \A r \in Requests : pc[r] = "loading" => module = Nobody

-----------------------------------------------------------------------------
(* The inductive invariant: the three named properties, and what each      *)
(* stage of a request knows about it.                                      *)

Unasked(r) == ~consent[r] /\ logins[r] = 0 /\ signs[r] = 0
SignedAsAsked(r) == /\ consent[r] /\ logins[r] = 1 /\ signs[r] > 0
                    /\ sig[r] = SignatureFor(body[r])

StageFacts(r) ==
    /\ pc[r] \notin {"idle", "answered"} => Refusal(body[r]) = 0
    /\ pc[r] \in {"idle", "queued", "confirming"} => Unasked(r)
    /\ pc[r] \in {"loading", "opening", "login"} =>
          consent[r] /\ logins[r] = 0 /\ signs[r] = 0
    /\ pc[r] \in {"selecting", "preparing"} =>
          consent[r] /\ logins[r] = 1 /\ signs[r] = 0
    /\ pc[r] = "signing" => consent[r] /\ logins[r] = 1 /\ signs[r] <= MaxResigns
    /\ pc[r] = "stamping" => SignedAsAsked(r)
    /\ logins[r] <= 1 /\ (logins[r] = 1 => consent[r])

OutcomeFacts(r) ==
    /\ outcome[r] = "signed" => SignedAsAsked(r)
    /\ outcome[r] = "cancelled" => Unasked(r)
    /\ pc[r] \in {"closing", "finalizing", "unlocking", "replying"} => outcome[r] # "none"
    /\ outcome[r] # "none" => pc[r] \in {"closing", "finalizing", "unlocking",
                                        "replying", "answered"}
    /\ pc[r] = "answered" /\ outcome[r] = "none" => Unasked(r)
    /\ status[r] # 0 => pc[r] = "answered"
    /\ status[r] \in {400, 403} => Unasked(r)

KeyFound ==
    \A r \in Requests :
        pc[r] \in {"preparing", "signing", "stamping"} /\ session # NoSession
            => session.key = body[r].cert

IndInv ==
    /\ TypeOK
    /\ OneOperation
    /\ ModuleDiscipline
    /\ \A r \in Requests : StageFacts(r) /\ OutcomeFacts(r)
    /\ KeyFound
=============================================================================
