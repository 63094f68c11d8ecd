---------------------------- MODULE CommandLine ----------------------------
(***************************************************************************)
(* "openmdsign sign", "sign-raw" and "verify" (cmd/openmdsign,             *)
(* internal/verify): processes that are started side by side or one after  *)
(* the other on the same files and the same token, may be interrupted at   *)
(* any step, and tell what happened by their exit code.                    *)
(***************************************************************************)
EXTENDS Integers, FiniteSets

CONSTANTS
    Commands,       \* the processes
    Invocations,    \* the command lines each may be started with
    Names,          \* base names of the documents
    Paths,          \* the paths the command lines come to; others have no file
    PdfNames,       \* those with the extension .pdf
    Docs,           \* what a document can hold
    PdfDocs,        \* those that are PDFs
    Documents,      \* what each document holds at first
    Pin,            \* the PIN the token accepts
    MaxTries,       \* the wrong PINs it takes before it locks
    MaxEdits,       \* bound: the files that somebody has edited at a time
    None,           \* no file, an option not given, nothing read
    Torn            \* a file truncated and not yet written

(* Paths: the working directory and sign-out; a signed file has the name   *)
(* of its document and an extension of its own.                            *)
Extensions == {"", ".xades", ".signed", ".sig"}
AllPaths == [dir : {".", "sign-out", "sign-raw-out"}, name : Names, ext : Extensions]

Options == [cmd : {"sign", "sign-raw", "verify"}, file : Paths,
            out : Paths \cup {None}, original : Paths \cup {None},
            profile : {"auto", "pades", "xades"},
            packaging : {"detached", "enveloping"}, level : {"b", "t"},
            pin : {Pin, "wrong", None}, revocation : BOOLEAN]

(* A signed file is known by the command that made it, which remembers     *)
(* what it signed.  "intact": no byte that is signed was edited; "grown":  *)
(* an update that the signature does not cover was appended; "stamp": its  *)
(* time-stamp, the maker's own or one that was made for something else.    *)
Signed == [maker : Commands, intact : BOOLEAN, grown : BOOLEAN,
           stamp : {"none", "own", "other"}]
Contents == Docs \cup Signed \cup {None, Torn}

ASSUME CommandAssumption ==
    /\ Paths \subseteq AllPaths
    /\ Invocations \in [Commands -> SUBSET Options]
    /\ \A c \in Commands : \A o \in Invocations[c] : o.cmd # "verify" => o.file.ext = ""
    /\ PdfNames \subseteq Names /\ PdfDocs \subseteq Docs
    /\ Documents \in [Names -> Docs]
    /\ MaxTries \in Nat /\ MaxEdits \in Nat
    /\ None \notin Paths \cup Docs \cup Signed /\ Torn \notin Docs \cup Signed \cup {None}
    /\ Docs \cap Signed = {}
    /\ Pin \notin {"wrong", None}
    /\ IsFiniteSet(Commands) /\ Commands \cap {"user", None} = {}

VARIABLES
    fs,         \* the files
    tries,      \* the wrong PINs the token still accepts
    expired,    \* the signing certificate has expired
    opts,       \* each process's command line
    stage,      \* what it does next
    input,      \* the content of --file, as read
    original,   \* the content of the detached original, as read
    stamped,    \* its signature was made before the certificate expired
    matches,    \* sign-raw: the signature verifies in-process
    exit,       \* its exit code
    result,     \* what verify found out
    logins,     \* observed: its C_Login calls
    signed,     \* observed: the processes that the token has signed for
    touched     \* observed: who wrote or edited each file last

tokenVars == <<tries, logins>>
readVars == <<input, original>>
signVars == <<stamped, matches, signed>>
fileVars == <<fs, touched>>
vars == <<fileVars, expired, tokenVars, readVars, signVars, opts, stage, exit, result>>

Running == -1

(* verify.Result: the signature verifies, its certificate is known to be   *)
(* revoked, its chain leads to an anchor; and, observed, whether the       *)
(* certificate had expired by then.                                        *)
Results == [valid : BOOLEAN, revoked : BOOLEAN, trusted : BOOLEAN, late : BOOLEAN]
NoResult == [valid |-> FALSE, revoked |-> FALSE, trusted |-> FALSE, late |-> FALSE]

\* Each process has one of its command lines.
CommandLines == {f \in [Commands -> UNION {Invocations[c] : c \in Commands}] :
                    \A c \in Commands : f[c] \in Invocations[c]}

Init ==
    /\ fs = [p \in Paths |-> IF p.dir = "." /\ p.ext = "" THEN Documents[p.name] ELSE None]
    /\ tries = MaxTries
    /\ expired = FALSE
    /\ opts \in CommandLines
    /\ stage = [c \in Commands |-> "start"]
    /\ input = [c \in Commands |-> None]
    /\ original = [c \in Commands |-> None]
    /\ stamped = [c \in Commands |-> FALSE]
    /\ matches = [c \in Commands |-> FALSE]
    /\ exit = [c \in Commands |-> Running]
    /\ result = [c \in Commands |-> NoResult]
    /\ logins = [c \in Commands |-> 0]
    /\ signed = {}
    /\ touched = [p \in Paths |-> None]

-----------------------------------------------------------------------------
(* What the options come to.                                               *)

\* resolveProfile: by the extension of --file, unless the profile is named.
Profile(o) == IF o.profile # "auto" THEN o.profile
              ELSE IF o.file.name \in PdfNames THEN "pades" ELSE "xades"

\* runSign and runSignRaw refuse what they can tell from the command line.
Refused(o) ==
    \/ o.pin = None
    \/ o.cmd = "sign" /\ o.profile = "pades" /\ o.file.name \notin PdfNames

\* --out, or the default: a name of its own in sign-out or sign-raw-out.
OutPath(o) ==
    IF o.out # None THEN o.out
    ELSE IF o.cmd = "sign-raw" THEN [dir |-> "sign-raw-out", name |-> o.file.name, ext |-> ".sig"]
    ELSE [dir |-> "sign-out", name |-> o.file.name,
          ext |-> IF Profile(o) = "xades" THEN ".xades" ELSE ".signed"]

ASSUME PathAssumption ==
    \A c \in Commands : \A o \in Invocations[c] : OutPath(o) \in Paths

IsSigned(content) == content \notin Docs \cup {None, Torn}

\* What kind of file command c writes.
Form(c) == IF opts[c].cmd = "sign-raw" THEN "raw" ELSE Profile(opts[c])

-----------------------------------------------------------------------------
Continue(c, s) == stage' = [stage EXCEPT ![c] = s] /\ UNCHANGED exit
Leave(c, code) == /\ stage' = [stage EXCEPT ![c] = "exited"]
                  /\ exit' = [exit EXCEPT ![c] = code]

Signing(c) == opts[c].cmd \in {"sign", "sign-raw"}

\* Mutation: the output is opened before anything else is done.
ReadInput_Truncates(c) ==
    /\ stage[c] = "start" /\ Signing(c)
    /\ input' = [input EXCEPT ![c] = fs[opts[c].file]]
    /\ ~Refused(opts[c]) /\ fs[opts[c].file] # None /\ Continue(c, "login")
    /\ fs' = [fs EXCEPT ![OutPath(opts[c])] = Torn]
    /\ touched' = [touched EXCEPT ![OutPath(opts[c])] = c]
    /\ UNCHANGED <<expired, tokenVars, original, signVars, opts, result>>

(* The flags, the configuration and the input, up to token.Load.           *)
ReadInput(c) ==
    /\ stage[c] = "start" /\ Signing(c)
    /\ input' = [input EXCEPT ![c] = fs[opts[c].file]]
    /\ \/ Leave(c, 1)
       \/ ~Refused(opts[c]) /\ fs[opts[c].file] # None /\ Continue(c, "login")
    /\ UNCHANGED <<fileVars, expired, tokenVars, original, signVars, opts, result>>

\* A wrong PIN costs a try; a locked token has none to lose.
AfterWrongPin(n) == IF n = 0 THEN 0 ELSE n - 1

\* Mutation: a failed login is tried once more.
Login_Retries(c) ==
    /\ stage[c] = "login"
    /\ logins' = [logins EXCEPT ![c] = @ + 1]
    /\ \/ /\ opts[c].pin = Pin /\ tries > 0
          /\ tries' = MaxTries
          /\ Continue(c, "sign")
       \/ /\ opts[c].pin # Pin
          /\ tries' = AfterWrongPin(tries)
          /\ IF logins[c] = 0 THEN Continue(c, "login") ELSE Leave(c, 1)
    /\ UNCHANGED <<fileVars, expired, readVars, signVars, opts, result>>

(* token.Load, OpenSigner or SignRaw: the slot, a session, and one login.  *)
Login(c) ==
    /\ stage[c] = "login"
    /\ \/ UNCHANGED tokenVars /\ Leave(c, 1)
       \/ /\ logins' = [logins EXCEPT ![c] = @ + 1]
          /\ \/ /\ opts[c].pin = Pin /\ tries > 0
                /\ tries' = MaxTries
                /\ Continue(c, "sign")
             \/ /\ \/ UNCHANGED tries
                   \/ opts[c].pin # Pin /\ tries' = AfterWrongPin(tries)
                /\ Leave(c, 1)
    /\ UNCHANGED <<fileVars, expired, readVars, signVars, opts, result>>

\* A profile that can sign what was read: pades.Sign wants a whole PDF (one
\* that is signed already, which it would sign again, is left out).
Signable(c) == Form(c) = "pades" => input[c] \in PdfDocs

(* The key and the certificate, the engine, the token's signature, and for *)
(* level t the time-stamp; any of them may fail, before the token signs or *)
(* after.  sign-raw then verifies its signature, and the token may not     *)
(* have the certificate.                                                   *)
Sign(c) ==
    /\ stage[c] = "sign"
    /\ \/ /\ signed' \in {signed, signed \cup {c}}
          /\ Leave(c, 1)
          /\ UNCHANGED <<stamped, matches>>
       \/ /\ Signable(c)
          /\ signed' = signed \cup {c}
          /\ stamped' = [stamped EXCEPT ![c] = opts[c].level = "t" /\ ~expired]
          /\ \E ok \in BOOLEAN : matches' = [matches EXCEPT ![c] = Form(c) = "raw" /\ ok]
          /\ Continue(c, "truncate")
    /\ UNCHANGED <<fileVars, expired, tokenVars, readVars, opts, result>>

\* The file that command c writes, as long as nobody else touches it.
Whole(c) == [maker |-> c, intact |-> TRUE, grown |-> FALSE,
             stamp |-> IF Form(c) # "raw" /\ opts[c].level = "t" THEN "own" ELSE "none"]

Write(c, content) ==
    /\ fs' = [fs EXCEPT ![OutPath(opts[c])] = content]
    /\ touched' = [touched EXCEPT ![OutPath(opts[c])] = c]

(* os.WriteFile truncates the output, ...                                  *)
Truncate(c) ==
    /\ stage[c] = "truncate"
    /\ \/ Write(c, Torn) /\ Continue(c, "fill")
       \/ Leave(c, 1) /\ UNCHANGED fileVars
    /\ UNCHANGED <<expired, tokenVars, readVars, signVars, opts, result>>

\* Mutation: the error of the write is dropped.
Fill_Unchecked(c) ==
    /\ stage[c] = "fill"
    /\ \/ Write(c, Whole(c))
       \/ UNCHANGED fileVars
    /\ Continue(c, "report")
    /\ UNCHANGED <<expired, tokenVars, readVars, signVars, opts, result>>

(* ... and writes it, over what another command has written since, whose   *)
(* end then may remain; or fails with the disk full.                       *)
Fill(c) ==
    /\ stage[c] = "fill"
    /\ \/ /\ \/ Write(c, Whole(c))
             \/ fs[OutPath(opts[c])] # Torn /\ Write(c, Torn)
          /\ Continue(c, "report")
       \/ Leave(c, 1) /\ UNCHANGED fileVars
    /\ UNCHANGED <<expired, tokenVars, readVars, signVars, opts, result>>

(* The report, and the exit code; sign-raw's is 1 for a signature that did *)
(* not verify.                                                             *)
Report(c) ==
    /\ stage[c] = "report"
    /\ \/ Leave(c, 1)
       \/ (Form(c) = "raw" => matches[c]) /\ Leave(c, 0)
    /\ UNCHANGED <<fileVars, expired, tokenVars, readVars, signVars, opts, result>>

-----------------------------------------------------------------------------
(* verify: exit 0 VALID, 1 INVALID, 2 an error, 3 INDETERMINATE.           *)

\* DetectProfile and the readers: the file is signed, and as the profile that
\* is named, if one is, expects; a torn file and a raw signature are not.
Readable(o, content) ==
    /\ IsSigned(content)
    /\ Form(content.maker) # "raw"
    /\ o.profile \in {"auto", Form(content.maker)}

others == <<fileVars, expired, tokenVars, signVars, opts>>

(* Run, up to the engine: a file that is absent, torn, unsigned or of      *)
(* another profile is an error.                                            *)
OpenSigned(v) ==
    /\ stage[v] = "start" /\ opts[v].cmd = "verify"
    /\ LET content == fs[opts[v].file] IN
        /\ input' = [input EXCEPT ![v] = content]
        /\ \/ Leave(v, 2)
           \/ /\ Readable(opts[v], content)
              /\ Continue(v, IF Form(content.maker) = "pades" THEN "judge" ELSE "resolve")
    /\ UNCHANGED <<original, result, others>>

Detached(c) == Form(c) = "xades" /\ opts[c].packaging = "detached"

\* Where a detached signature's original is looked for.
OriginalPath(v) ==
    IF opts[v].original # None THEN opts[v].original
    ELSE LET source == opts[input[v].maker].file
         IN [dir |-> opts[v].file.dir, name |-> source.name, ext |-> source.ext]

\* The original a detached signature is checked against, None if not found.
Found(v) == IF OriginalPath(v) \in Paths THEN fs[OriginalPath(v)] ELSE None

(* resolveDetached: --original, or the file of the reference beside the    *)
(* signature.                                                              *)
Resolve(v) ==
    /\ stage[v] = "resolve"
    /\ IF Detached(input[v].maker) \/ opts[v].original # None
       THEN /\ original' = [original EXCEPT ![v] = Found(v)]
            /\ IF Found(v) = None THEN Leave(v, 2) ELSE Continue(v, "judge")
       ELSE UNCHANGED original /\ Continue(v, "judge")
    /\ UNCHANGED <<input, result, others>>

\* Mutation: the signature is checked, and not what it refers to.
SignatureHolds_Alone(v) == input[v].intact

\* The signature verifies, over the original if it is detached.
SignatureHolds(v) ==
    /\ input[v].intact
    /\ Detached(input[v].maker) => original[v] = input[input[v].maker]

(* The certificate's chain is judged at the time of the time-stamp that is *)
(* there, or now without one.  verifyPAdES takes the time of one that was  *)
(* made for something else, too, with a warning; DSS does not.             *)
InTime(v) ==
    LET file == input[v] IN
    \/ file.stamp = "own" /\ stamped[file.maker]
    \/ file.stamp = "none" /\ ~expired
    \/ file.stamp = "other" /\ (Form(file.maker) = "pades" \/ ~expired)

(* What is found out.  --check-revocation may learn of a revocation, and   *)
(* learns of none if nobody answers; a chain may lead nowhere.             *)
Findings(v) ==
    {r \in Results : /\ r.valid = SignatureHolds(v)
                     /\ r.revoked => opts[v].revocation
                     /\ r.trusted => InTime(v)
                     /\ r.late = expired}

\* Mutation: a trusted chain decides before a revocation does.
PadesVerdict_ChainFirst(r) ==
    {IF ~r.valid THEN 1 ELSE IF r.trusted THEN 0 ELSE IF r.revoked THEN 1 ELSE 3}

(* verifyPAdES: the signature, then revocation, then the chain.            *)
PadesVerdict(r) ==
    {IF ~r.valid \/ r.revoked THEN 1 ELSE IF r.trusted THEN 0 ELSE 3}

\* Mutation: a failing helper's own exit code is passed on.
XadesVerdict_HelpersOwn(r) == {1, 2, 3, 4}

(* verifyXAdES's map of what the DSS validator reports, which passes only  *)
(* a signature that holds, of a good certificate; the helper may fail.     *)
XadesVerdict(r) ==
    {1, 2, 3} \cup {code \in {0} : r.valid /\ ~r.revoked /\ r.trusted}

(* The verdict as an exit code; 1 also when the report cannot be written.  *)
Judge(v) ==
    /\ stage[v] = "judge"
    /\ \E r \in Findings(v) :
        /\ result' = [result EXCEPT ![v] = r]
        /\ \E code \in {1} \cup (IF Form(input[v].maker) = "pades" THEN PadesVerdict(r)
                                                             ELSE XadesVerdict(r)) :
            Leave(v, code)
    /\ UNCHANGED <<readVars, others>>

-----------------------------------------------------------------------------
(* The world: an interrupt, for which there is no handler; somebody who    *)
(* edits files; and the certificate's fate.                                *)

Interrupt(c) ==
    /\ stage[c] # "exited"
    /\ Leave(c, 130)
    /\ UNCHANGED <<readVars, result, others>>

(* What a signed file may be edited into: a byte that is signed, or the    *)
(* time-stamp, which is not, is changed; a PDF is updated by bytes at its  *)
(* end that leave the signature as it is.                                  *)
Edited(file) ==
    {[file EXCEPT !.intact = FALSE]}
    \cup {[file EXCEPT !.stamp = other] : other \in
              IF Form(file.maker) = "raw" THEN {} ELSE {"none", "other"}}
    \cup {[file EXCEPT !.grown = more] : more \in
              IF Form(file.maker) = "pades" THEN {TRUE} ELSE {}}

Edit(p) ==
    /\ Cardinality({q \in Paths \ {p} : touched[q] = "user"}) < MaxEdits
    /\ \/ fs[p] \in Docs /\ \E d \in Docs \ {fs[p]} : fs' = [fs EXCEPT ![p] = d]
       \/ /\ IsSigned(fs[p])
          /\ \E file \in Edited(fs[p]) \ {fs[p]} : fs' = [fs EXCEPT ![p] = file]
    /\ touched' = [touched EXCEPT ![p] = "user"]
    /\ UNCHANGED <<expired, tokenVars, readVars, signVars, opts, stage, exit, result>>

Expire ==
    /\ ~expired
    /\ expired' = TRUE
    /\ UNCHANGED <<fileVars, tokenVars, readVars, signVars, opts, stage, exit, result>>

Command(c) == \/ ReadInput(c) \/ Login(c) \/ Sign(c) \/ Truncate(c) \/ Fill(c)
              \/ Report(c) \/ OpenSigned(c) \/ Resolve(c) \/ Judge(c)

Next == \/ \E c \in Commands : Command(c) \/ Interrupt(c)
        \/ \E p \in Paths : Edit(p)
        \/ Expire

Spec == Init /\ [][Next]_vars

-----------------------------------------------------------------------------
TypeOK ==
    /\ fs \in [Paths -> Contents]
    /\ tries \in 0 .. MaxTries
    /\ expired \in BOOLEAN
    /\ opts \in CommandLines
    /\ stage \in [Commands -> {"start", "login", "sign", "truncate", "fill", "report",
                               "resolve", "judge", "exited"}]
    /\ input \in [Commands -> Contents]
    /\ original \in [Commands -> Contents]
    /\ stamped \in [Commands -> BOOLEAN]
    /\ matches \in [Commands -> BOOLEAN]
    /\ exit \in [Commands -> {Running, 0, 1, 2, 3, 130}]
    /\ result \in [Commands -> Results]
    /\ logins \in [Commands -> Nat]
    /\ signed \subseteq Commands
    /\ touched \in [Paths -> Commands \cup {None, "user"}]

(* A process logs in once at most, verify never, and the token loses no    *)
(* more tries than processes were given a wrong PIN ("EXACTLY ONE C_Login",*)
(* runSign and SignRaw).                                                   *)
PinIsTriedOnce ==
    /\ \A c \in Commands : logins[c] <= IF Signing(c) THEN 1 ELSE 0
    /\ MaxTries - tries <=
           Cardinality({c \in Commands : logins[c] > 0 /\ opts[c].pin # Pin})

(* A process for which the token has not signed leaves every file as it    *)
(* was, whatever else it got done, and one for which it has, after one     *)
(* login with the right PIN, touches only its output: the input too, when  *)
(* --out names it (runSign, runSignRaw).                                   *)
FailureLeavesFiles ==
    \A c \in Commands, p \in Paths :
        touched[p] = c => /\ c \in signed
                          /\ Signing(c) /\ p = OutPath(opts[c])
                          /\ logins[c] = 1 /\ opts[c].pin = Pin

(* Exit code 0 of sign and sign-raw means that the output is whole, if     *)
(* nobody edited it and no other process writes there, and that the raw    *)
(* signature verified against the certificate.                             *)
SuccessIsOnDisk ==
    \A c \in Commands :
        exit[c] = 0 /\ Signing(c) =>
            /\ Form(c) = "raw" => matches[c]
            /\ \/ fs[OutPath(opts[c])] = Whole(c)
               \/ touched[OutPath(opts[c])] = "user"
               \/ \E d \in Commands \ {c} : /\ Signing(d) /\ logins[d] = 1
                                            /\ OutPath(opts[d]) = OutPath(opts[c])

Earned(v) ==
    LET file == input[v]
        maker == file.maker
    IN  /\ IsSigned(file) /\ file.intact
        /\ opts[maker].cmd = "sign" /\ maker \in signed
        /\ logins[maker] = 1 /\ opts[maker].pin = Pin
        /\ Detached(maker) => original[v] = input[maker]
        /\ ~result[v].revoked /\ result[v].trusted
        /\ file.stamp = "own" => stamped[maker]
        /\ file.stamp = "none" => ~result[v].late

(* verify says VALID only of a file whose signed bytes are as a sign made  *)
(* them, with the token's signature and after one login with the right     *)
(* PIN; whose original, if it is detached, is what that sign read; whose   *)
(* certificate was not found revoked, has a chain to an anchor, and was    *)
(* not expired at the time of the sign's own time-stamp, or of the verdict *)
(* if there is none.  Nothing is said of bytes the signature does not      *)
(* cover, nor of the time if the time-stamp was made for something else.   *)
VerdictIsEarned ==
    \A v \in Commands : exit[v] = 0 /\ opts[v].cmd = "verify" => Earned(v)
=============================================================================
