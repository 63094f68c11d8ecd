# OpenMDSign: specifications, model checking and proofs

OpenMDSign signs documents and login challenges with a hardware token. A browser
page talks to `openmdsignd`, a daemon on the loopback interface; the daemon asks
the user for a PIN in a native dialog, logs in to the token through a PKCS#11
module, and builds a PAdES or XAdES container around the token's signature.
`openmdsign` does the same from a command line.

This directory holds TLA+ modules for the parts of the program whose correctness
depends on order, concurrency and failure, the TLC configurations that check
them, and TLAPS proofs of the safety properties and the refinements for
instances of any size. All paths below are relative to `src/`.

## 1. Inventory

| Component | Code | State it keeps | Operations | Modelled in |
|---|---|---|---|---|
| HTTP handlers | `internal/server/server.go`, `signer.go` | the `JobStore` (uuid -> container) | `handleSign`, `handleSignResult`, `handleCertificates` | SignDaemon |
| TokenSigner | `internal/server/tokensigner.go` | `mu`, which serializes signing | `Sign`, `signWithToken` | SignDaemon |
| Confirmation dialog | `internal/server/confirm.go` | an `osascript` process per request | `Confirm` | SignDaemon |
| Certificate listing | `internal/server/certs.go` | none; uses the token layer | `Certificates` | SignDaemon |
| Token layer | `internal/token` | the process's one PKCS#11 module, a session, its login | `Load`, `Close`, `OpenSigner`, `Signer.Sign`, `Signer.Close`, `Inspect`, `SignRaw` | SignDaemon, TokenInspect |
| PAdES engine | `internal/sign/pades`, `internal/pades/pdfsign` | a `SignContext` per signature | `SignPDF` and what it calls | PdfSign, and as steps in SignDaemon |
| XAdES document engine | `internal/sign/xades` | a helper process per call | `Sign`, `Validate`, `startHelper`, `call`, `close` | DssSession, and as steps in SignDaemon |
| XAdES login engine | `internal/sign/xadesauth` | none | `Build`, `fetchTimestampToken` | as steps in SignDaemon |
| DSS helper | `java/dss-helper` | the parameters of the last `getDataToSign` | `getDataToSign`, `signDocument`, `validate` | DssHelper, composed in DssSession |
| Serving certificate, trust | `internal/server/servingcert.go`, `trust.go`, `cmd/openmdsignd/trust.go` | two PEM files, the keychain | `EnsureCert`, `Install`, `Uninstall`, `Status` | ServingCert |
| Daemon life cycle | `internal/server/listen.go`, `cmd/openmdsignd/root.go` | two listeners, the requests they accepted, an exit code | `Run`, shutdown, signals | DaemonRun; its certificate in ServingCert |
| `inspect` | `cmd/openmdsign/inspect.go` | none | one walk, one exit code | TokenInspect |
| `sign`, `sign-raw` | `cmd/openmdsign/sign.go`, `sign_raw.go` | their output files; the token's try counter | one login and one signature per process | CommandLine |
| `verify` | `internal/verify`, `cmd/openmdsign/verify.go` | none | a verdict as an exit code | CommandLine |
| Configuration, certificate rendering | `internal/config`, `internal/x509util` | none | parsing and formatting | no |

How they interact. `net/http` runs each request in a goroutine. `handleSign`
calls `TokenSigner.Sign` synchronously; it holds `mu` from before the dialog to
after the deferred closes of the token. The time-stamping authority is called
with `mu` held and the token logged in. `handleCertificates` uses the same
PKCS#11 module without `mu`. The request's context, cancelled when the client
drops the connection, reaches the dialog, the helper process and xadesauth's
HTTP request, but neither `mu.Lock()` nor the PAdES engine. `serve` and
`trust install` both write the certificate files, with no lock between the
processes. `xades` writes one JSON line at a time to a Java process of its own
and reads one line back; `exec.CommandContext` kills that process when the
context is cancelled, and `close` waits for it. `Run` stops with a signal or a
serve error, gives its requests five seconds, and the process's exit takes the
rest of them along. The commands share nothing but the disk and the token.

What is hard here, and the properties it calls for (`PROJECT.json` lists every
hazard at its line):

- **Interleaving**: signs and listings on one module; a token changed between
  any two calls. One operation at a time, balanced `C_Initialize`/`C_Finalize`,
  no login that outlives its operation, and never a second login with one PIN:
  a wrong one costs the user's token a try.
- **Partial failure**: every PKCS#11 call can fail and some paths unwind by
  hand, others by `defer`; a panic in the PDF reader unwinds too.
- **Staleness**: the client may be gone when its request gets the mutex.
- **Waiting**: dialog, mutex and authority have no timeouts.
- **Re-entrance**: a PAdES signature that outgrows its placeholder calls
  `SignPDF` from inside `SignPDF`.
- **Crashes**: two files written one after the other, and shared; an output
  truncated before it is written, in place of the input if `--out` says so.
- **A conversation over pipes**: the helper's standard output carries answers and
  whatever a library prints; a line read too many or too few and two processes
  wait for each other.
- **Going down**: a shutdown that is bounded, dialogs that are not, listeners that
  stop one after the other, and a start that fails half-way.
- **Files between processes**: what a verdict or an exit code is worth when the
  files it speaks of were written, edited or replaced by others.

## 2. Modules

| Module | What it is |
|---|---|
| `ConfirmedSigning` | the abstract service: requests take turns; ask, try one PIN, sign, deliver or refuse |
| `SignDaemon` | the daemon's signing core: handlers, mutex, dialog, module, token, engines |
| `PdfSign` | one `pdfsign.Sign`: the incremental update and its retries |
| `TokenInspect` | one run of `openmdsign inspect` over slots whose tokens move |
| `ServingCert` | the certificate files and the keychain, shared by processes that may be killed |
| `SigningCall` | the abstract call: prepare, sign, complete, write, or fail before or in any step |
| `DssHelper` | the Java helper: a loop over stdin with the fields of `Main` |
| `DssSession` | one `Sign` or `Validate` call that starts, drives and reaps it; extends `DssHelper` |
| `DaemonRun` | daemons from start to exit: listeners, signals, serve errors, bounded shutdown |
| `CommandLine` | `sign`, `sign-raw` and `verify` processes on one directory and one token |
| `ConfirmedSigningProofs`, `SignDaemonProofs`, `PdfSignProofs`, `TokenInspectProofs`, `ServingCertProofs`, `DssSessionProofs`, `DaemonRunProofs`, `CommandLineProofs` | theorems and proofs |
| `MC...` | constants for TLC, one module per specification |

A definition named `X_Something` stands before `X` and is a plausible mistake in
it, labelled "Mutation"; no specification uses it. It is what each property was
tried against: with `X` replaced by it, TLC finds the property violated.

### SignDaemon

One element of `Requests` is one POST and its goroutine; `pc[r]` is where it
stands. The stages follow the code:

| Stage, action | Code |
|---|---|
| `idle` `HandleSign` | `handleSign`'s checks, then `mapSignFormat` and `certificateID`: both before the mutex |
| `queued` `LockMu` | `ts.mu.Lock()`; a request that is already cancelled starts no dialog |
| `confirming` `EnterPin`, `CancelDialog`, `DialogFails`, `KillDialog` | `Confirm` |
| `loading` `LoadModule` | `token.Load`: fails while anybody has the module initialised |
| `opening` `OpenSession` | `selectSlot` (exactly one token) and `C_OpenSession` |
| `login` `Login` | the one `C_Login`, and `CloseSession` when it fails |
| `selecting` `SelectKey` | `selectPrivateKey`, `findCertDERByID`, and logging out when they fail |
| `preparing` `Prepare` | each profile up to the token: PDF parsing, starting the helper, building the document |
| `signing` `TokenSign` | `C_SignInit` and `C_Sign` |
| `stamping` `StampAnswered`, `AbandonStamp` | the time-stamp, assembly, reading back; a PAdES retry goes back to `signing` |
| `closing`, `finalizing`, `unlocking` | the deferred `signer.Close`, `tctx.Close`, `mu.Unlock`, which a panic runs too |
| `replying` `Reply` | the status, the job and the Location |

A `GET /certificates` is `ListLoad` (`token.Load`), `ListSlots` (the walk's slot
list, kept in `todo`), for each slot `ListOpen` and `ListRead`, the session that
`Inspect` opens without a login and closes again (`token.go:239`), and
`ListClose`. `Plug`, `Unplug` and `Disconnect` are the environment. Any PKCS#11
call may fail for no modelled reason. `consent` and `logins` only observe.

Abstractions: a document is a model value with a shape (`pdf`, `challenge`,
`text`, `empty`), which is all the handlers look at; a signature is the pair of
the key and the document; a PIN is a model value and the token's comparison with
it, its try counter and the refusal of a second `C_Initialize` in one process
are the PKCS#11 standard's, modelled as external. `newUUID`'s draw is taken as
fresh. A request is sent once. The certificates a listing reads are data for its
answer, which the daemon keeps nowhere, and are left out.

### PdfSign

A file is its length, the objects added and their offsets, what its last
cross-reference section and trailer say, and the byte range. `CopyInput`,
`AddSignature`, `AddAnnotation`, `AddCatalog`, `WriteXref` (a table or a
stream), `WriteTrailer`, `UpdateByteRange`, `ReplaceSignature`, `WriteOutput` are
the steps of `SignPDF`, and `calls` the depth of its recursion. `newXrefEntries`
and the last object number survive a retry, as they do in the `SignContext`; the
buffer does not. `updateByteRange`'s search is modelled as what it does: the
first run of enough zeros, wherever it is. `Fail` is any piece that cannot be
made, the token or the authority included.

Abstractions: the digits of the range and of the CMS are not spelled out; the
trailer is taken to spell `/Root`, `/Size` and `/Prev` as the string replacement
expects; an input holds no leftover `/ByteRange` placeholder; only the invisible
approval signature is modelled, the only one `pades.Sign` asks for. What the PDF
reader reports of an input is external.

### TokenInspect

`Inspect`'s loop over the slots, one action per PKCS#11 call that can fail or
meet another token than the call before, `Finish` for `runInspect`'s exit code.
`Load` fails when there is nothing to report. Tokens come and go at any moment.

### ServingCert

Each process is a `serve`, `trust install`, `trust uninstall` or `trust status`,
its steps in the order of the code: `ReadCert` and `ReadKey` (`load`),
`WriteCert` and `WriteKey` (`os.WriteFile` truncates before it writes),
`Probe` (`Status`), `AddTrust`, `RemoveTrust`, `DeleteCertificate`, `RemoveCert`,
`RemoveKey`. `Kill` may come between any two, `Fail` at any file operation but
the reads, whose errors `load` swallows: `ReadCert` and `ReadKey` then go on as if
the file were missing, and `misread` notes that they did. Each process has a
hostname (`Hostname`) and a leaf is for one (`Covers`); `Usable` is all that `load`
asks of a pair, the hostname included. `last` is the process that has been alone
since it started, which the properties speak of: with others running nothing is
promised. `last` and `misread` only observe.

### DssHelper and DssSession

`stage` is where the Go call stands, `jvm` what the process does; `stdin` and
`stdout` are the pipes, and `session` the four fields of `Main`.

| Stage, action | Code |
|---|---|
| `check` `CheckRequest` | `Sign`'s checks; `Validate` has none |
| `start` `StartHelper` | `startHelper`: no jar, no Java or a cancelled context means no process |
| `call` `WriteRequest`, `read` `ReadAnswer` | `call`: one line out, exactly one line in |
| `token` `TokenSign` | the token's signature over the digest of what came back |
| `output` `WriteOutput` | `writeOutput` |
| `close` `CloseStdin`, `wait` `Wait` | the deferred `close` |
| helper: `ReadLine`, `HandleGetDataToSign`, `HandleSignDocument`, `HandleValidate`, `Println`, `EndOfInput` | `run` and its handlers, each of which may throw |
| `PrintStray`, `Crash`, `Kill`, `Cancel` | a library's line on `System.out`, the death of the process, `exec.CommandContext`, the daemon's request |

`HandleGetDataToSign` that fails leaves the fields it has reached overwritten
(`digestAlgo` first, then `document`, then `service` and `params`). An answer
around a document in `BigDocs` does not fit in the pipe: `Println` then needs a
client that reads. Only `stdout`'s blocking is modelled; a request is taken to
fit, since the helper reads all of a line before it prints. A signed info is
the document, the digest and the level; packaging, names, the signing time and
the certificate are passed along unread. `ping`, which no client sends, is left
out. `TimestampDataLoader`'s and the OCSP loader's failures are the handlers'.
A write that fails leaves the output alone or leaves `Partial`, whatever is then
in the file.

`SigningCall` is the same call without processes, pipes or cancellation, and
`ImplementsCall` says that the conversation is one: the mapping takes `dtbs`,
`sigValue` and `xml` for the three results, and every other variable is hidden.

### DaemonRun

`pc[d]` follows `Run` from `loopbackOnly` to `returned`, and `Exit` is `main`.
`server` is the state of each listener, `bound` who holds an address,
`serveErrs` the content of `errCh`. `Deadline` is the one `shutdownCtx` that both
`Shutdown` calls share; the HTTP listener goes on accepting until the first has
returned. Requests go through `Accept`, `LockMu`, `Confirm` and `Finish`, an
abstraction of SignDaemon's stages down to what an exit can cut short: waiting,
in front of a dialog, holding a login. `SIGINT` is swallowed after the first, as
`NotifyContext` does until `stop`. `cut` only observes.

### CommandLine

Each process has one command line out of `Invocations`. `ReadInput` is everything
up to `token.Load` (flags, configuration, chain, PIN), `Login` the slot, the
session and the one `C_Login`, `Sign` the engine and, in `sign-raw`, the check of
its result, `Truncate` and `Fill` the two halves of `os.WriteFile`, `Report` the
output and the exit code. `OpenSigned`, `Resolve` and `Judge` are `verify`:
`result` is its `verify.Result`, `Findings` what that can be (whether the signature
verifies, a revocation if one was asked about and somebody answered, a chain that
is good at the time `InTime` judges it for), and `PadesVerdict` and `XadesVerdict`
the exit codes it leads to. `Interrupt` may come anywhere, `Edit` is somebody with
an editor, `Expire` the end of the certificate. `signed`, the processes that the
token has signed for, `logins`, `touched` and the field `late` only observe.

A signed file is known by its maker, which remembers what it read, by whether a
signed byte was edited (`intact`), whether bytes were appended that the signature
does not cover (`grown`), and by its time-stamp: none, the maker's own, or one
that was made for something else. `verifyPAdES` reads only the byte range
(`pades.go:151`) and takes the time of whatever time-stamp it finds
(`pades.go:53`), so the model's verdict does not depend on `grown`, and `InTime`
lets a time-stamp that was made for something else count as the right time.

Abstractions: `Paths` holds the paths that the command lines come to, and other
paths have no file; a PDF that is signed already is not signed again, and what is
appended to one leaves its signature as it is; the revocation answer is a choice,
and so is whether a chain to an anchor is found; DSS is taken to pass only
signatures that hold, and to disregard a time-stamp of something else. What the
flags and the configuration may be refused for is one alternative of
`ReadInput`, except the profile and the PIN, which `Refused` has.

## 3. Runs

All bounds are in the `.cfg` files; `MC` modules build the constants that are
functions.

| Run | Bounds | Result |
|---|---|---|
| `MCSignDaemonSafety` | 2 requests, 1 listing, 2 tokens with different keys and PINs, every kind of body, 1 try (a wrong PIN locks the token), 1 PAdES retry | `TypeOK`, `OneOperation`, `ModuleDiscipline`, `OneLoginPerConsent`, `AnswerHonest` hold, and so does the refinement `ImplementsService`, which implies `TurnsAreWhole` |
| `MCSignDaemonLive` | 2 requests, 1 listing, 1 token, no PAdES retry, one body for each of the two profiles a disconnect treats differently | `EveryRequestEnds`, `AbandonedUnprompted`, `DisconnectFreesTheToken` hold under `FairSpec` |
| `MCSignDaemonListing` | as above | `MuCoversModule` **fails** |
| `MCPdfSign` | table and stream inputs, `/Size` exact and with slack, short runs of zeros, CMS below, at and above the first guess | all six properties hold |
| `MCPdfSignRetry` | the same inputs | `AlwaysCovered` **fails** |
| `MCPdfSignPadded` | inputs with runs of 5 to 12 zeros against a space of 6 | `GapIsContents` **fails** |
| `MCTokenInspect` | 2 slots, 2 tokens with different PINs, 2 tries, all options | `TypeOK`, `FailuresAreReported`, `OneLoginPerToken`, `NothingIsSkipped` hold |
| `MCServingCert` | 3 processes of any kinds, one of them for another hostname, 2 key pairs for the one and 1 for the other | `TypeOK`, `SoloServeHeals`, `SoloInstallTrusts` and the action property `ReadPairIsKept` hold |
| `MCServingCertStatus` | the same | `StatusIsTrue` **fails** |
| `MCDssSession` | 2 documents, one too big for a pipe, every digest, level and caller, 2 stray lines | `TypeOK`, `SignsWhatItReturned`, `SignedAsAsked`, `HelperIsReaped`, `CancelEnds`, `ConversationEnds` hold under `ClientSpec`, and so does the refinement `ImplementsCall` |
| `MCDaemonRun` | 2 daemons that want each other's addresses, one with a plain listener, the other with none or with one that is not loopback; 2 requests | `TypeOK`, `CutOnlyLate`, `ListenersOwnAddresses`, `ExitsForAReason`, `StopsWhenTold` hold under `RunSpec` |
| `MCCommandLine` | 2 signing processes and one that verifies or has a wrong PIN, with 6, 2 and 5 command lines, a PDF and a text, 2 tries, 1 edited file at a time | `TypeOK`, `PinIsTriedOnce`, `FailureLeavesFiles`, `SuccessIsOnDisk`, `VerdictIsEarned` hold |

Why the bounds are enough. Requests interact only through the mutex, the module
and the token, all of which admit one at a time: a second request is everybody
else, and the theorems of section 5 remove the bound. One listing is enough to
take the module at any point; a second would behave as the first. Two tokens
give the wrong token in the slot, two in at once, and none. `MaxResigns` bounds
a loop that `PdfSign` shows to end (`AttemptsAreBounded`). In `PdfSign` the
lengths only have to fall on both sides of the guess and its successors, and
runs of zeros on both sides of the space. Three processes give a victim of a
crash, a survivor to repair, and one more to race with; two key pairs for one
hostname let the keychain hold a leaf older than the file's, and the third is the
one that must not be served under another name. Two stray lines are
one for each request of a conversation. A second daemon is everybody else who
wants an address; two requests on one daemon are one that holds the mutex and
one behind it, on either listener. A second signing process is the one that
overwrites, and the verify sees every state of the files; the command lines
cover both forms of output, both ways to find an original, an output over its
input, both levels, a revocation check, and a wrong PIN for up to three processes,
one more than the token has tries. `MaxEdits` counts files whose last writer was an editor,
so that one file can be edited after another.

Deadlock is checked where the environment never stops (`SignDaemon`). A finished
`inspect`, a signed file, a call that has returned and processes that have ended
may stop, and their configurations say so.

### What the failing runs show

Each checks one sentence of the repository against what the code does.

- `MuCoversModule`: `tokensigner.go:105` says token operations are serialized by
  `mu`. The listing's `token.Load` (`certs.go:73`) is not; a request whose user
  has just typed a PIN finds the module taken and answers 500, and a listing
  during a sign comes back empty. `ModuleDiscipline` shows the damage ends there:
  neither ever finalises the other's module.
- `AlwaysCovered`: `docs/profile-spec.md:128` wants one byte range over the whole
  document. After a retry every pending `SignPDF` writes the file it finds in the
  shared buffer (`sign.go:270`): the file is delivered twice, end to end.
- `GapIsContents` on padded inputs: the placeholder is looked for by length only
  (`pdfbyterange.go:16`), and an earlier signature's padding can be found first.
- `StatusIsTrue`: `Status` matches the hostname, not the leaf (`trust.go:139`):
  after an uninstall whose keychain commands failed, or a pair that was
  regenerated, an untrusted leaf is reported as trusted.

### Observations

Met while modelling, and stated by no run of their own:

- `inspect.go:37` says of the PIN that it is used for exactly one login attempt;
  with two tokens and no filter `Inspect` makes one per token.
  `OneLoginPerToken` is what holds.
- `Main.java:77` says that stray output of libraries is routed to stderr; the
  code opens a second stream on the same descriptor and never calls
  `System.setOut`. A stray line fails the call (`SignedAsAsked` shows that it never
  does worse), and before a large answer it leaves client and helper waiting for
  each other in `close`, the one exception `Standoff` of `ConversationEnds`. The
  daemon holds its mutex meanwhile; a cancelled request ends it, the commands
  have none.
- `sign.go:185` speaks of `test.txt.xades` next to `test.txt`; the default output
  is in `sign-out/`, where `verify` (`xades.go:99`) does not find the original
  without `--original`.
- `servingcert.go:65` says that the pair on disk is reused when present and valid,
  and regenerated when the files are missing, unparseable, expired, or for another
  hostname. `load` (`servingcert.go:105`) takes any read error for a missing file,
  and `EnsureCert` then replaces the pair, with the trust in it. So
  `ReadPairIsKept` speaks of a pair that could be read: without that restriction
  (`last \ misread` in `KeepsReadPair`) it is false.
- `README.md:132` and `cmd/openmdsign/verify.go:51` say that `verify` validates
  the time-stamp. One that was made for something else only draws a warning
  (`pades.go:116`), and the chain is judged at its time (`pades.go:53`): the file
  is VALID. The model has such time-stamps (`stamp` is `"other"`), and
  `VerdictIsEarned` says what VALID means nevertheless: nothing about the time.
- A signed PDF with an update appended to it is VALID: `verify` speaks of the byte
  range only, as `cmd/openmdsign/verify.go:50` says it does, and does not tell
  whether that is all of the file.
- `verify --json` exits with 1, INVALID, when the report cannot be written
  (`cmd/openmdsign/verify.go:113`).

## 4. Fairness

`SignDaemon`: `Scheduling` has each goroutine's own steps weakly fair (the Go
runtime runs them) and `LockMu` strongly fair, since `sync.Mutex` hands the lock
to a waiter it has starved for a millisecond; `FairSpec` is `Spec` with it.
`Cooperation`, that the user answers the dialog in some way, that the authority
answers and that a listing takes its steps (`Walk`), is the antecedent of `EveryRequestEnds` and of
nothing else: `DisconnectFreesTheToken` shows what a disconnect achieves by
itself. PAdES is left out of that property because `GetTSA`
(`pdfsignature.go:411`) has neither a timeout nor the request's context. No
fairness is assumed of clients, tokens or new requests, and none of the choice a
device makes between success and failure.

`DssSession`: `ClientSpec` has the caller's goroutine weakly fair, the token's
answer included (PKCS#11 calls return), and `Kill`, the goroutine that
`exec.CommandContext` starts. `HelperServes`, the helper's own loop, is the
antecedent of `ConversationEnds` only: `CancelEnds` holds whatever the helper does.

`DaemonRun`: `RunSpec` has `Run`'s goroutine and its timer weakly fair. Nothing is
assumed of the requests, so `StopsWhenTold` holds with a dialog that nobody answers.

The other specifications have safety properties only. The liveness runs use no
symmetry.

## 5. Proofs

The theorems hold for any values of the constants that satisfy the modules'
assumptions: constants are well-typed, sentinels are outside the sets they
extend, and, where something is counted, the sets counted are finite
(`FiniteAssumption` for `Requests`, and those of `TokenInspect`,
`CommandLine` and, for the CMS lengths, `PdfSign`). TLC evaluates each assumption on the runs of its module. Every proof module follows one plan: an
invariant `IndInv` that is stronger than the properties, `InitHolds`, one lemma
per action with a step per conjunct that the action can disturb, `Inductive`
(`Spec => []IndInv`), and the properties from it.

- `SignDaemonProofs`. None of the properties is inductive alone. `IndInv` adds,
  for each stage, what the request has behind it (`StageFacts`: before the dialog
  there is no consent, no login, no signature; from `selecting` on exactly one
  login; at `stamping` the signature is the one that was asked for), which
  outcomes go with it (`OutcomeFacts`), and that the key handle found in a
  session stays the one requested (`KeyFound`), which `AnswersAreHonest` rests
  on, with the fact that a job never changes once stored. `ModuleIsDisciplined`
  is the interesting one: listings and signs share no lock, both open sessions,
  and `C_Initialize` refusing a second owner is all that keeps them apart. `PinIsTriedOnce` bounds
  the lost tries by the consents through a second invariant, `TriesInv`.
- `SignDaemonProofs!ServiceIsImplemented`: the mapping `StageOf` reads the
  abstract stage from `outcome`, `pc`, `consent` and `signs`; one lemma per action
  shows the step or the stutter it maps to. `TurnsHold` carries the service's own
  invariant over (`ConfirmedSigningProofs!TurnsStayWhole`).
- `SignDaemonProofs!AbandonedAreUnprompted` proves a formula with two boxes:
  `Abandoned` is what a request is from the moment its client leaves the queue,
  and no step of anybody makes it false again (`AbandonedStays`).
- `PdfSignProofs`. `Numbered` is what makes the file readable after retries: a
  number is the place of its object among the entries of *all* passes, which
  survive while the buffer is thrown away. `Built` and `Finished` follow the
  pieces of one pass, `Attempts` the recursion: the CMS lengths that a raised
  base has room for and the first had not (`Outgrown`) grow with every retry
  (`RetryOutgrows`), so that there are at most as many retries as there are
  such lengths. `Least`, that a set of naturals has a least element, is there
  for the search for the first run of zeros. `GapsAreContents` has one
  hypothesis, that every run of zeros in an input is shorter than the first
  space (`Unpadded`): without it the property is false, which is what
  `MCPdfSignPadded` shows. The other theorems of the module have none. Nothing
  is assumed of the CMS lengths but that there are finitely many.
- `TokenInspectProofs`. `Walk` says what the report and the exit code can hold at
  each step, `Places` that a token is in one slot and the session is on it, `Tried`
  that a token that was tried and not moved sits in a slot already visited, `Seen`
  that one left in place is ahead, under way or in the report. Without `Tried` a
  token could be met again in a later slot; without `Seen`, `ReportIsComplete`
  would not survive a slot that fails half-way.
- `ServingCertProofs`. `Course` lists the stages of each command, `Minted` says
  that every leaf on disk or in memory was minted (so that the next one is
  new), and `Solo` relates, for a process that has been alone since it started,
  what it has read and minted to the files at each of its steps (`Holds`): when it
  sets out to write the pair is not sound or it failed to read it, and until its
  last write the files are not its pair, because its leaf is new (`Minted`).
  `ReadPairsAreKept`, an action property, is read off that: no step that writes is
  taken from a sound pair by a process that could read it. `SoloServesHeal` is
  about the pair and its hostname, and not about its age: a certificate may expire
  after it was read.
  Nothing is said of processes that ran beside others, which the code does not
  keep apart.
- `DssSessionProofs`. `HelperPhase` says that the helper is idle, or at one of
  the four steps of the first or of the second exchange; `Lines` that a line on
  `stdout` that is not stray is the answer to the request in progress, and the
  last; `Progress` what the client's stage knows of both. The argument is that a
  stray line always fails the call, so that no answer is ever left over for the
  next request to take.
- `DssSessionProofs!ConversationIsACall`: the invariant plus `Fresh`, that no
  result is there before its stage. `ReadCases` and `TokenCases` name the step of
  `SigningCall` that a line read and a token's answer are; everything the helper,
  the pipes and the watcher of the context do is a stutter.
- `DaemonRunProofs`. `Starting` and `Stopping` say which listeners serve at each
  place of `Run`, on which checked address, and that a listener's shutdown has
  drained its requests or met the deadline; `Accepted` ties a request to a
  listener that was up. `CutsAreLate` needs all three: a request can be accepted
  on the HTTP listener while the HTTPS one drains.
- `CommandLineProofs`. `Progress` says what each stage has behind it, the token's
  signature before any file is opened for writing (`FailuresLeaveFiles`),
  `Authentic` that a signed file has a maker that logged in with the right PIN,
  had that signature and will not change its mind about what it read, `OnDisk`
  what became of a written output. An edit leaves a signed file its maker, which
  is all that `Authentic` needs.
  `VerdictsAreEarned` rests on `Authentic` for files written by processes that
  are long gone; `PinsAreTriedOnce` on counting (`FiniteSetTheorems`).

Model-checked only: all liveness (`EveryRequestEnds`, `DisconnectFreesTheToken`,
`CancelEnds`, `ConversationEnds`, `StopsWhenTold`). Liveness under
fairness and `ENABLED` are outside what the installed prover handles, and so are
induction over data and `RECURSIVE` operators, which no module here uses.

## 6. Not modelled, and why

The router, CORS and access log (stateless), the stub and canned signers (no
token), configuration and rendering (no state), visible signatures and document
time-stamps (unreachable), the ephemeral development certificate, and trust on
other platforms than macOS (refused). The bytes of a login container
(`xadesauth`) are formatting and hashing in one goroutine. The boundary of
`isAuthChallenge` at 64 bytes is a pure function of a length that the unit tests
cover. Files signed more than once are not given to `verify`: what
`extractPDFSignature` then judges is the first dictionary in the reader's order,
which no document of the repository specifies. The cryptography, the PDF reader,
the PKCS#11 module, DSS itself and `security` are external and appear through
what the code sees of them.

## 7. Plan

Done, in this order: `ConfirmedSigning` and `SignDaemon` with their refinement,
`PdfSign`, `TokenInspect`, `ServingCert`, `DssHelper` and `DssSession`,
`DaemonRun`, `CommandLine`, the proofs about all of them, and `SigningCall` with
the refinement of it.

Open:

1. An abstract specification of a command (one login, one output, one exit code)
   and the proof that `CommandLine` implements it for each process.
2. Visible signatures in `PdfSign`, should the program come to ask for them.
3. A second signature on a signed PDF, in `CommandLine` and `PdfSign` together.
