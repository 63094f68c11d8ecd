----------------------------- MODULE DssSession -----------------------------
(***************************************************************************)
(* One conversation of the Go packages with the DSS helper: xades.Signer's *)
(* Sign and xades.Validate (internal/sign/xades) start a helper, drive it  *)
(* over its pipes and reap it.  Composed with DssHelper.                   *)
(***************************************************************************)
EXTENDS DssHelper

CONSTANT Partial    \* an output file that a write has failed in

ASSUME PartialAssumption == Partial \notin Xmls \cup {None}

(* A call of Sign or Validate; the digest and the level may be ones that   *)
(* no profile has, and the document may be empty.                          *)
Callers == {"daemon", "command"}
Tasks == [kind : {"sign"}, doc : Docs \cup {None}, digest : Digests \cup {None},
          level : Levels \cup {None}, caller : Callers]
         \cup [kind : {"validate"}, doc : Docs \cup {None}, digest : {None},
               level : {None}, caller : Callers]

VARIABLES
    task,       \* the call, and who made it
    stage,      \* what it does next
    dtbs,       \* the data to be signed, as returned
    sigValue,   \* the token's signature over it
    xml,        \* the container, as returned
    file,       \* what the call has written to the output file
    outcome,    \* what the call returned
    cancelled   \* its context is cancelled

dataVars == <<dtbs, sigValue, xml, file>>
callVars == <<task, cancelled>>
vars == <<jvmVars, dataVars, callVars, stage, outcome>>

Init ==
    /\ HelperInit
    /\ task \in Tasks
    /\ stage = "check"
    /\ dtbs = None /\ sigValue = None /\ xml = None /\ file = None
    /\ outcome = "none"
    /\ cancelled = FALSE

Wanted == [doc |-> task.doc, digest |-> task.digest, level |-> task.level]

Supported == task.kind = "sign" => None \notin {task.doc, task.digest, task.level}

Return(s, o) == stage' = s /\ outcome' = o

(* Sign refuses an empty input, a digest and a level it does not know.     *)
CheckRequest ==
    /\ stage = "check"
    /\ IF Supported THEN Return("start", outcome) ELSE Return("done", "failed")
    /\ UNCHANGED <<jvmVars, dataVars, callVars>>

(* startHelper: without a jar or a Java, or once the context is cancelled, *)
(* there is no process to reap.                                            *)
StartHelper ==
    /\ stage = "start"
    /\ \/ Return("done", "failed") /\ UNCHANGED jvm
       \/ ~cancelled /\ jvm' = "reading" /\ Return("call", outcome)
    /\ UNCHANGED <<session, request, answer, inVars, stdout, strays, handled,
                   dataVars, callVars>>

NextRequest ==
    IF task.kind = "validate" THEN [op |-> "validate", doc |-> task.doc]
    ELSE IF sigValue = None THEN [op |-> "getDataToSign", info |-> Wanted]
    ELSE [op |-> "signDocument", sig |-> sigValue]

(* call: the request is written, which fails once nobody can read it.      *)
WriteRequest ==
    /\ stage = "call"
    /\ IF jvm = "exited" THEN Return("close", "failed") /\ UNCHANGED stdin
       ELSE Return("read", outcome) /\ stdin' = Append(stdin, NextRequest)
    /\ UNCHANGED <<jvm, session, request, answer, stdinOpen, stdout, strays, handled,
                   dataVars, callVars>>

(* What getDataToSign, signDocument and Validate take from the answer.     *)
Accept(a) ==
    IF task.kind = "validate" THEN Return("close", "validated") /\ UNCHANGED <<dtbs, xml>>
    ELSE IF sigValue = None
    THEN Return("token", outcome) /\ dtbs' = a.dtbs /\ UNCHANGED xml
    ELSE Return("output", outcome) /\ xml' = a.xml /\ UNCHANGED dtbs

Refuse == Return("close", "failed") /\ UNCHANGED <<dtbs, xml>>

\* Mutation: after a line that is not an answer the request is sent again.
ReadAnswer_Retries ==
    /\ stage = "read"
    /\ stdout # <<>>
    /\ stdout' = Tail(stdout)
    /\ IF Head(stdout) = Stray
       THEN stdin' = Append(stdin, NextRequest) /\ UNCHANGED <<stage, outcome, dtbs, xml>>
       ELSE /\ IF Head(stdout).ok THEN Accept(Head(stdout)) ELSE Refuse
            /\ UNCHANGED stdin
    /\ UNCHANGED <<jvm, session, request, answer, stdinOpen, strays, handled,
                   sigValue, file, callVars>>

\* Mutation: the end of the output is taken for a line still to come.
ReadAnswer_Waits ==
    /\ stage = "read"
    /\ stdout # <<>>
    /\ IF Head(stdout) # Stray /\ Head(stdout).ok
       THEN Accept(Head(stdout)) ELSE Refuse
    /\ stdout' = Tail(stdout)
    /\ UNCHANGED <<jvm, session, request, answer, inVars, strays, handled,
                   sigValue, file, callVars>>

(* call: exactly one line is read; the end of the output, a line that is   *)
(* not an answer and an answer that is not ok are errors.                  *)
ReadAnswer ==
    /\ stage = "read"
    /\ \/ /\ stdout # <<>>
          /\ IF Head(stdout) # Stray /\ Head(stdout).ok
             THEN Accept(Head(stdout)) ELSE Refuse
          /\ stdout' = Tail(stdout)
       \/ /\ stdout = <<>> /\ jvm = "exited"
          /\ Refuse
          /\ UNCHANGED stdout
    /\ UNCHANGED <<jvm, session, request, answer, inVars, strays, handled,
                   sigValue, file, callVars>>

\* Mutation: the default digest is signed as it was asked for, not resolved.
TokenSign_Unresolved ==
    /\ stage = "token"
    /\ sigValue' = [over |-> dtbs,
                    digest |-> IF task.digest = "sha256" THEN None ELSE task.digest]
    /\ Return("call", outcome)
    /\ UNCHANGED <<jvmVars, dtbs, xml, file, callVars>>

(* The token signs the digest of what was returned, or fails.              *)
TokenSign ==
    /\ stage = "token"
    /\ \/ /\ sigValue' = [over |-> dtbs, digest |-> task.digest]
          /\ Return("call", outcome)
       \/ Return("close", "failed") /\ UNCHANGED sigValue
    /\ UNCHANGED <<jvmVars, dtbs, xml, file, callVars>>

\* Mutation: the error of the write is dropped.
WriteOutput_Dropped ==
    /\ stage = "output"
    /\ file' \in {xml, file, Partial}
    /\ Return("close", "signed")
    /\ UNCHANGED <<jvmVars, dtbs, sigValue, xml, callVars>>

(* writeOutput: os.WriteFile may fail before or after it has truncated.    *)
WriteOutput ==
    /\ stage = "output"
    /\ \/ file' = xml /\ Return("close", "signed")
       \/ file' \in {file, Partial} /\ Return("close", "failed")
    /\ UNCHANGED <<jvmVars, dtbs, sigValue, xml, callVars>>

\* Mutation: the helper's stdin stays open.
CloseStdin_Open ==
    /\ stage = "close"
    /\ stage' = "wait"
    /\ UNCHANGED <<jvmVars, dataVars, callVars, outcome>>

\* Mutation: the helper is told to leave, and not waited for.
CloseStdin_NoWait ==
    /\ stage = "close"
    /\ stdinOpen' = FALSE
    /\ stage' = "done"
    /\ UNCHANGED <<jvm, session, request, answer, stdin, stdout, strays, handled,
                   dataVars, callVars, outcome>>

(* The deferred close: stdin's end, which ends the helper's loop, ...      *)
CloseStdin ==
    /\ stage = "close"
    /\ stdinOpen' = FALSE
    /\ stage' = "wait"
    /\ UNCHANGED <<jvm, session, request, answer, stdin, stdout, strays, handled,
                   dataVars, callVars, outcome>>

(* ... and Wait, which reads nothing more until the process has exited.    *)
Wait ==
    /\ stage = "wait"
    /\ jvm = "exited"
    /\ stage' = "done"
    /\ UNCHANGED <<jvmVars, dataVars, callVars, outcome>>

(* The daemon passes the request's context; the commands' is Background.   *)
Cancel ==
    /\ task.caller = "daemon"
    /\ stage # "done"
    /\ ~cancelled
    /\ cancelled' = TRUE
    /\ UNCHANGED <<jvmVars, dataVars, task, stage, outcome>>

(* exec.CommandContext kills the process of a cancelled context.           *)
Kill ==
    /\ cancelled /\ Alive
    /\ jvm' = "exited"
    /\ UNCHANGED <<session, request, answer, inVars, stdout, strays, handled,
                   dataVars, callVars, stage, outcome>>

Client == \/ CheckRequest \/ StartHelper \/ WriteRequest \/ ReadAnswer
          \/ TokenSign \/ WriteOutput \/ CloseStdin \/ Wait

Helper == Serve(stage = "read") /\ UNCHANGED <<dataVars, callVars, stage, outcome>>

Next == \/ Client \/ Helper \/ Cancel \/ Kill
        \/ Crash /\ UNCHANGED <<dataVars, callVars, stage, outcome>>

Spec == Init /\ [][Next]_vars

(* The client's goroutine runs on, the token answers, and the watcher of a *)
(* cancelled context kills.  Nothing is assumed of the helper.             *)
ClientSpec == Spec /\ WF_vars(Client) /\ WF_vars(Kill)

\* The helper serves what it is sent: its own loop runs, and the time-stamping
\* authority answers or times out.
HelperServes == WF_vars(Helper)

-----------------------------------------------------------------------------
TypeOK ==
    /\ HelperTypeOK
    /\ task \in Tasks
    /\ stage \in {"check", "start", "call", "read", "token", "output", "close",
                  "wait", "done"}
    /\ dtbs \in SignedInfos \cup {None}
    /\ sigValue \in Signatures \cup {None}
    /\ xml \in Xmls \cup {None}
    /\ file \in Xmls \cup {None, Partial}
    /\ outcome \in {"none", "signed", "validated", "failed"}
    /\ cancelled \in BOOLEAN

(* When the helper is asked to sign, its fields are those the value was    *)
(* made for ("so signDocument reproduces the exact SignedInfo that         *)
(* getDataToSign returned", Main), whatever failed, strayed or was retried *)
(* before.                                                                 *)
SignsWhatItReturned ==
    jvm = "handling" /\ request.op = "signDocument" =>
        /\ Complete(session)
        /\ request.sig = [over |-> SignedInfoOf(session), digest |-> session.digestAlgo]

(* Sign returns without an error only with a container of its document on  *)
(* disk, at the level and with the digest it was asked for, around the     *)
(* token's signature of that very SignedInfo; otherwise it has written     *)
(* nothing, or failed in writing.                                          *)
SignedAsAsked ==
    IF outcome = "signed"
    THEN file = [info |-> Wanted, alg |-> task.digest, stamped |-> task.level = "t",
                 sig |-> [over |-> Wanted, digest |-> task.digest]]
    ELSE file = None \/ (file = Partial /\ outcome = "failed")

(* A call that has returned leaves no helper behind, and its helper has    *)
(* served that call only ("serves exactly one signing session", helper).   *)
HelperIsReaped ==
    /\ stage = "done" => ~Alive
    /\ handled \in {<<>>, <<"validate">>, <<"getDataToSign">>,
                    <<"getDataToSign", "signDocument">>}

Call == INSTANCE SigningCall
            WITH Calls <- Tasks, prepared <- dtbs, value <- sigValue, container <- xml

(* The two processes and their pipes together do what a call in one piece  *)
(* would: Sign's steps for its own document, in order and once (Signer's   *)
(* Sign and getDataToSign to writeOutput), and no step after a failure.    *)
ImplementsCall == Call!Spec

(* A call whose context is cancelled returns, whatever the helper does.    *)
CancelEnds == cancelled ~> stage = "done"

(* The client waits for the exit of a helper that waits for a reader: a    *)
(* stray line was taken for the answer, and the answer does not fit in the *)
(* pipe.                                                                   *)
Standoff == stage = "wait" /\ jvm = "printing" /\ Big(answer) /\ strays > 0

(* With a helper that serves, every call returns, cancelled or not, but    *)
(* for that one standoff, which only a cancellation or a crash ends        *)
(* (helper.close).                                                         *)
ConversationEnds == HelperServes => <>(stage = "done" \/ Standoff)
=============================================================================
