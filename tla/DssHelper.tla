----------------------------- MODULE DssHelper -----------------------------
(***************************************************************************)
(* The EU DSS helper (java/dss-helper, Main.java): a process that answers  *)
(* JSON lines from its stdin on its stdout, one at a time, and keeps the   *)
(* parameters of the last getDataToSign for signDocument.  DssSession      *)
(* composes it with the Go client that starts, drives and reaps it.        *)
(***************************************************************************)
EXTENDS Integers, Sequences

CONSTANTS
    Docs,           \* the documents to sign or to validate
    BigDocs,        \* those whose signed XML does not fit in a pipe
    MaxStrays,      \* bound: lines a library prints on System.out
    None,           \* an absent field, and the empty string it decodes to
    Stray           \* a line that is not an answer

ASSUME HelperAssumption ==
    /\ BigDocs \subseteq Docs
    /\ MaxStrays \in Nat
    /\ None \notin Docs

Levels == {"b", "t"}
Digests == {"sha256", "sha1"}

\* What a SignedInfo is made of, a signature over one, and a signed container.
SignedInfos == [doc : Docs, digest : Digests, level : Levels]
Signatures == [over : SignedInfos \cup {None}, digest : Digests]
Xmls == [info : SignedInfos, alg : Digests, sig : Signatures, stamped : BOOLEAN]

Requests == [op : {"getDataToSign"}, info : SignedInfos]
            \cup [op : {"signDocument"}, sig : Signatures]
            \cup [op : {"validate"}, doc : Docs \cup {None}]

(* The response envelope: an operation fills its own field.                *)
Answers == [ok : BOOLEAN, dtbs : SignedInfos \cup {None}, xml : Xmls \cup {None}]
Failure == [ok |-> FALSE, dtbs |-> None, xml |-> None]
Success == [ok |-> TRUE, dtbs |-> None, xml |-> None]

(* The fields of Main: None before they are first set.                     *)
Sessions == [params : [digest : Digests, level : Levels] \cup {None},
             document : Docs \cup {None},
             service : {"plain", "tsp", None},
             digestAlgo : Digests \cup {None}]
NoSession == [params |-> None, document |-> None, service |-> None, digestAlgo |-> None]

(* None and Stray are told apart from the data.                            *)
ASSUME SentinelAssumption ==
    /\ None \notin SignedInfos \cup Signatures \cup Xmls \cup Requests \cup Answers
    /\ None \notin [digest : Digests, level : Levels] \cup Digests \cup {"plain", "tsp"}
    /\ Stray \notin Answers

VARIABLES
    jvm,        \* what the process does
    session,    \* the fields params, document, service and digestAlgo
    request,    \* the request it handles
    answer,     \* the answer it has made
    stdin,      \* the requests written to it and not read
    stdinOpen,  \* the client has not closed its end
    stdout,     \* the lines printed and not read
    strays,     \* the lines a library printed
    handled     \* observed: the operations handled, in order

inVars == <<stdin, stdinOpen>>
jvmVars == <<jvm, session, request, answer, stdin, stdinOpen, stdout, strays, handled>>

HelperInit ==
    /\ jvm = "off"
    /\ session = NoSession
    /\ request = None
    /\ answer = None
    /\ stdin = <<>>
    /\ stdinOpen = TRUE
    /\ stdout = <<>>
    /\ strays = 0
    /\ handled = <<>>

Alive == jvm \in {"reading", "handling", "printing"}

\* run's loop: the next line, in order.
ReadLine ==
    /\ jvm = "reading"
    /\ stdin # <<>>
    /\ request' = Head(stdin)
    /\ stdin' = Tail(stdin)
    /\ jvm' = "handling"
    /\ UNCHANGED <<session, answer, stdinOpen, stdout, strays, handled>>

\* readLine returns null, run and main return.
EndOfInput ==
    /\ jvm = "reading"
    /\ stdin = <<>>
    /\ ~stdinOpen
    /\ jvm' = "exited"
    /\ UNCHANGED <<session, request, answer, inVars, stdout, strays, handled>>

\* A handler ends with an answer, a's, and the fields as they then are.
Handled(s, a) ==
    /\ session' = s
    /\ answer' = a
    /\ handled' = Append(handled, request.op)
    /\ jvm' = "printing"
    /\ UNCHANGED <<request, inVars, stdout, strays>>

SignedInfoOf(s) == [doc |-> s.document, digest |-> s.params.digest, level |-> s.params.level]

ServiceFor(level) == IF level = "t" THEN "tsp" ELSE "plain"

\* Mutation: the digest is kept at its default for the second step.
HandleGetDataToSign_Default ==
    /\ jvm = "handling" /\ request.op = "getDataToSign"
    /\ LET info == request.info
           ready == [session EXCEPT !.digestAlgo = "sha256", !.document = info.doc,
                        !.service = ServiceFor(info.level),
                        !.params = [digest |-> info.digest, level |-> info.level]]
       IN Handled(ready, [Success EXCEPT !.dtbs = SignedInfoOf(ready)])

(* handleGetDataToSign overwrites the fields one by one; an exception      *)
(* leaves those it has reached: none, the digest, the document too, or all.*)
HandleGetDataToSign ==
    /\ jvm = "handling" /\ request.op = "getDataToSign"
    /\ LET info == request.info
           digested == [session EXCEPT !.digestAlgo = info.digest]
           loaded == [digested EXCEPT !.document = info.doc]
           ready == [loaded EXCEPT !.service = ServiceFor(info.level),
                                   !.params = [digest |-> info.digest, level |-> info.level]]
       IN \/ \E s \in {session, digested, loaded, ready} : Handled(s, Failure)
          \/ Handled(ready, [Success EXCEPT !.dtbs = SignedInfoOf(ready)])

Complete(s) == s.params # None /\ s.document # None /\ s.service # None

(* handleSignDocument makes a container of the fields and the value it is  *)
(* sent; it fails without a session, or when the time-stamp cannot be had. *)
HandleSignDocument ==
    /\ jvm = "handling" /\ request.op = "signDocument"
    /\ \/ Handled(session, Failure)
       \/ /\ Complete(session)
          /\ Handled(session, [Success EXCEPT !.xml =
                [info |-> SignedInfoOf(session), alg |-> session.digestAlgo,
                 sig |-> request.sig, stamped |-> session.service = "tsp"]])

(* handleValidate reads none of the fields.                                *)
HandleValidate ==
    /\ jvm = "handling" /\ request.op = "validate"
    /\ \E a \in {Failure, Success} : Handled(session, a)

(* A library prints a line of its own: System.out is never redirected.     *)
PrintStray ==
    /\ jvm = "handling"
    /\ strays < MaxStrays
    /\ strays' = strays + 1
    /\ stdout' = Append(stdout, Stray)
    /\ UNCHANGED <<jvm, session, request, answer, inVars, handled>>

\* A line that does not fit in the pipe.
Big(a) == a.xml # None /\ a.xml.info.doc \in BigDocs

(* println and flush: a line that does not fit waits for a reader.         *)
Println(reading) ==
    /\ jvm = "printing"
    /\ Big(answer) => reading
    /\ stdout' = Append(stdout, answer)
    /\ answer' = None
    /\ request' = None
    /\ jvm' = "reading"
    /\ UNCHANGED <<session, inVars, strays, handled>>

(* The process dies at any moment: a damaged jar, no memory, a signal.     *)
Crash ==
    /\ Alive
    /\ jvm' = "exited"
    /\ UNCHANGED <<session, request, answer, inVars, stdout, strays, handled>>

\* Everything the helper does of itself, short of dying.
Serve(reading) == \/ ReadLine \/ EndOfInput
                  \/ HandleGetDataToSign \/ HandleSignDocument \/ HandleValidate
                  \/ PrintStray \/ Println(reading)

HelperTypeOK ==
    /\ jvm \in {"off", "reading", "handling", "printing", "exited"}
    /\ session \in Sessions
    /\ request \in Requests \cup {None}
    /\ answer \in Answers \cup {None}
    /\ stdin \in Seq(Requests)
    /\ stdinOpen \in BOOLEAN
    /\ stdout \in Seq(Answers \cup {Stray})
    /\ strays \in 0 .. MaxStrays
    /\ handled \in Seq({"getDataToSign", "signDocument", "validate"})
=============================================================================
